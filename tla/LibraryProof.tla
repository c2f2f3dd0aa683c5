---------------------------- MODULE LibraryProof ----------------------------
(***************************************************************************)
(* Proofs about the machines of Library, for every value of their          *)
(* constants: the coordinator's public record (AuditLedger), the processes *)
(* of the demo (DemoProcesses), the community in memory                    *)
(* (LocalControlPlane), the mesh of the test kit (InMemoryMesh) and the    *)
(* signed records of the commons protocol (Commons).                       *)
(***************************************************************************)
EXTENDS Library, SequencesExt, SequenceTheorems, FiniteSetTheorems, TLAPS
-----------------------------------------------------------------------------
(***************************************************************************)
(* Audit chains: what every handler that stores a row needs.               *)
(***************************************************************************)
\* A chain that verifies has its last row as head: the next number is its length.
LEMMA LatestIsLast ==
  ASSUME NEW B, NEW rows \in Seq(Rows(B)), VerifyChain(rows), rows # <<>>
  PROVE  LatestRow(rows) = rows[Len(rows)] /\ LatestRow(rows).sequence = Len(rows) - 1
<1>1. \A i \in DOMAIN rows : rows[i].sequence = i - 1
  BY DEF VerifyChain, AuditRow
<1>2. Len(rows) \in DOMAIN rows /\ \A i \in DOMAIN rows : i \in 1..Len(rows)
  OBVIOUS
<1>3. IsLatest(rows, Len(rows))
  BY <1>1, <1>2 DEF IsLatest
<1>4. \A i : IsLatest(rows, i) => i = Len(rows)
  BY <1>1, <1>2 DEF IsLatest
<1>5. (CHOOSE i \in DOMAIN rows : IsLatest(rows, i)) = Len(rows)
  BY <1>2, <1>3, <1>4
<1>6. QED
  BY <1>1, <1>2, <1>5 DEF LatestRow

\* The row prepareAuditEvent builds is a row of the table, and links to the chain.
LEMMA PreparedLinks ==
  ASSUME NEW B, NEW rows \in Seq(Rows(B)), VerifyChain(rows), NEW body \in B
  PROVE  /\ PrepareAuditEvent(rows, body) \in Rows(B)
         /\ LinksTo(PrepareAuditEvent(rows, body), rows)
         /\ PrepareAuditEvent(rows, body).sequence = Len(rows)
         /\ PrepareAuditEvent(rows, body).body = body
<1>1. CASE rows = <<>>
  BY <1>1 DEF PrepareAuditEvent, AuditRow, LinksTo, HashBefore, Genesis,
              Rows, Hashes, EventHash
<1>2. CASE rows # <<>>
  <2>1. /\ LatestRow(rows) = rows[Len(rows)]
        /\ LatestRow(rows).sequence = Len(rows) - 1
    BY <1>2, LatestIsLast
  <2>2. rows[Len(rows)] \in Rows(B) /\ Len(rows) \in Nat /\ Len(rows) # 0
    BY <1>2
  <2>3. PrepareAuditEvent(rows, body) =
          AuditRow(Len(rows), body, rows[Len(rows)].hash)
    BY <1>2, <2>1, <2>2 DEF PrepareAuditEvent
  <2>4. rows[Len(rows)].hash \in Hashes(B)
    BY <2>2 DEF Rows
  <2>5. AuditRow(Len(rows), body, rows[Len(rows)].hash) \in Rows(B)
    BY <2>2, <2>4 DEF AuditRow, Rows, EventHash, Hashes
  <2>6. QED
    BY <2>2, <2>3, <2>5 DEF LinksTo, AuditRow, HashBefore
<1>3. QED
  BY <1>1, <1>2

\* A linked row with the next number extends the chain.
LEMMA AppendLinked ==
  ASSUME NEW B, NEW rows \in Seq(Rows(B)), VerifyChain(rows),
         NEW row \in Rows(B), LinksTo(row, rows), row.sequence = Len(rows)
  PROVE  VerifyChain(Append(rows, row))
<1>1. Len(rows) \in Nat /\ DOMAIN rows = 1..Len(rows)
  OBVIOUS
<1>2. ASSUME NEW i \in DOMAIN Append(rows, row)
      PROVE  Append(rows, row)[i] =
               AuditRow(i - 1, Append(rows, row)[i].body,
                        HashBefore(Append(rows, row), i - 1))
  <2>1. CASE i \in DOMAIN rows
    <3>1. Append(rows, row)[i] = rows[i]
      BY <2>1
    <3>2. HashBefore(Append(rows, row), i - 1) = HashBefore(rows, i - 1)
      BY <1>1, <2>1 DEF HashBefore
    <3>3. QED
      BY <2>1, <3>1, <3>2 DEF VerifyChain
  <2>2. CASE i = Len(rows) + 1
    <3>1. Append(rows, row)[i] = row /\ i - 1 = row.sequence
      BY <1>1, <2>2
    <3>2. i - 1 = 0 \/ i - 1 \in DOMAIN rows
      BY <1>1, <2>2
    <3>3. HashBefore(Append(rows, row), i - 1) = HashBefore(rows, i - 1)
      BY <1>1, <3>2 DEF HashBefore
    <3>4. QED
      BY <3>1, <3>3 DEF LinksTo
  <2>3. QED
    BY <1>1, <2>1, <2>2
<1>3. QED
  BY <1>2 DEF VerifyChain

\* A linked row whose number is free has the next number, however old its read.
LEMMA InsertExtends ==
  ASSUME NEW B, NEW rows \in Seq(Rows(B)), VerifyChain(rows),
         NEW row \in Rows(B), LinksTo(row, rows), ~InsertConflicts(rows, row)
  PROVE  VerifyChain(Append(rows, row))
<1>1. \A i \in DOMAIN rows : rows[i].sequence = i - 1
  BY DEF VerifyChain, AuditRow
<1>2. row.sequence \in Nat /\ Len(rows) \in Nat /\ DOMAIN rows = 1..Len(rows)
  BY DEF Rows
<1>3. row.sequence = Len(rows)
  <2>1. SUFFICES ASSUME row.sequence < Len(rows) PROVE FALSE
    BY <1>2 DEF LinksTo
  <2>2. row.sequence + 1 \in DOMAIN rows
    BY <1>2, <2>1
  <2>3. rows[row.sequence + 1].sequence = row.sequence
    BY <1>1, <1>2, <2>2
  <2>4. QED
    BY <2>2, <2>3 DEF InsertConflicts
<1>4. QED
  BY <1>3, AppendLinked

\* A row keeps its link, and a stored row its place, when the chain grows.
LEMMA LinksStay ==
  ASSUME NEW B, NEW rows \in Seq(Rows(B)), NEW new \in Rows(B),
         NEW row \in Rows(B), LinksTo(row, rows)
  PROVE  LinksTo(row, Append(rows, new))
<1>1. row.sequence \in Nat /\ Len(rows) \in Nat /\ row.sequence <= Len(rows)
  BY DEF Rows, LinksTo
<1>2. HashBefore(Append(rows, new), row.sequence) = HashBefore(rows, row.sequence)
  BY <1>1 DEF HashBefore
<1>3. QED
  BY <1>1, <1>2 DEF LinksTo

-----------------------------------------------------------------------------
(***************************************************************************)
(* Places in a list have ranks: what InOrder chooses is there.             *)
(***************************************************************************)
LEMMA Ranked ==
  ASSUME NEW n \in Nat, NEW S \in SUBSET (1 .. n)
  PROVE  /\ IsFiniteSet(S) /\ Cardinality(S) \in Nat
         /\ \A k \in 1 .. Cardinality(S) :
              \E i \in S : Cardinality({j \in S : j <= i}) = k
<1>1. IsFiniteSet(S) /\ Cardinality(S) \in Nat
  <2>1. IsFiniteSet(1 .. n)
    BY FS_Interval
  <2> QED
    BY <2>1, FS_Subset, FS_CardinalityType
<1> DEFINE upTo(i) == {j \in S : j <= i}
           rank    == [i \in S |-> Cardinality(upTo(i))]
           size    == Cardinality(S)
<1>2. \A i \in S : IsFiniteSet(upTo(i)) /\ Cardinality(upTo(i)) \in 1 .. size
  <2> TAKE i \in S
  <2>1. upTo(i) \in SUBSET S /\ i \in upTo(i)
    OBVIOUS
  <2>2. IsFiniteSet(upTo(i)) /\ Cardinality(upTo(i)) <= size
    BY <1>1, <2>1, FS_Subset
  <2>3. Cardinality(upTo(i)) \in Nat /\ Cardinality(upTo(i)) # 0
    BY <2>1, <2>2, FS_EmptySet, FS_CardinalityType
  <2> QED
    BY <1>1, <2>2, <2>3
<1>3. \A i, j \in S : i < j => Cardinality(upTo(i)) # Cardinality(upTo(j))
  <2> TAKE i, j \in S
  <2> HAVE i < j
  <2>1. i \in Nat /\ j \in Nat /\ i < j /\ \A k \in S : k \in Nat
    OBVIOUS
  <2>2. \A k \in upTo(i) : k \in upTo(j)
    BY <2>1
  <2>3. j \in upTo(j) /\ j \notin upTo(i)
    BY <2>1
  <2> QED
    BY <1>2, <2>2, <2>3, FS_Subset
<1>4. rank \in Injection(S, 1 .. size)
  <2>1. rank \in [S -> 1 .. size]
    BY <1>2
  <2>2. \A i, j \in S : rank[i] = rank[j] => i = j
    BY <1>3
  <2> QED
    BY <2>1, <2>2 DEF Injection, IsInjective
<1>5. IsFiniteSet(1 .. size) /\ Cardinality(1 .. size) = size
  BY <1>1, FS_Interval
<1>6. rank \in Surjection(S, 1 .. size)
  BY <1>4, <1>5, FS_Injection
<1> QED
  BY <1>1, <1>6 DEF Surjection

-----------------------------------------------------------------------------
(***************************************************************************)
(* AuditLedger: the trail is the history of the record, anchors are roots  *)
(* of the chain, and what is published stays.                              *)
(***************************************************************************)

(***************************************************************************)
(* The shape of the tables but anchors, and of what handlers have read.    *)
(***************************************************************************)
Requests == [step : {"prepare", "commit"}, record : Record, day : Day \cup {null},
             row : Rows(Bodies) \cup {null}]

TablesOK ==
  /\ today \in Day
  /\ votes \in [Member -> Choice \cup {null}]
  /\ artifacts \subseteq Artifact
  /\ events \in Seq(Rows(Bodies))
  /\ request \in [Handler -> Requests \cup {null}]

(***************************************************************************)
(* A row that waits for its batch tells of the record it will be stored    *)
(* with, and links to the chain as it was read, and so as it has become.   *)
(***************************************************************************)
PreparedRowsLink ==
  \A h \in Handler : request[h] # null /\ request[h].step = "commit" =>
    /\ request[h].row \in Rows(Bodies)
    /\ request[h].row.body.kind = request[h].record.kind
    /\ request[h].row.body.subject = request[h].record.subject
    /\ LinksTo(request[h].row, events)

(***************************************************************************)
(* The roots of a day are those over the prefixes of the chain.            *)
(***************************************************************************)
PrefixRoot(d, root) ==
  \E n \in 0..Len(events) : root = DayRoot(SubSeq(events, 1, n), d)

RunsMatchTheChain ==
  \A r \in Runner : run[r] # null =>
    /\ run[r].day \in Day
    /\ run[r].root # null => PrefixRoot(run[r].day, run[r].root)

TableOfAnchors == anchors = [d \in Day |-> anchors[d]]

TableOfRuns ==
  /\ run = [r \in Runner |-> run[r]]
  /\ \A r \in Runner : run[r] # null =>
       run[r] = [day |-> run[r].day, root |-> run[r].root]

IInv ==
  /\ TablesOK
  /\ PreparedRowsLink
  /\ RecordsAudited
  /\ TableOfAnchors /\ TableOfRuns
  /\ RunsMatchTheChain
  /\ AnchorsMatchTheChain

-----------------------------------------------------------------------------
(***************************************************************************)
(* What appending an event does to roots and to the events of a subject.   *)
(***************************************************************************)
LEMMA PrefixOfAppend ==
  ASSUME NEW S, NEW rows \in Seq(S), NEW row \in S, NEW n \in 0..Len(rows)
  PROVE  SubSeq(Append(rows, row), 1, n) = SubSeq(rows, 1, n)
<1>1. CASE n = 0
  BY <1>1, SubSeqEmpty
<1>2. CASE n # 0
  <2>1. Append(rows, row) = rows \o <<row>> /\ <<row>> \in Seq(S)
    BY AppendIsConcat
  <2>2. 1 \in 1..Len(rows) /\ n \in 1..Len(rows)
    BY <1>2
  <2> QED
    BY <2>1, <2>2, SubSeqOfConcat1
<1> QED
  BY <1>1, <1>2

LEMMA PrefixesStay ==
  ASSUME events \in Seq(Rows(Bodies)), NEW row \in Rows(Bodies),
         events' = Append(events, row),
         NEW d, NEW root, PrefixRoot(d, root)
  PROVE  PrefixRoot(d, root)'
<1>1. PICK n \in 0..Len(events) : root = DayRoot(SubSeq(events, 1, n), d)
  BY DEF PrefixRoot
<1>2. n \in 0..Len(events')
  OBVIOUS
<1>3. SubSeq(Append(events, row), 1, n) = SubSeq(events, 1, n)
  BY PrefixOfAppend, Zenon
<1>4. root = DayRoot(SubSeq(events', 1, n), d)
  BY <1>1, <1>3, Zenon
<1> QED
  BY <1>2, <1>4, Zenon DEF PrefixRoot

LEMMA EventsGrow ==
  ASSUME events \in Seq(Rows(Bodies)), NEW row \in Rows(Bodies),
         events' = Append(events, row), NEW kind, NEW subject
  PROVE  EventOf(kind, subject)' =
           EventOf(kind, subject)
             \cup {i \in {Len(events) + 1} : row.body.kind = kind
                                              /\ row.body.subject = subject}
<1>1. /\ Len(events) \in Nat
      /\ DOMAIN events = 1..Len(events) /\ DOMAIN events' = 1..(Len(events) + 1)
      /\ \A i \in DOMAIN events : events'[i] = events[i]
      /\ events'[Len(events) + 1] = row
  OBVIOUS
<1> QED
  BY <1>1 DEF EventOf

(***************************************************************************)
(* Parts of the invariant that an action leaves alone.                     *)
(***************************************************************************)
LEMMA RecordFrame ==
  ASSUME IInv, UNCHANGED <<votes, artifacts, events>>
  PROVE  RecordsAudited'
BY DEF IInv, RecordsAudited, EventOf

LEMMA AnchorFrame ==
  ASSUME IInv, UNCHANGED <<events, anchors, run>>
  PROVE  /\ TableOfAnchors' /\ TableOfRuns'
         /\ RunsMatchTheChain' /\ AnchorsMatchTheChain'
BY DEF IInv, TableOfAnchors, TableOfRuns, RunsMatchTheChain, AnchorsMatchTheChain,
       PrefixRoot

LEMMA HandlerFrame ==
  ASSUME IInv, UNCHANGED <<votes, artifacts, events, request>>, today' \in Day
  PROVE  TablesOK' /\ PreparedRowsLink'
BY DEF IInv, TablesOK, PreparedRowsLink

-----------------------------------------------------------------------------
LEMMA TickKeeps ==
  ASSUME IInv, Tick
  PROVE  IInv'
<1>1. today' \in Day
  BY DayAssumption DEF IInv, TablesOK, Tick, Day
<1> QED
  BY <1>1, RecordFrame, AnchorFrame, HandlerFrame DEF Tick, IInv

(***************************************************************************)
(* Handlers.                                                               *)
(***************************************************************************)
LEMMA HandlerKeeps ==
  ASSUME IInv, NEW h \in Handler, NEW r \in Requests \cup {null},
         request' = [request EXCEPT ![h] = r],
         UNCHANGED <<today, votes, artifacts, events, anchors, run>>,
         r # null /\ r.step = "commit" =>
           /\ r.row \in Rows(Bodies)
           /\ r.row.body.kind = r.record.kind
           /\ r.row.body.subject = r.record.subject
           /\ LinksTo(r.row, events)
  PROVE  IInv'
<1>1. TablesOK'
  BY DEF IInv, TablesOK
<1>2. \A g \in Handler : request'[g] = IF g = h THEN r ELSE request[g]
  BY DEF IInv, TablesOK
<1>3. PreparedRowsLink'
  BY <1>2 DEF IInv, PreparedRowsLink
<1> QED
  BY <1>1, <1>3, RecordFrame, AnchorFrame DEF IInv

LEMMA BeginKeeps ==
  ASSUME IInv, NEW h \in Handler, BeginVote(h) \/ BeginArtifact(h)
  PROVE  IInv'
<1>1. PICK record \in Record, day \in Day \cup {null} : Begin(h, record, day)
  <2>1. CASE BeginVote(h)
    <3>1. PICK m \in Member, c \in Choice :
            Begin(h, [kind |-> "vote_cast", subject |-> m, choice |-> c], null)
      BY <2>1 DEF BeginVote
    <3>2. [kind |-> "vote_cast", subject |-> m, choice |-> c] \in Record
      BY DEF Record
    <3> QED
      BY <3>1, <3>2
  <2>2. CASE BeginArtifact(h)
    <3>1. PICK a \in Artifact, day \in 0..today :
            Begin(h, [kind |-> "commons_artifact_published", subject |-> a], day)
      BY <2>2 DEF BeginArtifact
    <3>2. [kind |-> "commons_artifact_published", subject |-> a] \in Record
      BY DEF Record
    <3>3. day \in Day
      BY DayAssumption DEF IInv, TablesOK, Day
    <3> QED
      BY <3>1, <3>2, <3>3
  <2> QED
    BY <2>1, <2>2
<1> DEFINE r == [step |-> "prepare", record |-> record, day |-> day, row |-> null]
<1>2. r \in Requests /\ r.step = "prepare"
  BY DEF Requests
<1>3. /\ request' = [request EXCEPT ![h] = r]
      /\ UNCHANGED <<today, votes, artifacts, events, anchors, run>>
  BY <1>1 DEF Begin
<1> HIDE DEF r
<1> QED
  BY <1>2, <1>3, HandlerKeeps

(***************************************************************************)
(* The event of a record has its kind and its subject, and a day.          *)
(***************************************************************************)
LEMMA BodyOfRecord ==
  ASSUME NEW record \in Record, NEW day \in Day
  PROVE  /\ Body(record, day) \in Bodies
         /\ Body(record, day).kind = record.kind
         /\ Body(record, day).subject = record.subject
BY DEF Record, Bodies, Body

LEMMA Prepared ==
  ASSUME NEW r \in Requests, NEW row \in Rows(Bodies)
  PROVE  /\ [r EXCEPT !.step = "commit", !.row = row] \in Requests
         /\ [r EXCEPT !.step = "commit", !.row = row].record = r.record
         /\ [r EXCEPT !.step = "commit", !.row = row].row = row
BY DEF Requests

LEMMA PrepareAuditKeeps ==
  ASSUME IInv, NEW h \in Handler, PrepareAudit(h)
  PROVE  IInv'
<1> DEFINE r == request[h]
           body == Body(r.record, OccurredAt(h))
           row == PrepareAuditEvent(events, body)
           s == [r EXCEPT !.step = "commit", !.row = row]
<1>1. r \in Requests
  BY DEF IInv, TablesOK, PrepareAudit
<1>2. r.record \in Record /\ OccurredAt(h) \in Day
  BY <1>1 DEF IInv, TablesOK, Requests, OccurredAt
<1>3. /\ body \in Bodies
      /\ body.kind = r.record.kind /\ body.subject = r.record.subject
  BY <1>2, BodyOfRecord
<1> HIDE DEF body
<1>4. events \in Seq(Rows(Bodies)) /\ VerifyChain(events)
  BY DEF IInv, TablesOK, RecordsAudited
<1>5. row \in Rows(Bodies) /\ LinksTo(row, events) /\ row.body = body
  BY <1>3, <1>4, PreparedLinks
<1>6. /\ request' = [request EXCEPT ![h] = s]
      /\ UNCHANGED <<today, votes, artifacts, events, anchors, run>>
  BY DEF PrepareAudit, body
<1> HIDE DEF row
<1>7. s \in Requests /\ s.record = r.record /\ s.row = row
  BY <1>1, <1>5, Prepared
<1> HIDE DEF s
<1> QED
  BY <1>3, <1>5, <1>6, <1>7, HandlerKeeps

LEMMA BatchThrowsKeeps ==
  ASSUME IInv, NEW h \in Handler, BatchThrows(h)
  PROVE  IInv'
BY HandlerKeeps DEF BatchThrows

(***************************************************************************)
(* A batch adds one event, of the record that it stores.  Its row extends  *)
(* the chain however old its read is, since its number was free; rows that *)
(* wait for other batches stay linked.                                     *)
(***************************************************************************)
LEMMA CommitRecordKeeps ==
  ASSUME IInv, NEW h \in Handler, CommitRecord(h)
  PROVE  IInv'
<1> DEFINE r == request[h]
           row == r.row
           record == r.record
<1>1. /\ r \in Requests /\ record \in Record
      /\ row \in Rows(Bodies) /\ LinksTo(row, events)
      /\ row.body.kind = record.kind /\ row.body.subject = record.subject
  BY DEF IInv, TablesOK, PreparedRowsLink, CommitRecord, Requests
<1>2. /\ ~Stored(record) /\ ~InsertConflicts(events, row)
      /\ InsertRecord(record)
      /\ events' = Append(events, row)
      /\ request' = [request EXCEPT ![h] = null]
      /\ UNCHANGED <<today, anchors, run>>
  BY DEF CommitRecord, Throws
<1>3. events \in Seq(Rows(Bodies)) /\ VerifyChain(events)
  BY DEF IInv, TablesOK, RecordsAudited
<1> HIDE DEF row, record
<1>4. events' \in Seq(Rows(Bodies)) /\ VerifyChain(events')
  BY <1>1, <1>2, <1>3, InsertExtends
<1>5. \A g \in Handler : request'[g] = IF g = h THEN null ELSE request[g]
  BY <1>2 DEF IInv, TablesOK
<1>6. PreparedRowsLink'
  <2>1. ASSUME NEW g \in Handler, request'[g] # null, request'[g].step = "commit"
        PROVE  LinksTo(request'[g].row, events')
    <3>1. /\ request'[g] = request[g]
          /\ request[g].row \in Rows(Bodies) /\ LinksTo(request[g].row, events)
      BY <1>5, <2>1 DEF IInv, PreparedRowsLink
    <3> QED
      BY <1>1, <1>2, <1>3, <3>1, LinksStay
  <2> QED
    BY <1>5, <2>1 DEF IInv, PreparedRowsLink
<1>7. /\ TablesOK'
      /\ \A m \in Member : votes'[m] =
           IF record.kind = "vote_cast" /\ m = record.subject THEN record.choice
           ELSE votes[m]
      /\ artifacts' = artifacts \cup
           {a \in {record.subject} : record.kind # "vote_cast"}
  <2>1. CASE record \in [kind : {"vote_cast"}, subject : Member, choice : Choice]
    BY <1>2, <1>4, <2>1 DEF IInv, TablesOK, InsertRecord
  <2>2. CASE record \in [kind : {"commons_artifact_published"}, subject : Artifact]
    BY <1>2, <1>4, <2>2 DEF IInv, TablesOK, InsertRecord
  <2> QED
    BY <1>1, <2>1, <2>2 DEF Record
<1>8. \A kind, subject :
        EventOf(kind, subject)' =
          EventOf(kind, subject)
            \cup {i \in {Len(events) + 1} : record.kind = kind
                                             /\ record.subject = subject}
  BY <1>1, <1>2, <1>3, EventsGrow
<1>9. Len(events) + 1 \in DOMAIN events' /\ DOMAIN events \subseteq DOMAIN events'
  BY <1>1, <1>2, <1>3
<1>10. RecordsAudited'
  <2>1. ASSUME NEW m \in Member
        PROVE  IF votes'[m] = null
               THEN EventOf("vote_cast", m)' = {}
               ELSE \E i \in DOMAIN events' : EventOf("vote_cast", m)' = {i}
    <3>1. CASE record.kind = "vote_cast" /\ record.subject = m
      <4>1. EventOf("vote_cast", m) = {}
        BY <1>2, <3>1 DEF IInv, RecordsAudited, Stored
      <4>2. EventOf("vote_cast", m)' = {Len(events) + 1}
        BY <1>8, <3>1, <4>1
      <4>3. votes'[m] # null
        BY <1>1, <1>7, <3>1, NullAssumption DEF Record
      <4> QED
        BY <1>9, <4>2, <4>3
    <3>2. CASE ~(record.kind = "vote_cast" /\ record.subject = m)
      <4>1. EventOf("vote_cast", m)' = EventOf("vote_cast", m) /\ votes'[m] = votes[m]
        BY <1>7, <1>8, <3>2
      <4> QED
        BY <1>9, <4>1 DEF IInv, RecordsAudited
    <3> QED
      BY <3>1, <3>2
  <2>2. ASSUME NEW a \in Artifact
        PROVE  IF a \in artifacts'
               THEN \E i \in DOMAIN events' :
                      EventOf("commons_artifact_published", a)' = {i}
               ELSE EventOf("commons_artifact_published", a)' = {}
    <3> DEFINE of == EventOf("commons_artifact_published", a)
    <3>1. CASE record.kind = "commons_artifact_published" /\ record.subject = a
      <4>1. of = {}
        BY <1>2, <3>1 DEF IInv, RecordsAudited, Stored
      <4>2. of' = {Len(events) + 1}
        BY <1>8, <3>1, <4>1
      <4>3. a \in artifacts'
        BY <1>7, <3>1
      <4> QED
        BY <1>9, <4>2, <4>3
    <3>2. CASE ~(record.kind = "commons_artifact_published" /\ record.subject = a)
      <4>1. of' = of
        BY <1>8, <3>2
      <4>2. record.kind \in {"vote_cast", "commons_artifact_published"}
        BY <1>1 DEF Record
      <4>3. a \in artifacts' <=> a \in artifacts
        BY <1>7, <3>2, <4>2
      <4> QED
        BY <1>9, <4>1, <4>3 DEF IInv, RecordsAudited
    <3> QED
      BY <3>1, <3>2
  <2> QED
    BY <1>4, <2>1, <2>2 DEF RecordsAudited
<1>11. \A d, root : PrefixRoot(d, root) => PrefixRoot(d, root)'
  BY <1>1, <1>2, <1>3, PrefixesStay
<1>12. TableOfAnchors' /\ TableOfRuns' /\ RunsMatchTheChain'
  BY <1>2, <1>11 DEF IInv, TableOfAnchors, TableOfRuns, RunsMatchTheChain
<1>13. AnchorsMatchTheChain'
  BY <1>2, <1>11 DEF IInv, AnchorsMatchTheChain, PrefixRoot, DayRoot
<1> QED
  BY <1>6, <1>7, <1>10, <1>12, <1>13 DEF IInv

-----------------------------------------------------------------------------
(***************************************************************************)
(* Maintenance.                                                            *)
(***************************************************************************)
LEMMA BeginAnchorKeeps ==
  ASSUME IInv, NEW r \in Runner, BeginAnchor(r)
  PROVE  IInv'
<1> DEFINE x == [day |-> today - 1, root |-> null]
<1>1. /\ today > 0 /\ run' = [run EXCEPT ![r] = x]
      /\ UNCHANGED <<today, votes, artifacts, events, anchors, request>>
  BY DEF BeginAnchor
<1>2. x.day \in Day /\ x.root = null /\ x = [day |-> x.day, root |-> x.root]
  BY <1>1, DayAssumption DEF IInv, TablesOK, Day
<1> HIDE DEF x
<1>3. \A s \in Runner : run'[s] = IF s = r THEN x ELSE run[s]
  BY <1>1 DEF IInv, TableOfRuns
<1>4. TableOfRuns'
  BY <1>1, <1>2, <1>3 DEF IInv, TableOfRuns
<1>5. RunsMatchTheChain'
  BY <1>1, <1>2, <1>3 DEF IInv, RunsMatchTheChain, PrefixRoot
<1>6. TableOfAnchors' /\ AnchorsMatchTheChain'
  BY <1>1 DEF IInv, TableOfAnchors, AnchorsMatchTheChain
<1> QED
  BY <1>1, <1>4, <1>5, <1>6, RecordFrame, HandlerFrame DEF IInv, TablesOK

(***************************************************************************)
(* The root that a run computes is over the whole chain of that moment.    *)
(***************************************************************************)
LEMMA SelectEventsKeeps ==
  ASSUME IInv, NEW r \in Runner, SelectEvents(r)
  PROVE  IInv'
<1> DEFINE root == DayRoot(events, run[r].day)
           x == [day |-> run[r].day, root |-> root]
<1>1. /\ run[r] # null
      /\ UNCHANGED <<today, votes, artifacts, events, anchors, request>>
  BY DEF SelectEvents
<1>2. run' = [run EXCEPT ![r] = x]
  <2>1. run[r] = [day |-> run[r].day, root |-> run[r].root]
    BY <1>1 DEF IInv, TableOfRuns
  <2>2. [run[r] EXCEPT !.root = root] = x
    BY <2>1
  <2>3. run' = [run EXCEPT ![r] = [run[r] EXCEPT !.root = root]]
    BY DEF SelectEvents
  <2> QED
    BY <2>2, <2>3
<1>3. /\ x.day = run[r].day /\ x.root = root
      /\ x = [day |-> x.day, root |-> x.root]
  OBVIOUS
<1>4. PrefixRoot(run[r].day, root)
  <2>1. SubSeq(events, 1, Len(events)) = events /\ Len(events) \in Nat
    BY SubSeqFull DEF IInv, TablesOK
  <2>2. Len(events) \in 0..Len(events)
    BY <2>1
  <2> QED
    BY <2>1, <2>2 DEF PrefixRoot
<1> HIDE DEF x, root
<1>5. \A s \in Runner : run'[s] = IF s = r THEN x ELSE run[s]
  BY <1>2 DEF IInv, TableOfRuns
<1>6. TableOfRuns'
  BY <1>2, <1>3, <1>5 DEF IInv, TableOfRuns
<1>7. RunsMatchTheChain'
  BY <1>1, <1>3, <1>4, <1>5 DEF IInv, RunsMatchTheChain, PrefixRoot
<1>8. TableOfAnchors' /\ AnchorsMatchTheChain'
  BY <1>1 DEF IInv, TableOfAnchors, AnchorsMatchTheChain
<1> QED
  BY <1>1, <1>6, <1>7, <1>8, RecordFrame, HandlerFrame DEF IInv, TablesOK

LEMMA InsertAnchorKeeps ==
  ASSUME IInv, NEW r \in Runner, InsertAnchor(r)
  PROVE  IInv'
<1> DEFINE day == run[r].day
           root == run[r].root
<1>1. /\ run[r] # null /\ root # null
      /\ run' = [run EXCEPT ![r] = null]
      /\ UNCHANGED <<today, votes, artifacts, events, request>>
  BY DEF InsertAnchor
<1>2. day \in Day /\ PrefixRoot(day, root)
  BY <1>1 DEF IInv, RunsMatchTheChain
<1>3. anchors' = [anchors EXCEPT ![day] = IF @ = null THEN root ELSE @]
  BY DEF InsertAnchor, StoreAnchor
<1> HIDE DEF day, root
<1>4. \A d \in Day :
        anchors'[d] = IF d = day /\ anchors[d] = null THEN root ELSE anchors[d]
  BY <1>3 DEF IInv, TableOfAnchors
<1>5. \A s \in Runner : run'[s] = IF s = r THEN null ELSE run[s]
  BY <1>1 DEF IInv, TableOfRuns
<1>6. TableOfAnchors'
  BY <1>3, <1>4 DEF IInv, TableOfAnchors
<1>7. TableOfRuns'
  BY <1>1, <1>5 DEF IInv, TableOfRuns
<1>8. RunsMatchTheChain'
  BY <1>1, <1>5 DEF IInv, RunsMatchTheChain, PrefixRoot
<1>9. AnchorsMatchTheChain'
  BY <1>1, <1>2, <1>4 DEF IInv, AnchorsMatchTheChain, PrefixRoot, DayRoot
<1> QED
  BY <1>1, <1>6, <1>7, <1>8, <1>9, RecordFrame, HandlerFrame DEF IInv, TablesOK

-----------------------------------------------------------------------------
(***************************************************************************)
(* Empty tables satisfy the invariant, and every step keeps it.            *)
(***************************************************************************)
LEMMA InitEstablishes == Init => IInv
<1> SUFFICES ASSUME Init PROVE IInv
  OBVIOUS
<1> USE DEF Init
<1>1. TablesOK
  BY DayAssumption DEF TablesOK, Day
<1>2. PreparedRowsLink
  BY DEF PreparedRowsLink
<1>3. RecordsAudited
  BY DEF RecordsAudited, VerifyChain, EventOf
<1>4. TableOfAnchors /\ TableOfRuns
  BY DEF TableOfAnchors, TableOfRuns
<1>5. RunsMatchTheChain
  BY DEF RunsMatchTheChain
<1>6. AnchorsMatchTheChain
  BY DEF AnchorsMatchTheChain
<1> QED
  BY <1>1, <1>2, <1>3, <1>4, <1>5, <1>6 DEF IInv

LEMMA NextKeeps == IInv /\ [Next]_vars => IInv'
<1> SUFFICES ASSUME IInv, [Next]_vars PROVE IInv'
  OBVIOUS
<1>1. CASE Tick
  BY <1>1, TickKeeps
<1>2. ASSUME NEW h \in Handler, BeginVote(h) \/ BeginArtifact(h) PROVE IInv'
  BY <1>2, BeginKeeps
<1>3. ASSUME NEW h \in Handler, PrepareAudit(h) PROVE IInv'
  BY <1>3, PrepareAuditKeeps
<1>4. ASSUME NEW h \in Handler, CommitRecord(h) PROVE IInv'
  BY <1>4, CommitRecordKeeps
<1>5. ASSUME NEW h \in Handler, BatchThrows(h) PROVE IInv'
  BY <1>5, BatchThrowsKeeps
<1>6. ASSUME NEW r \in Runner, BeginAnchor(r) PROVE IInv'
  BY <1>6, BeginAnchorKeeps
<1>7. ASSUME NEW r \in Runner, SelectEvents(r) PROVE IInv'
  BY <1>7, SelectEventsKeeps
<1>8. ASSUME NEW r \in Runner, InsertAnchor(r) PROVE IInv'
  BY <1>8, InsertAnchorKeeps
<1>9. CASE UNCHANGED vars
  BY <1>9, RecordFrame, AnchorFrame, HandlerFrame DEF vars, IInv, TablesOK
<1> QED
  BY <1>1, <1>2, <1>3, <1>4, <1>5, <1>6, <1>7, <1>8, <1>9 DEF Next

(***************************************************************************)
(* A batch removes no artifact, and an anchor is stored only where none is. *)
(***************************************************************************)
LEMMA StepPublishes ==
  ASSUME IInv, [Next]_vars
  PROVE  /\ artifacts \subseteq artifacts'
         /\ \A d \in Day : anchors[d] # null => anchors'[d] = anchors[d]
<1>1. CASE UNCHANGED <<artifacts, anchors>>
  BY <1>1
<1>2. ASSUME NEW h \in Handler, CommitRecord(h)
      PROVE  artifacts \subseteq artifacts' /\ anchors' = anchors
  BY <1>2 DEF CommitRecord, InsertRecord
<1>3. ASSUME NEW r \in Runner, InsertAnchor(r)
      PROVE  /\ \A d \in Day : anchors[d] # null => anchors'[d] = anchors[d]
             /\ artifacts' = artifacts
  BY <1>3 DEF InsertAnchor, StoreAnchor, IInv, TableOfAnchors
<1> QED
  BY <1>1, <1>2, <1>3
  DEF Next, vars, Tick, Begin, BeginVote, BeginArtifact, PrepareAudit, BatchThrows,
      BeginAnchor, SelectEvents

-----------------------------------------------------------------------------
(***************************************************************************)
(* The invariant holds in every state of the system.                       *)
(***************************************************************************)
LEMMA Invariance == Spec => []IInv
BY InitEstablishes, NextKeeps, PTL DEF Spec

(***************************************************************************)
(* The trail is the history of the record: its chain verifies, and votes   *)
(* and artifacts have one event each, of no other records than are stored. *)
(***************************************************************************)
THEOREM TrailIsTheRecord == Spec => []RecordsAudited
<1>1. IInv => RecordsAudited
  BY DEF IInv
<1> QED
  BY <1>1, Invariance, PTL

(***************************************************************************)
(* Every anchor is the root of its day's events in a prefix of the chain,  *)
(* although batches commit while a run computes and stores it.             *)
(***************************************************************************)
THEOREM AnchorsAreRoots == Spec => []AnchorsMatchTheChain
<1>1. IInv => AnchorsMatchTheChain
  BY DEF IInv
<1> QED
  BY <1>1, Invariance, PTL

(***************************************************************************)
(* No step replaces a published artifact or the anchor of a day.           *)
(***************************************************************************)
THEOREM RecordsStay == Spec => PublishedStays
<1>1. IInv /\ [Next]_vars
        => [/\ artifacts \subseteq artifacts'
            /\ \A d \in Day : anchors[d] # null => anchors'[d] = anchors[d]]_vars
  BY StepPublishes
<1> QED
  BY <1>1, Invariance, PTL DEF Spec, PublishedStays
-----------------------------------------------------------------------------
(***************************************************************************)
(* The rows of a day are rows of the chain, and so is its root a sequence  *)
(* of hashes, over whichever prefix of the chain it is.                    *)
(***************************************************************************)
LEMMA OnDayIsASeq ==
  ASSUME NEW S, NEW rows \in Seq(S), NEW day
  PROVE  OnDay(rows, day) \in Seq(S)
<1> DEFINE places == {i \in DOMAIN rows : rows[i].body.occurredAt = day}
           place(k) == CHOOSE i \in places : Cardinality({j \in places : j <= i}) = k
           N == Cardinality(places)
<1>1. Len(rows) \in Nat /\ DOMAIN rows = 1 .. Len(rows)
      /\ \A i \in DOMAIN rows : rows[i] \in S
  OBVIOUS
<1>2. places \in SUBSET (1 .. Len(rows))
  BY <1>1
<1> HIDE DEF places
<1>3. /\ N \in Nat
      /\ \A k \in 1 .. N : \E i \in places : Cardinality({j \in places : j <= i}) = k
  BY <1>1, <1>2, Ranked
<1>4. \A k \in 1 .. N : place(k) \in places
  BY <1>3
<1>5. OnDay(rows, day) = [k \in 1 .. N |-> rows[place(k)]]
  BY DEF OnDay, InOrder, places
<1> HIDE DEF place, N
<1>6. \A k \in 1 .. N : rows[place(k)] \in S
  BY <1>1, <1>2, <1>4
<1>7. [k \in 1 .. N |-> rows[place(k)]] \in Seq(S)
  BY <1>3, <1>6
<1> QED
  BY <1>5, <1>7

LEMMA DayRootIsTyped ==
  ASSUME NEW B, NEW rows \in Seq(Rows(B)), NEW day
  PROVE  DayRoot(rows, day) \in Seq(Hashes(B))
<1> DEFINE of == OnDay(rows, day)
<1>1. of \in Seq(Rows(B))
  BY OnDayIsASeq
<1>2. DayRoot(rows, day) = [i \in DOMAIN of |-> of[i].hash]
  BY DEF DayRoot, HashesOf
<1> HIDE DEF of
<1>3. Len(of) \in Nat /\ DOMAIN of = 1 .. Len(of) /\ \A i \in DOMAIN of : of[i] \in Rows(B)
  BY <1>1
<1>4. \A i \in DOMAIN of : of[i].hash \in Hashes(B)
  BY <1>3 DEF Rows
<1> QED
  BY <1>2, <1>3, <1>4

LEMMA PrefixRootIsTyped ==
  ASSUME events \in Seq(Rows(Bodies)), NEW day, NEW root, PrefixRoot(day, root)
  PROVE  root \in Seq(Hashes(Bodies))
<1>1. PICK n \in 0..Len(events) : root = DayRoot(SubSeq(events, 1, n), day)
  BY DEF PrefixRoot
<1>2. SubSeq(events, 1, n) \in Seq(Rows(Bodies))
  <2>1. CASE n = 0
    BY <2>1, SubSeqEmpty
  <2>2. CASE n # 0
    BY <2>2, SubSeqProperties
  <2> QED
    BY <2>1, <2>2
<1> QED
  BY <1>1, <1>2, DayRootIsTyped

(***************************************************************************)
(* The tables of the public record keep their shape, anchors included.     *)
(***************************************************************************)
LEMMA LedgerIsTyped ==
  ASSUME IInv
  PROVE  TypeOK
<1> DEFINE Root == Seq(Hashes(Bodies)) \cup {null}
<1>1. \A day, root : PrefixRoot(day, root) => root \in Root
  BY PrefixRootIsTyped DEF IInv, TablesOK
<1>2. \A d \in Day : anchors[d] # null => PrefixRoot(d, anchors[d])
  BY DEF IInv, AnchorsMatchTheChain, PrefixRoot, DayRoot
<1>3. \A d \in Day : anchors[d] \in Root
  BY <1>1, <1>2
<1> HIDE DEF Root
<1>4. anchors \in [Day -> Root]
  BY <1>3 DEF IInv, TableOfAnchors
<1>5. \A r \in Runner : run[r] # null =>
        run[r].day \in Day /\ run[r].root \in Root
  BY <1>1 DEF IInv, RunsMatchTheChain, Root
<1>6. \A r \in Runner : run[r] \in [day : Day, root : Root] \cup {null}
  <2> TAKE r \in Runner
  <2>1. CASE run[r] # null
    <3>1. run[r] = [day |-> run[r].day, root |-> run[r].root]
      BY <2>1 DEF IInv, TableOfRuns
    <3>2. \A d \in Day, x \in Root : [day |-> d, root |-> x] \in [day : Day, root : Root]
      OBVIOUS
    <3> QED
      BY <1>5, <2>1, <3>1, <3>2
  <2> QED
    BY <2>1
<1>7. run \in [Runner -> [day : Day, root : Root] \cup {null}]
  BY <1>6 DEF IInv, TableOfRuns
<1>8. /\ today \in Day /\ votes \in [Member -> Choice \cup {null}]
      /\ artifacts \subseteq Artifact /\ events \in Seq(Rows(Bodies))
      /\ request \in [Handler -> [step : {"prepare", "commit"}, record : Record,
                                  day : Day \cup {null},
                                  row : Rows(Bodies) \cup {null}] \cup {null}]
  BY DEF IInv, TablesOK, Requests
<1> QED
  BY <1>4, <1>7, <1>8, Zenon DEF TypeOK, Root
-----------------------------------------------------------------------------
(***************************************************************************)
(* DemoProcesses: an up knows the processes it started, and what is not    *)
(* cut short is recorded.                                                  *)
(***************************************************************************)

DemoTypes ==
  /\ table \in [Pid -> ToSet(Demo!Launched) \cup {"other", null}]
  /\ pidRecord \in Seq(Pid) /\ Len(pidRecord) \in {0, Len(Demo!Launched)}
  /\ folders \subseteq Demo!Node
  /\ command \in [do : {"none", "up", "down"}, pids : Seq(Pid)]
  /\ cuts \in 0 .. MaxCuts

\* The process p runs under the id it was started with.
Listed(p, pids) ==
  \E i \in DOMAIN pids \cap DOMAIN Demo!Launched :
    pids[i] = p /\ table[p] = Demo!Launched[i]

DemoListed ==
  cuts = 0 => \A p \in Pid : Demo!Ours(p) =>
    /\ command.do = "up" => Listed(p, command.pids)
    /\ command.do # "up" => Listed(p, pidRecord)
    /\ command.do = "down" => \E i \in DOMAIN command.pids : command.pids[i] = p

DemoInv == DemoTypes /\ DemoListed

LEMMA DemoInitKeeps ==
  ASSUME Demo!NamesAssumption, Demo!CutAssumption, Demo!Init
  PROVE  DemoInv
<1>1. \A p \in Pid : ~Demo!Ours(p)
  BY DEF Demo!Init, Demo!Ours, Demo!NamesAssumption
<1>2. DemoTypes
  BY DEF DemoTypes, Demo!Init, Demo!Idle, Demo!CutAssumption
<1> QED
  BY <1>1, <1>2 DEF DemoInv, DemoListed

LEMMA PidsSet ==
  ASSUME NEW c \in [do : {"none", "up", "down"}, pids : Seq(Pid)], NEW s
  PROVE  [c EXCEPT !.pids = s] = [do |-> c.do, pids |-> s]
<1>1. PICK r : r = [c EXCEPT !.pids = s]
  OBVIOUS
<1>2. r = [do |-> c.do, pids |-> s]
  BY <1>1
<1> QED
  BY <1>1, <1>2, Zenon

LEMMA DemoUpKeeps ==
  ASSUME Demo!NamesAssumption, Demo!CutAssumption, DemoInv,
         Demo!BeginUp \/ Demo!SaveRecord \/ Demo!EndUp
  PROVE  DemoInv'
<1> USE DEF DemoInv
<1>1. CASE Demo!BeginUp
  <2>1. \A p \in Pid : cuts = 0 => ~Demo!Ours(p)
    BY <1>1 DEF Demo!BeginUp, DemoListed, Listed, Demo!Free, Demo!Ours, Demo!NamesAssumption,
                Demo!Idle
  <2>2. DemoTypes'
    BY <1>1 DEF Demo!BeginUp, DemoTypes
  <2> QED
    BY <1>1, <2>1, <2>2 DEF Demo!BeginUp, DemoListed, Demo!Ours
<1>2. CASE Demo!SaveRecord
  <2>1. DemoTypes'
    BY <1>2 DEF Demo!SaveRecord, DemoTypes, Demo!Idle
  <2> QED
    BY <1>2, <2>1 DEF Demo!SaveRecord, DemoListed, Listed, Demo!Ours, Demo!Idle
<1>3. CASE Demo!EndUp
  <2>1. DemoTypes'
    BY <1>3 DEF Demo!EndUp, DemoTypes, Demo!Idle, Demo!CutAssumption
  <2>2. ASSUME cuts' = 0
        PROVE  cuts = 0 /\ command.pids = <<>>
    BY <1>3, <2>2 DEF Demo!EndUp, DemoTypes
  <2>3. \A p \in Pid : cuts' = 0 => ~Demo!Ours(p)
    BY <1>3, <2>2 DEF DemoListed, Listed, Demo!EndUp
  <2> QED
    BY <1>3, <2>1, <2>3 DEF Demo!EndUp, DemoListed, Demo!Ours
<1> QED
  BY <1>1, <1>2, <1>3

LEMMA DemoStartKeeps ==
  ASSUME Demo!NamesAssumption, DemoInv, NEW p \in Pid,
         Demo!LaunchWorker(p) \/ \E n \in Demo!Node : Demo!LaunchNode(p, n)
  PROVE  DemoInv'
<1> DEFINE k == Len(command.pids) + 1
<1> USE DEF DemoInv
<1>1. /\ command.do = "up" /\ k <= Len(Demo!Launched)
      /\ table' = [table EXCEPT ![p] = Demo!Launched[k]]
      /\ command' = [command EXCEPT !.pids = Append(@, p)]
      /\ UNCHANGED <<pidRecord, cuts>> /\ folders' \subseteq Demo!Node
  <2>1. Len(Demo!Launched) \in Nat /\ Len(command.pids) \in Nat
    BY DEF DemoTypes, Demo!Launched, Demo!NamesAssumption
  <2> QED
    BY <2>1 DEF Demo!LaunchWorker, Demo!LaunchNode, Demo!Start, DemoTypes
<1>2. command.pids \in Seq(Pid) /\ k \in 1 .. Len(Demo!Launched)
  BY <1>1 DEF DemoTypes, Demo!Launched, Demo!NamesAssumption
<1>3. Demo!Launched[k] \in ToSet(Demo!Launched)
  BY <1>2 DEF Demo!Launched, Demo!NamesAssumption, ToSet
<1>4. command' \in [do : {"none", "up", "down"}, pids : Seq(Pid)]
      /\ command'.do = "up" /\ command'.pids = Append(command.pids, p)
  <2>1. command \in [do : {"none", "up", "down"}, pids : Seq(Pid)]
    BY DEF DemoTypes
  <2>2. command' = [do |-> command.do, pids |-> Append(command.pids, p)]
    BY <1>1, <2>1, PidsSet, Zenon
  <2>3. command.do = "up"
    BY <1>1, Zenon
  <2> QED
    BY <1>2, <2>2, <2>3
<1>5. DemoTypes'
  BY <1>1, <1>3, <1>4 DEF DemoTypes
<1>6. ASSUME cuts = 0, NEW q \in Pid, Demo!Ours(q)'
      PROVE  Listed(q, command.pids)'
  <2>1. CASE q = p
    <3>1. Append(command.pids, p)[k] = p /\ k \in DOMAIN Append(command.pids, p)
      BY <1>2
    <3> QED
      BY <1>1, <1>4, <2>1, <3>1 DEF Listed, DemoTypes
  <2>2. CASE q # p
    <3>1. table'[q] = table[q]
      BY <1>1, <2>2 DEF DemoTypes
    <3>2. Demo!Ours(q)
      BY <1>6, <3>1 DEF Demo!Ours
    <3>3. PICK i \in DOMAIN command.pids \cap DOMAIN Demo!Launched :
                 command.pids[i] = q /\ table[q] = Demo!Launched[i]
      BY <1>1, <1>6, <3>2 DEF DemoListed, Listed
    <3>4. Append(command.pids, p)[i] = q /\ i \in DOMAIN Append(command.pids, p)
      BY <1>2, <3>3
    <3> QED
      BY <1>4, <3>1, <3>3, <3>4 DEF Listed
  <2> QED
    BY <2>1, <2>2
<1> QED
  BY <1>1, <1>4, <1>5, <1>6 DEF DemoListed

LEMMA DemoDownKeeps ==
  ASSUME Demo!NamesAssumption, DemoInv,
         Demo!BeginDown \/ Demo!StopNext \/ Demo!RemoveEntry \/ Demo!EndDown
  PROVE  DemoInv'
<1> USE DEF DemoInv
<1>1. CASE Demo!BeginDown
  <2>1. DemoTypes'
    BY <1>1 DEF Demo!BeginDown, DemoTypes
  <2> QED
    BY <1>1, <2>1 DEF Demo!BeginDown, DemoListed, Listed, Demo!Ours, Demo!Idle
<1>2. CASE Demo!StopNext
  <2> DEFINE h == Head(command.pids)
  <2>1. /\ command.do = "down" /\ command.pids # <<>> /\ command.pids \in Seq(Pid)
        /\ table' = [table EXCEPT ![h] = null]
        /\ command' = [command EXCEPT !.pids = Tail(@)]
        /\ UNCHANGED <<pidRecord, folders, cuts>>
    BY <1>2 DEF Demo!StopNext, DemoTypes
  <2>2. /\ command' \in [do : {"none", "up", "down"}, pids : Seq(Pid)]
        /\ command'.do = "down" /\ command'.pids = Tail(command.pids) /\ h \in Pid
    <3>1. command \in [do : {"none", "up", "down"}, pids : Seq(Pid)]
      BY DEF DemoTypes
    <3>2. command' = [do |-> command.do, pids |-> Tail(command.pids)]
      BY <2>1, <3>1, PidsSet, Zenon
    <3>3. command.do = "down" /\ command.pids # <<>> /\ command.pids \in Seq(Pid)
      BY <2>1, Zenon
    <3> QED
      BY <3>2, <3>3
  <2>3. DemoTypes'
    BY <2>1, <2>2 DEF DemoTypes
  <2>4. ASSUME cuts = 0, NEW q \in Pid, Demo!Ours(q)'
        PROVE  /\ Listed(q, pidRecord)'
               /\ \E i \in DOMAIN Tail(command.pids) : Tail(command.pids)[i] = q
    <3>1. q # h /\ table'[q] = table[q]
      BY <2>1, <2>2, <2>4 DEF DemoTypes, Demo!Ours, Demo!NamesAssumption
    <3>2. Demo!Ours(q)
      BY <2>4, <3>1 DEF Demo!Ours
    <3>3. PICK i \in DOMAIN command.pids : command.pids[i] = q
      BY <2>1, <2>4, <3>2 DEF DemoListed
    <3>4. i - 1 \in DOMAIN Tail(command.pids) /\ Tail(command.pids)[i - 1] = q
      BY <2>1, <3>1, <3>3
    <3>5. Listed(q, pidRecord)'
      BY <2>1, <2>4, <3>1, <3>2 DEF DemoListed, Listed
    <3> QED
      BY <3>4, <3>5
  <2> QED
    BY <2>1, <2>2, <2>3, <2>4 DEF DemoListed
<1>3. CASE Demo!RemoveEntry
  <2>1. command.pids = <<>> /\ command.do = "down" /\ UNCHANGED <<table, command, cuts>>
    BY <1>3 DEF Demo!RemoveEntry
  <2>2. \A p \in Pid : cuts = 0 => ~Demo!Ours(p)
    BY <2>1 DEF DemoListed
  <2>3. pidRecord' \in {pidRecord, <<>>} /\ folders' \subseteq folders
    BY <1>3 DEF Demo!RemoveEntry
  <2>4. DemoTypes'
    BY <2>1, <2>3 DEF DemoTypes
  <2> QED
    BY <2>1, <2>2, <2>4 DEF DemoListed, Demo!Ours
<1>4. CASE Demo!EndDown
  <2>1. DemoTypes'
    BY <1>4 DEF Demo!EndDown, DemoTypes, Demo!Idle
  <2> QED
    BY <1>4, <2>1 DEF Demo!EndDown, DemoListed, Listed, Demo!Ours, Demo!Idle
<1> QED
  BY <1>1, <1>2, <1>3, <1>4

LEMMA DemoOthersKeep ==
  ASSUME Demo!NamesAssumption, DemoInv, NEW p \in Pid, Demo!End(p) \/ Demo!StartOther(p)
  PROVE  DemoInv'
<1> USE DEF DemoInv
<1>1. PICK x \in {"other", null} : table' = [table EXCEPT ![p] = x]
  BY DEF Demo!End, Demo!StartOther
<1>2. UNCHANGED <<pidRecord, folders, command, cuts>>
  BY DEF Demo!End, Demo!StartOther
<1>3. DemoTypes'
  BY <1>1, <1>2 DEF DemoTypes
<1>4. \A q \in Pid : Demo!Ours(q)' => table'[q] = table[q] /\ Demo!Ours(q)
  BY <1>1 DEF DemoTypes, Demo!Ours, Demo!NamesAssumption
<1> QED
  BY <1>2, <1>3, <1>4 DEF DemoListed, Listed

LEMMA DemoInvariance ==
  ASSUME Demo!NamesAssumption, Demo!CutAssumption
  PROVE  Demo!Spec => []DemoInv
<1>1. DemoInv /\ UNCHANGED Demo!vars => DemoInv'
  BY DEF Demo!vars, DemoInv, DemoTypes, DemoListed, Listed, Demo!Ours
<1>2. DemoInv /\ Demo!Next => DemoInv'
  BY DemoUpKeeps, DemoStartKeeps, DemoDownKeeps, DemoOthersKeep DEF Demo!Next
<1> QED
  BY <1>1, <1>2, DemoInitKeeps, PTL DEF Demo!Spec

LEMMA DemoIsTyped ==
  ASSUME DemoTypes
  PROVE  Demo!TypeOK
<1>1. \A s \in Seq(Pid) : Demo!ToSet(s) \subseteq Pid
  BY DEF Demo!ToSet
<1>2. command.pids \in Seq(Pid) /\ command.do \in {"none", "up", "down"}
  BY DEF DemoTypes
<1> QED
  BY <1>1, <1>2 DEF DemoTypes, Demo!TypeOK, ToSet, Demo!ToSet

(***************************************************************************)
(* As long as no up has ended before it recorded its processes, no two     *)
(* processes serve one node's folder, and a demo that has no record has    *)
(* no processes.                                                           *)
(***************************************************************************)
THEOREM NothingIsLeft == Demo!Spec => []NothingLeftBehind
<1>1. ASSUME DemoInv
      PROVE  NothingLeftBehind
  <2> USE <1>1, DemoAssumption DEF DemoInv
  <2>1. SUFFICES ASSUME cuts = 0
                 PROVE  /\ \A p, q \in Pid : Demo!Ours(p) /\ table[p] = table[q] => p = q
                        /\ command.do # "up" /\ pidRecord = <<>> => \A p \in Pid : ~Demo!Ours(p)
    BY DEF NothingLeftBehind, Demo!NothingLeftBehind
  <2>2. ASSUME NEW p \in Pid, NEW q \in Pid, Demo!Ours(p), table[p] = table[q]
        PROVE  p = q
    <3>1. Demo!Ours(q)
      BY <2>2 DEF Demo!Ours
    <3>2. PICK pids \in {pidRecord, command.pids} : Listed(p, pids) /\ Listed(q, pids)
      BY <2>1, <2>2, <3>1 DEF DemoListed
    <3>3. PICK i \in DOMAIN pids \cap DOMAIN Demo!Launched :
                 pids[i] = p /\ table[p] = Demo!Launched[i]
      BY <3>2 DEF Listed
    <3>4. PICK j \in DOMAIN pids \cap DOMAIN Demo!Launched :
                 pids[j] = q /\ table[q] = Demo!Launched[j]
      BY <3>2 DEF Listed
    <3> QED
      BY <2>2, <3>3, <3>4 DEF Demo!NamesAssumption
  <2>3. ASSUME command.do # "up", pidRecord = <<>>, NEW p \in Pid
        PROVE  ~Demo!Ours(p)
    BY <2>1, <2>3 DEF DemoListed, Listed
  <2> QED
    BY <2>2, <2>3
<1> QED
  BY <1>1, DemoAssumption, DemoInvariance, PTL

-----------------------------------------------------------------------------
(***************************************************************************)
(* LocalControlPlane: one part of the trail for each thing it tells of.    *)
(***************************************************************************)

TrailOK ==
  /\ trail = [e \in DOMAIN trail |-> trail[e]]
  /\ \A e \in DOMAIN trail : trail[e] \in Nat \ {0}

Placements == [object : Thing, node : Box, status : {"healthy", "failed"}]
Pointers   == [version : Nat, cid : Cid]
Openings   == [opens : Moment, closes : Moment]
VoteChoices    == {"yes", "no", "abstain"}

ControlTypes ==
  /\ members \in [Signer -> {"active", "suspended", null}] /\ members[Founder] # null
  /\ nodes \in [Box -> Signer \cup {null}]
  /\ placed \in [PlacementId -> Placements \cup {null}]
  /\ pointers \in [Vault -> Pointers \cup {null}]
  /\ proposals \in [Proposal -> Openings \cup {null}]
  /\ ballots \in [Proposal -> [Signer -> VoteChoices \cup {null}]]
  /\ ledgers \in [Signer -> Seq(Control!Entries)]

Cast == {b \in Proposal \X Signer : ballots[b[1]][b[2]] # null}

Voters(q) == {m \in Signer : ballots[q][m] # null}

VotesOK == IsFiniteSet(Cast) /\ \A q \in Proposal : IsFiniteSet(Voters(q))

(***************************************************************************)
(* The parts of TrailTellsAll.                                             *)
(***************************************************************************)
MembersTold == \A m \in Signer :
  Control!EventsOf("membership_approved", m)
    = IF members[m] # null /\ m # Founder THEN 1 ELSE 0
NodesTold == \A n \in Box :
  Control!EventsOf("node_registered", n) = IF nodes[n] # null THEN 1 ELSE 0
ObjectsTold == \A o \in Thing :
  Control!EventsOf("object_registered", o) = IF o \in objects THEN 1 ELSE 0
PlacementsTold == \A p \in PlacementId :
  Control!EventsOf("placement_created", p) = IF placed[p] # null THEN 1 ELSE 0
PointersTold == \A v \in Vault :
  Control!EventsOf("catalog_pointer_updated", v)
    = IF pointers[v] = null THEN 0 ELSE pointers[v].version
ProposalsTold == \A q \in Proposal :
  Control!EventsOf("proposal_created", q) = IF proposals[q] # null THEN 1 ELSE 0
VotesTold ==
  /\ \A q \in Proposal :
       Control!EventsOf("vote_cast", q) = Control!Votes(q, "yes") + Control!Votes(q, "no")
                                         + Control!Votes(q, "abstain")
  /\ voteCount = Cardinality(Cast)
CreditTold == \A m \in Signer :
  Control!EventsOf("credit_entry_recorded", m) = Len(ledgers[m])

Told == /\ MembersTold /\ NodesTold /\ ObjectsTold /\ PlacementsTold
        /\ PointersTold /\ ProposalsTold /\ VotesTold /\ CreditTold

ControlInv == TrailOK /\ ControlTypes /\ VotesOK /\ Told

LEMMA Counted ==
  \A S : Control!Cardinality(S) = Cardinality(S)
BY DEF Control!Cardinality, Cardinality

LEMMA Appended ==
  ASSUME TrailOK, NEW kind, NEW subject, Control!AppendAudit(kind, subject)
  PROVE  /\ TrailOK'
         /\ \A k, s : Control!EventsOf(k, s)' = IF k = kind /\ s = subject
                                               THEN Control!EventsOf(k, s) + 1
                                               ELSE Control!EventsOf(k, s)
         /\ \A k, s : Control!EventsOf(k, s) \in Nat
<1> DEFINE x == Control!Event(kind, subject)
<1>1. trail' = [e \in DOMAIN trail \cup {x} |->
                 IF e = x THEN Control!Copies(e) + 1 ELSE trail[e]]
  BY DEF Control!AppendAudit
<1>2. \A k, s : (Control!Event(k, s) = x) <=> (k = kind /\ s = subject)
  BY DEF Control!Event
<1> HIDE DEF x
<1>3. TrailOK'
  BY <1>1 DEF TrailOK, Control!Copies
<1>4. \A k, s : Control!EventsOf(k, s) \in Nat
  BY DEF Control!EventsOf, Control!Copies, TrailOK
<1>5. \A e : Control!Copies(e)' = IF e = x THEN Control!Copies(e) + 1 ELSE Control!Copies(e)
  BY <1>1 DEF Control!Copies
<1>6. \A k, s : Control!EventsOf(k, s)' = IF k = kind /\ s = subject
                                          THEN Control!EventsOf(k, s) + 1
                                          ELSE Control!EventsOf(k, s)
  BY <1>2, <1>5 DEF Control!EventsOf
<1> QED
  BY <1>3, <1>4, <1>6

LEMMA ControlInitKeeps ==
  ASSUME Control!NullAssumption, Control!FounderAssumption, Control!Init
  PROVE  ControlInv
<1> USE DEF Control!Init
<1>1. TrailOK
  BY DEF TrailOK
<1>2. ControlTypes
  BY DEF ControlTypes, Control!FounderAssumption, Control!NullAssumption
<1>3. Cast = {} /\ \A q \in Proposal : Voters(q) = {}
  BY DEF Cast, Voters
<1>4. \A k, s : k # "community_created" => Control!EventsOf(k, s) = 0
  BY DEF Control!EventsOf, Control!Copies, Control!Event
<1>5. \A q \in Proposal, choice \in VoteChoices : Control!Votes(q, choice) = 0
  <2>1. \A q \in Proposal, choice \in VoteChoices : {m \in Signer : ballots[q][m] = choice} = {}
    BY DEF VoteChoices, Control!NullAssumption
  <2> QED
    BY <2>1, FS_EmptySet, Counted DEF Control!Votes
<1>6. MembersTold /\ NodesTold /\ ObjectsTold /\ PlacementsTold
  BY <1>4 DEF MembersTold, NodesTold, ObjectsTold, PlacementsTold
<1>7. PointersTold /\ ProposalsTold /\ VotesTold
  BY <1>3, <1>4, <1>5, FS_EmptySet
     DEF PointersTold, ProposalsTold, VotesTold, VoteChoices
<1>8. CreditTold
  BY <1>4 DEF CreditTold
<1> QED
  BY <1>1, <1>2, <1>3, <1>6, <1>7, <1>8, FS_EmptySet DEF ControlInv, VotesOK, Told

(***************************************************************************)
(* What a call leaves alone, and tells nothing of, stays told.             *)
(***************************************************************************)
LEMMA RestTold ==
  ASSUME ControlInv, NEW kind, NEW subject, Control!AppendAudit(kind, subject)
  PROVE  /\ kind # "membership_approved" /\ UNCHANGED members => MembersTold'
         /\ kind # "node_registered" /\ UNCHANGED nodes => NodesTold'
         /\ kind # "object_registered" /\ UNCHANGED objects => ObjectsTold'
         /\ kind # "placement_created" /\ UNCHANGED placed => PlacementsTold'
         /\ kind # "catalog_pointer_updated" /\ UNCHANGED pointers => PointersTold'
         /\ kind # "proposal_created" /\ UNCHANGED proposals => ProposalsTold'
         /\ kind # "vote_cast" /\ UNCHANGED <<ballots, voteCount>> => VotesTold'
         /\ kind # "credit_entry_recorded" /\ UNCHANGED ledgers => CreditTold'
         /\ UNCHANGED ballots => VotesOK'
<1> USE Appended DEF ControlInv, Told
<1>1. kind # "membership_approved" /\ UNCHANGED members => MembersTold'
  BY DEF MembersTold
<1>2. kind # "node_registered" /\ UNCHANGED nodes => NodesTold'
  BY DEF NodesTold
<1>3. kind # "object_registered" /\ UNCHANGED objects => ObjectsTold'
  BY DEF ObjectsTold
<1>4. kind # "placement_created" /\ UNCHANGED placed => PlacementsTold'
  BY DEF PlacementsTold
<1>5. kind # "catalog_pointer_updated" /\ UNCHANGED pointers => PointersTold'
  BY DEF PointersTold
<1>6. kind # "proposal_created" /\ UNCHANGED proposals => ProposalsTold'
  BY DEF ProposalsTold
<1>7. kind # "vote_cast" /\ UNCHANGED <<ballots, voteCount>> => VotesTold'
  BY DEF VotesTold, Cast, Control!Votes
<1>8. kind # "credit_entry_recorded" /\ UNCHANGED ledgers => CreditTold'
  BY DEF CreditTold
<1>9. UNCHANGED ballots => VotesOK'
  BY DEF VotesOK, Cast, Voters
<1> QED
  BY <1>1, <1>2, <1>3, <1>4, <1>5, <1>6, <1>7, <1>8, <1>9

LEMMA AddMemberTold ==
  ASSUME Control!NullAssumption, ControlInv, NEW m \in Signer,
         NEW status \in {"active", "suspended"}, Control!AddMember(m, status)
  PROVE  ControlInv'
<1>1. /\ members[m] = null /\ members' = [members EXCEPT ![m] = status]
      /\ UNCHANGED <<nodes, objects, placed, pointers, proposals, ballots, voteCount, ledgers>>
      /\ Control!AppendAudit("membership_approved", m)
  BY DEF Control!AddMember
<1>2. ControlTypes'
  BY <1>1 DEF ControlInv, ControlTypes, Control!NullAssumption
<1>3. MembersTold'
  BY <1>1, Appended DEF ControlInv, Told, MembersTold, ControlTypes, Control!NullAssumption
<1> QED
  BY <1>1, <1>2, <1>3, RestTold, Appended DEF ControlInv, Told

LEMMA RegisterNodeTold ==
  ASSUME Control!NullAssumption, ControlInv, NEW m \in Signer, NEW n \in Box,
         Control!RegisterNode(m, n)
  PROVE  ControlInv'
<1>1. /\ nodes[n] = null /\ nodes' = [nodes EXCEPT ![n] = m]
      /\ UNCHANGED <<members, objects, placed, pointers, proposals, ballots, voteCount, ledgers>>
      /\ Control!AppendAudit("node_registered", n)
  BY DEF Control!RegisterNode
<1>2. ControlTypes'
  BY <1>1 DEF ControlInv, ControlTypes
<1>3. NodesTold'
  BY <1>1, Appended DEF ControlInv, Told, NodesTold, ControlTypes, Control!NullAssumption
<1> QED
  BY <1>1, <1>2, <1>3, RestTold, Appended DEF ControlInv, Told

LEMMA RegisterObjectTold ==
  ASSUME ControlInv, NEW m \in Signer, NEW o \in Thing, Control!RegisterObject(m, o)
  PROVE  ControlInv'
<1>1. /\ o \notin objects /\ objects' = objects \cup {o}
      /\ UNCHANGED <<members, nodes, placed, pointers, proposals, ballots, voteCount, ledgers>>
      /\ Control!AppendAudit("object_registered", o)
  BY DEF Control!RegisterObject
<1>2. ControlTypes'
  BY <1>1 DEF ControlInv, ControlTypes
<1>3. ObjectsTold'
  BY <1>1, Appended DEF ControlInv, Told, ObjectsTold
<1> QED
  BY <1>1, <1>2, <1>3, RestTold, Appended DEF ControlInv, Told

LEMMA AddPlacementTold ==
  ASSUME Control!NullAssumption, ControlInv, NEW m \in Signer, NEW p \in PlacementId,
         NEW o \in Thing, NEW n \in Box, NEW status \in {"healthy", "failed"},
         Control!AddPlacement(m, p, o, n, status)
  PROVE  ControlInv'
<1> DEFINE placement == [object |-> o, node |-> n, status |-> status]
<1>1. /\ placed[p] = null /\ placed' = [placed EXCEPT ![p] = placement]
      /\ UNCHANGED <<members, nodes, objects, pointers, proposals, ballots, voteCount, ledgers>>
      /\ Control!AppendAudit("placement_created", p)
  BY DEF Control!AddPlacement, Control!PlacementFree
<1>2. placement \in Placements /\ placement # null
  BY DEF Placements, Control!NullAssumption
<1> HIDE DEF placement
<1>3. ControlTypes'
  BY <1>1, <1>2 DEF ControlInv, ControlTypes
<1>4. PlacementsTold'
  BY <1>1, <1>2, Appended DEF ControlInv, Told, PlacementsTold, ControlTypes
<1> QED
  BY <1>1, <1>3, <1>4, RestTold, Appended DEF ControlInv, Told

LEMMA UpdateCatalogPointerTold ==
  ASSUME Control!NullAssumption, ControlInv, NEW m \in Signer, NEW v \in Vault,
         NEW cid \in Cid, NEW version, NEW previous,
         Control!UpdateCatalogPointer(m, v, version, cid, previous)
  PROVE  ControlInv'
<1> DEFINE pointer == [version |-> version, cid |-> cid]
<1>1. /\ pointers' = [pointers EXCEPT ![v] = pointer]
      /\ UNCHANGED <<members, nodes, objects, placed, proposals, ballots, voteCount, ledgers>>
      /\ Control!AppendAudit("catalog_pointer_updated", v)
  BY DEF Control!UpdateCatalogPointer
<1>2. /\ version = IF pointers[v] = null THEN 1 ELSE pointers[v].version + 1
      /\ version \in Nat
  BY DEF Control!UpdateCatalogPointer, Control!Follows, ControlInv, ControlTypes, Pointers
<1>3. pointer \in Pointers /\ pointer # null /\ pointer.version = version
  BY <1>2 DEF Pointers, Control!NullAssumption
<1> HIDE DEF pointer
<1>4. ControlTypes'
  BY <1>1, <1>3 DEF ControlInv, ControlTypes
<1>5. PointersTold'
  BY <1>1, <1>2, <1>3, Appended DEF ControlInv, Told, PointersTold, ControlTypes
<1> QED
  BY <1>1, <1>4, <1>5, RestTold, Appended DEF ControlInv, Told

LEMMA RecordCreditTold ==
  ASSUME ControlInv, NEW m \in Signer, NEW entry \in Control!Entries,
         Control!RecordCredit(m, entry)
  PROVE  ControlInv'
<1>1. /\ ledgers' = [ledgers EXCEPT ![m] = Append(@, entry)]
      /\ UNCHANGED <<members, nodes, objects, placed, pointers, proposals, ballots, voteCount>>
      /\ Control!AppendAudit("credit_entry_recorded", m)
  BY DEF Control!RecordCredit
<1>2. ControlTypes'
  BY <1>1 DEF ControlInv, ControlTypes
<1>3. \A s \in Signer : Len(ledgers'[s]) = IF s = m THEN Len(ledgers[s]) + 1 ELSE Len(ledgers[s])
  BY <1>1 DEF ControlInv, ControlTypes
<1>4. CreditTold'
  BY <1>1, <1>3, Appended DEF ControlInv, Told, CreditTold
<1> QED
  BY <1>1, <1>2, <1>4, RestTold, Appended DEF ControlInv, Told

LEMMA CreateProposalTold ==
  ASSUME Control!NullAssumption, ControlInv, NEW m \in Signer, NEW q \in Proposal,
         NEW opens \in Moment, NEW closes \in Moment,
         Control!CreateProposal(m, q, opens, closes)
  PROVE  ControlInv'
<1> DEFINE open == [opens |-> opens, closes |-> closes]
<1>1. /\ proposals[q] = null /\ proposals' = [proposals EXCEPT ![q] = open]
      /\ UNCHANGED <<members, nodes, objects, placed, pointers, ballots, voteCount, ledgers>>
      /\ Control!AppendAudit("proposal_created", q)
  BY DEF Control!CreateProposal
<1>2. open \in Openings /\ open # null
  BY DEF Openings, Control!NullAssumption
<1> HIDE DEF open
<1>3. ControlTypes'
  BY <1>1, <1>2 DEF ControlInv, ControlTypes
<1>4. ProposalsTold'
  BY <1>1, <1>2, Appended DEF ControlInv, Told, ProposalsTold, ControlTypes
<1> QED
  BY <1>1, <1>3, <1>4, RestTold, Appended DEF ControlInv, Told

LEMMA CastVoteTold ==
  ASSUME Control!NullAssumption, ControlInv, NEW m \in Signer, NEW q \in Proposal,
         NEW choice \in VoteChoices, NEW at, Control!CastVote(m, q, choice, at)
  PROVE  ControlInv'
<1>1. /\ ballots[q][m] = null /\ voteCount' = voteCount + 1
      /\ ballots' = [ballots EXCEPT ![q][m] = choice]
      /\ UNCHANGED <<members, nodes, objects, placed, pointers, proposals, ledgers>>
      /\ Control!AppendAudit("vote_cast", q)
  BY DEF Control!CastVote
<1>2. choice # null
  BY DEF VoteChoices, Control!NullAssumption
<1>3. \A r \in Proposal, s \in Signer :
        ballots'[r][s] = IF r = q /\ s = m THEN choice ELSE ballots[r][s]
  BY <1>1 DEF ControlInv, ControlTypes
<1>4. ControlTypes'
  BY <1>1 DEF ControlInv, ControlTypes
<1>5. Cast' = Cast \cup {<<q, m>>} /\ <<q, m>> \notin Cast
  BY <1>1, <1>2, <1>3 DEF Cast
<1>6. Voters(q)' = Voters(q) \cup {m} /\ \A r \in Proposal : r # q => Voters(r)' = Voters(r)
  BY <1>1, <1>2, <1>3 DEF Voters
<1>7. VotesOK' /\ Cardinality(Cast') = Cardinality(Cast) + 1
  BY <1>5, <1>6, FS_AddElement DEF ControlInv, VotesOK
<1>8. \A r \in Proposal, c \in VoteChoices :
        /\ Control!Votes(r, c) \in Nat
        /\ Control!Votes(r, c)' = IF r = q /\ c = choice THEN Control!Votes(r, c) + 1
                                                        ELSE Control!Votes(r, c)
  <2> TAKE r \in Proposal, c \in VoteChoices
  <2> DEFINE S == {s \in Signer : ballots[r][s] = c}
             T == {s \in Signer : ballots'[r][s] = c}
  <2>1. Control!Votes(r, c) = Cardinality(S) /\ Control!Votes(r, c)' = Cardinality(T)
    BY Counted DEF Control!Votes
  <2>2. S \subseteq Voters(r)
    BY DEF Voters, VoteChoices, Control!NullAssumption
  <2>3. IsFiniteSet(S) /\ Cardinality(S) \in Nat
    BY <2>2, FS_Subset, FS_CardinalityType DEF ControlInv, VotesOK
  <2>4. CASE r = q /\ c = choice
    <3>1. T = S \cup {m} /\ m \notin S
      BY <1>1, <1>2, <1>3, <2>4
    <3> QED
      BY <2>1, <2>3, <2>4, <3>1, FS_AddElement
  <2>5. CASE ~(r = q /\ c = choice)
    <3>1. T = S
      BY <1>1, <1>3, <2>5 DEF VoteChoices, Control!NullAssumption
    <3> QED
      BY <2>1, <2>3, <2>5, <3>1
  <2> QED
    BY <2>4, <2>5
<1>9. VotesTold'
  BY <1>1, <1>7, <1>8, Appended DEF ControlInv, Told, VotesTold, VoteChoices
<1> QED
  BY <1>1, <1>4, <1>7, <1>9, RestTold, Appended DEF ControlInv, Told

LEMMA ControlInvariance ==
  ASSUME Control!NullAssumption, Control!FounderAssumption
  PROVE  Control!Spec => []ControlInv
<1>1. ASSUME ControlInv, UNCHANGED Control!records, UNCHANGED <<trail, length>>
      PROVE  ControlInv'
  <2> USE <1>1 DEF Control!records
  <2>1. TrailOK' /\ ControlTypes' /\ VotesOK'
    BY DEF ControlInv, TrailOK, ControlTypes, VotesOK, Cast, Voters
  <2>2. \A k, s : Control!EventsOf(k, s)' = Control!EventsOf(k, s)
    BY DEF Control!EventsOf, Control!Copies
  <2>3. MembersTold' /\ NodesTold' /\ ObjectsTold' /\ PlacementsTold'
    BY <2>2 DEF ControlInv, Told, MembersTold, NodesTold, ObjectsTold, PlacementsTold
  <2>4. PointersTold' /\ ProposalsTold' /\ CreditTold'
    BY <2>2 DEF ControlInv, Told, PointersTold, ProposalsTold, CreditTold
  <2>5. VotesTold'
    BY <2>2 DEF ControlInv, Told, VotesTold, Cast, Control!Votes
  <2> QED
    BY <2>1, <2>3, <2>4, <2>5 DEF ControlInv, Told
<1>2. ASSUME ControlInv, Control!Next
      PROVE  ControlInv'
  <2>1. ASSUME NEW c, Control!IssueChallenge(c) \/
                      \E n \in Nonce, at \in Moment : Control!ConsumeChallenge(c, n, at)
        PROVE  ControlInv'
    BY <1>1, <1>2, <2>1 DEF Control!IssueChallenge, Control!ConsumeChallenge
  <2> QED
    BY <1>2, <2>1, AddMemberTold, RegisterNodeTold, RegisterObjectTold, AddPlacementTold,
       UpdateCatalogPointerTold, RecordCreditTold, CreateProposalTold, CastVoteTold
       DEF Control!Next, VoteChoices
<1>3. ControlInv /\ UNCHANGED Control!vars => ControlInv'
  BY <1>1 DEF Control!vars
<1> QED
  BY <1>2, <1>3, ControlInitKeeps, PTL DEF Control!Spec

(***************************************************************************)
(* The audit trail of a community in memory tells each change that was     *)
(* made, as often as it was made, and none that was refused.               *)
(***************************************************************************)
THEOREM TrailOfTheCommunity == Control!Spec => []TrailTellsAll
<1>1. ControlInv => TrailTellsAll
  BY Counted
  DEF ControlInv, Told, MembersTold, NodesTold, ObjectsTold, PlacementsTold,
      PointersTold, ProposalsTold, VotesTold, CreditTold, Cast, TrailTellsAll,
      Control!TrailTellsAll, Control!Once
<1> QED
  BY <1>1, ControlAssumption, ControlInvariance, PTL

(***************************************************************************)
(* The shape of what no event tells of, or not all that is to be known.    *)
(***************************************************************************)
ControlShape ==
  /\ length \in 1 .. MaxTrail
  /\ objects \subseteq Thing
  /\ \A p \in PlacementId : placed[p] # null => placed[p].object \in objects
  /\ \A v \in Vault : pointers[v] # null => pointers[v].version \in 1 .. MaxTrail
  /\ challenges \in [Challenge -> [expires : Nat, consumed : BOOLEAN] \cup {null}]
  /\ nonces \subseteq Nonce

LEMMA ChallengesShape ==
  ASSUME Control!MomentAssumption, ControlShape, NEW c \in Challenge,
         Control!IssueChallenge(c) \/
           \E n \in Nonce, at \in Moment : Control!ConsumeChallenge(c, n, at)
  PROVE  ControlShape'
<1> DEFINE Item == [expires : Nat, consumed : BOOLEAN]
<1>1. CASE Control!IssueChallenge(c)
  <2>1. PICK at \in Moment :
          challenges' = [challenges EXCEPT ![c] = [expires |-> at + ChallengeLife,
                                                   consumed |-> FALSE]]
    BY <1>1 DEF Control!IssueChallenge
  <2>2. at + ChallengeLife \in Nat
    BY DEF Control!MomentAssumption
  <2>3. challenges' \in [Challenge -> Item \cup {null}]
    BY <2>1, <2>2 DEF ControlShape
  <2> QED
    BY <1>1, <2>3 DEF Control!IssueChallenge, Control!records, ControlShape
<1>2. ASSUME NEW n \in Nonce, NEW at \in Moment, Control!ConsumeChallenge(c, n, at)
      PROVE  ControlShape'
  <2>1. \/ UNCHANGED challenges
        \/ challenges[c] # null /\ challenges' = [challenges EXCEPT ![c].consumed = TRUE]
    BY <1>2 DEF Control!ConsumeChallenge
  <2>2. challenges' \in [Challenge -> Item \cup {null}]
    BY <2>1 DEF ControlShape
  <2> QED
    BY <1>2, <2>2 DEF Control!ConsumeChallenge, Control!records, ControlShape
<1> QED
  BY <1>1, <1>2

LEMMA AppendedShape ==
  ASSUME Control!EventsAssumption, ControlShape, NEW kind, NEW subject,
         Control!AppendAudit(kind, subject)
  PROVE  length' \in 1 .. MaxTrail
BY DEF Control!EventsAssumption, ControlShape, Control!AppendAudit

LEMMA ControlShapeKeeps ==
  ASSUME Control!MomentAssumption, Control!EventsAssumption, ControlInv, ControlShape,
         Control!Next
  PROVE  ControlShape'
<1> USE DEF Control!gate
<1>1. ASSUME NEW m \in Signer, NEW status, Control!AddMember(m, status)
      PROVE  ControlShape'
  BY <1>1, AppendedShape DEF Control!AddMember, ControlShape
<1>2. ASSUME NEW m \in Signer, NEW n \in Box, Control!RegisterNode(m, n)
      PROVE  ControlShape'
  BY <1>2, AppendedShape DEF Control!RegisterNode, ControlShape
<1>3. ASSUME NEW m \in Signer, NEW o \in Thing, Control!RegisterObject(m, o)
      PROVE  ControlShape'
  BY <1>3, AppendedShape DEF Control!RegisterObject, ControlShape
<1>4. ASSUME NEW m \in Signer, NEW p \in PlacementId, NEW o \in Thing, NEW n \in Box,
             NEW status, Control!AddPlacement(m, p, o, n, status)
      PROVE  ControlShape'
  BY <1>4, AppendedShape DEF Control!AddPlacement, ControlShape, ControlInv, ControlTypes
<1>5. ASSUME NEW m \in Signer, NEW v \in Vault, NEW cid \in Cid,
             NEW version \in 1 .. MaxTrail, NEW previous,
             Control!UpdateCatalogPointer(m, v, version, cid, previous)
      PROVE  ControlShape'
  BY <1>5, AppendedShape
  DEF Control!UpdateCatalogPointer, ControlShape, ControlInv, ControlTypes
<1>6. ASSUME NEW m \in Signer, NEW entry \in Control!Entries, Control!RecordCredit(m, entry)
      PROVE  ControlShape'
  BY <1>6, AppendedShape DEF Control!RecordCredit, ControlShape
<1>7. ASSUME NEW m \in Signer, NEW q \in Proposal, NEW opens, NEW closes,
             Control!CreateProposal(m, q, opens, closes)
      PROVE  ControlShape'
  BY <1>7, AppendedShape DEF Control!CreateProposal, ControlShape
<1>8. ASSUME NEW m \in Signer, NEW q \in Proposal, NEW choice, NEW at,
             Control!CastVote(m, q, choice, at)
      PROVE  ControlShape'
  BY <1>8, AppendedShape DEF Control!CastVote, ControlShape
<1> QED
  BY <1>1, <1>2, <1>3, <1>4, <1>5, <1>6, <1>7, <1>8, ChallengesShape DEF Control!Next

LEMMA ControlShapes ==
  ASSUME Control!NullAssumption, Control!FounderAssumption, Control!MomentAssumption,
         Control!EventsAssumption
  PROVE  Control!Spec => []ControlShape
<1>1. Control!Init => ControlShape
  BY DEF Control!Init, ControlShape, Control!EventsAssumption
<1>2. ControlInv /\ ControlShape /\ Control!Next => ControlShape'
  BY ControlShapeKeeps
<1>3. ControlShape /\ UNCHANGED Control!vars => ControlShape'
  BY DEF ControlShape, Control!vars, Control!records, Control!gate
<1> QED
  BY <1>1, <1>2, <1>3, ControlInvariance, PTL DEF Control!Spec

LEMMA ControlIsTyped ==
  ASSUME ControlInv, ControlShape
  PROVE  Control!TypeOK
<1> USE DEF ControlInv, ControlTypes, ControlShape
<1>1. ASSUME NEW p \in PlacementId
      PROVE  placed[p] \in [object : objects, node : Box, status : {"healthy", "failed"}]
                              \cup {null}
  BY <1>1 DEF Placements
<1>2. placed \in [PlacementId -> [object : objects, node : Box,
                                  status : {"healthy", "failed"}] \cup {null}]
  BY <1>1
<1>3. ASSUME NEW v \in Vault
      PROVE  pointers[v] \in [version : 1 .. MaxTrail, cid : Cid] \cup {null}
  BY <1>3 DEF Pointers
<1>4. pointers \in [Vault -> [version : 1 .. MaxTrail, cid : Cid] \cup {null}]
  BY <1>3
<1>5. ballots \in [Proposal -> [Signer -> {"yes", "no", "abstain", null}]]
  BY DEF VoteChoices
<1>6. Control!IsABag(trail)
  BY DEF TrailOK, Control!IsABag
<1>7. proposals \in [Proposal -> [opens : Moment, closes : Moment] \cup {null}]
  BY DEF Openings
<1> QED
  BY <1>2, <1>4, <1>5, <1>6, <1>7 DEF Control!TypeOK

-----------------------------------------------------------------------------
(***************************************************************************)
(* InMemoryMesh: every intact copy is in the mesh's list.                  *)
(***************************************************************************)
Slot == [object : Blob, node : Mesh!Node, healthy : BOOLEAN]

Lists(list, n, o) == \E i \in DOMAIN list : list[i].object = o /\ list[i].node = n

MeshInv ==
  /\ active \subseteq Mesh!Node
  /\ blob \in [Mesh!Node -> [Blob -> {"none", "intact", "damaged"}]]
  /\ placements \in Seq(Slot)
  /\ \A n \in Mesh!Node, o \in Blob : blob[n][o] = "intact" => Lists(placements, n, o)

-----------------------------------------------------------------------------
(***************************************************************************)
(* Every set of naturals has a least element: what Min chooses is there.   *)
(***************************************************************************)
LEMMA LeastOf ==
  ASSUME NEW T \in SUBSET Nat, T # {}
  PROVE  \E m \in T : \A k \in T : m <= k
<1>1. PICK n \in T : TRUE
  OBVIOUS
<1> DEFINE S == 0 .. n
           T2 == {x \in SUBSET S : \E k \in T : k <= n /\ x = 0 .. k}
<1>2. IsFiniteSet(S)
  BY <1>1, FS_Interval
<1>3. T2 \subseteq FiniteSubsetsOf(S) /\ S \in T2
  BY <1>1, <1>2, FS_Subset DEF FiniteSubsetsOf
<1> HIDE DEF T2
<1>4. PICK x \in T2 : \A y \in T2 : <<y, x>> \notin StrictSubsetOrdering(S)
  <2>1. IsWellFoundedOn(StrictSubsetOrdering(S), FiniteSubsetsOf(S)) /\ T2 # {}
    BY <1>3, FS_StrictSubsetOrderingWellFounded
  <2> QED
    BY <1>3, <2>1, WFMin
<1>5. PICK m \in T : m <= n /\ x = 0 .. m
  BY <1>4 DEF T2
<1>6. ASSUME NEW k \in T, k < m
      PROVE  FALSE
  <2>1. 0 .. k \in T2
    BY <1>1, <1>5, <1>6 DEF T2
  <2>2. 0 .. k \subseteq 0 .. m /\ m \in 0 .. m /\ m \notin 0 .. k
    BY <1>6
  <2>3. 0 .. k \in SUBSET S /\ 0 .. m \in SUBSET S
    BY <1>1, <1>5, <1>6
  <2> QED
    BY <1>4, <1>5, <2>1, <2>2, <2>3 DEF StrictSubsetOrdering
<1> QED
  BY <1>5, <1>6

LEMMA MeshCounted == \A S : Mesh!Cardinality(S) = Cardinality(S)
BY DEF Mesh!Cardinality, Cardinality

LEMMA NodeIs == Mesh!Node = {MeshNodes[i] : i \in DOMAIN MeshNodes}
BY DEF Mesh!Node, Mesh!ToSet

LEMMA InOrderIsASeq ==
  ASSUME MeshNodes \in Seq(Mesh!Node), NEW S \in SUBSET (DOMAIN MeshNodes)
  PROVE  Mesh!InOrder(S) \in Seq(Mesh!Node)
<1>1. Len(MeshNodes) \in Nat /\ DOMAIN MeshNodes = 1 .. Len(MeshNodes)
  OBVIOUS
<1> DEFINE place(k) == CHOOSE i \in S : Mesh!Cardinality({j \in S : j <= i}) = k
           N == Mesh!Cardinality(S)
<1>2. /\ Cardinality(S) \in Nat
      /\ \A k \in 1 .. Cardinality(S) : \E i \in S : Cardinality({j \in S : j <= i}) = k
  BY <1>1, Ranked
<1>7. N = Cardinality(S)
  BY MeshCounted
<1> HIDE DEF N
<1>3. ASSUME NEW k \in 1 .. N
      PROVE  place(k) \in S
  <2>2. PICK i \in S : Cardinality({j \in S : j <= i}) = k
    BY <1>2, <1>3, <1>7
  <2>3. Mesh!Cardinality({j \in S : j <= i}) = k
    BY <2>2, MeshCounted
  <2> QED
    BY <2>3
<1>4. Mesh!InOrder(S) = [k \in 1 .. N |-> MeshNodes[place(k)]]
  BY DEF Mesh!InOrder, N
<1> HIDE DEF place
<1>5. \A k \in 1 .. N : MeshNodes[place(k)] \in Mesh!Node
  <2> TAKE k \in 1 .. N
  <2>1. place(k) \in DOMAIN MeshNodes
    BY <1>3
  <2> QED
    BY <2>1, NodeIs
<1>6. [k \in 1 .. N |-> MeshNodes[place(k)]] \in Seq(Mesh!Node)
  BY <1>2, <1>5, <1>7
<1> QED
  BY <1>4, <1>6

LEMMA TakenIsASeq ==
  ASSUME NEW ns \in Seq(Mesh!Node), NEW o, NEW wanted \in Nat
  PROVE  Mesh!Taken(ns, o, wanted) \in Seq(Mesh!Node)
<1> DEFINE full == {i \in DOMAIN ns : ~Mesh!HasRoom(ns[i], o)}
           ends == {wanted, Len(ns)} \cup {i - 1 : i \in full}
           upTo == Mesh!Min(ends)
<1>1. Mesh!Taken(ns, o, wanted) = SubSeq(ns, 1, upTo)
  BY DEF Mesh!Taken
<1> HIDE DEF full
<1>2. full \subseteq 1 .. Len(ns) /\ Len(ns) \in Nat
  BY DEF full
<1>3. ends \in SUBSET Nat /\ Len(ns) \in ends
  BY <1>2
<1> HIDE DEF ends
<1>4. \E m \in ends : \A k \in ends : m <= k
  BY <1>3, LeastOf
<1>5. upTo \in ends /\ \A k \in ends : upTo <= k
  BY <1>4 DEF Mesh!Min
<1> HIDE DEF upTo
<1>6. upTo \in 0 .. Len(ns)
  BY <1>2, <1>3, <1>5
<1> QED
  <2>1. \A i \in 1 .. upTo : ns[i] \in Mesh!Node
    BY <1>2, <1>6
  <2>2. SubSeq(ns, 1, upTo) \in Seq(Mesh!Node)
    BY <1>6, <2>1, SubSeqProperties
  <2> QED
    BY <1>1, <2>2

(***************************************************************************)
(* restore and audit_all change the health of placements and nothing else, *)
(* and what is placed is added at the end.                                 *)
(***************************************************************************)
LEMMA WithHealth ==
  ASSUME NEW p \in Slot, NEW b
  PROVE  [p EXCEPT !.healthy = b] = [object |-> p.object, node |-> p.node, healthy |-> b]
<1>1. PICK r : r = [p EXCEPT !.healthy = b]
  OBVIOUS
<1>2. r = [object |-> p.object, node |-> p.node, healthy |-> b]
  BY <1>1 DEF Slot
<1> QED
  BY <1>1, <1>2, Zenon

SamePlaces(list, was) ==
  /\ list \in Seq(Slot) /\ Len(list) = Len(was)
  /\ \A i \in DOMAIN was : list[i].object = was[i].object /\ list[i].node = was[i].node

LEMMA TriedKeepsPlaces ==
  ASSUME NEW list \in Seq(Slot), NEW o
  PROVE  SamePlaces(Mesh!Tried(list, o), list)
<1> DEFINE N == Len(list)
           new == Mesh!Tried(list, o)
           slot(i, b) == [object |-> list[i].object, node |-> list[i].node, healthy |-> b]
<1>1. N \in Nat /\ DOMAIN list = 1 .. N /\ \A i \in 1 .. N : list[i] \in Slot
  OBVIOUS
<1>2. DOMAIN new = 1 .. N
  BY <1>1, Zenon DEF Mesh!Tried
<1>3. new = [i \in 1 .. N |-> new[i]]
  BY <1>1, <1>2, Zenon DEF Mesh!Tried
<1>4. ASSUME NEW i \in 1 .. N
      PROVE  new[i] \in {list[i], slot(i, FALSE)}
  <2>1. new[i] \in {list[i], [list[i] EXCEPT !.healthy = FALSE]}
    BY <1>1, <1>4, Zenon DEF Mesh!Tried
  <2>2. [list[i] EXCEPT !.healthy = FALSE] = slot(i, FALSE)
    BY <1>1, <1>4, WithHealth, Zenon
  <2> QED
    BY <2>1, <2>2, Zenon
<1> HIDE DEF new
<1>5. ASSUME NEW i \in 1 .. N
      PROVE  /\ new[i] \in Slot /\ new[i].object = list[i].object
             /\ new[i].node = list[i].node
  <2>1. list[i] \in Slot
    BY <1>1, <1>5
  <2>2. slot(i, FALSE) \in Slot
    BY <2>1 DEF Slot
  <2>3. new[i] = list[i] \/ new[i] = slot(i, FALSE)
    BY <1>4, <1>5
  <2> QED
    BY <2>1, <2>2, <2>3
<1>6. new \in Seq(Slot) /\ Len(new) = N
  BY <1>1, <1>3, <1>5
<1> QED
  BY <1>1, <1>5, <1>6 DEF SamePlaces, new

LEMMA AuditedKeepsPlaces ==
  ASSUME NEW list \in Seq(Slot), NEW o
  PROVE  /\ SamePlaces(Mesh!Audited(list, o), list)
         /\ \A i \in DOMAIN list : list[i].object = o =>
              Mesh!Audited(list, o)[i].healthy = Mesh!Serves(list[i].node, o)
<1> DEFINE N == Len(list)
           new == Mesh!Audited(list, o)
           serves(i) == Mesh!Serves(list[i].node, o)
           slot(i, b) == [object |-> list[i].object, node |-> list[i].node, healthy |-> b]
<1>1. N \in Nat /\ DOMAIN list = 1 .. N /\ \A i \in 1 .. N : list[i] \in Slot
  OBVIOUS
<1>2. DOMAIN new = 1 .. N
  BY <1>1, Zenon DEF Mesh!Audited
<1>3. new = [i \in 1 .. N |-> new[i]]
  BY <1>1, <1>2, Zenon DEF Mesh!Audited
<1>4. ASSUME NEW i \in 1 .. N
      PROVE  new[i] = IF list[i].object = o THEN slot(i, serves(i)) ELSE list[i]
  <2>1. new[i] = IF list[i].object = o THEN [list[i] EXCEPT !.healthy = serves(i)] ELSE list[i]
    BY <1>1, <1>4, Zenon DEF Mesh!Audited
  <2>2. [list[i] EXCEPT !.healthy = serves(i)] = slot(i, serves(i))
    BY <1>1, <1>4, WithHealth, Zenon
  <2> QED
    BY <2>1, <2>2, Zenon
<1>5. \A i \in 1 .. N : serves(i) \in BOOLEAN
  BY DEF Mesh!Serves
<1> HIDE DEF new, serves
<1>6. ASSUME NEW i \in 1 .. N
      PROVE  /\ new[i] \in Slot /\ new[i].object = list[i].object
             /\ new[i].node = list[i].node
             /\ list[i].object = o => new[i].healthy = serves(i)
  <2>1. list[i] \in Slot /\ serves(i) \in BOOLEAN
    BY <1>1, <1>5, <1>6
  <2>2. slot(i, serves(i)) \in Slot
    BY <2>1 DEF Slot
  <2>3. CASE list[i].object = o
    <3>1. new[i] = slot(i, serves(i))
      BY <1>4, <1>6, <2>3
    <3> QED
      BY <2>2, <3>1
  <2>4. CASE list[i].object # o
    <3>1. new[i] = list[i]
      BY <1>4, <1>6, <2>4
    <3> QED
      BY <2>1, <2>4, <3>1
  <2> QED
    BY <2>3, <2>4
<1>7. new \in Seq(Slot) /\ Len(new) = N
  BY <1>1, <1>3, <1>6
<1>8. SamePlaces(new, list)
  BY <1>1, <1>6, <1>7 DEF SamePlaces
<1>9. \A i \in DOMAIN list : list[i].object = o => new[i].healthy = serves(i)
  BY <1>1, <1>6
<1> QED
  BY <1>8, <1>9 DEF new, serves

LEMMA PlaceAdds ==
  ASSUME NEW list \in Seq(Slot), NEW ns \in Seq(Mesh!Node), NEW o \in Blob
  PROVE  /\ Mesh!Place(list, ns, o) \in Seq(Slot)
         /\ \A i \in DOMAIN list : /\ i \in DOMAIN Mesh!Place(list, ns, o)
                                   /\ Mesh!Place(list, ns, o)[i] = list[i]
         /\ \A n \in Mesh!ToSet(ns) : \E i \in DOMAIN Mesh!Place(list, ns, o) :
              /\ Mesh!Place(list, ns, o)[i].object = o
              /\ Mesh!Place(list, ns, o)[i].node = n
<1> DEFINE more == [i \in DOMAIN ns |-> Mesh!PlacementOf(o, ns[i])]
<1>1. Len(ns) \in Nat /\ DOMAIN ns = 1 .. Len(ns) /\ Len(list) \in Nat
      /\ DOMAIN list = 1 .. Len(list)
  OBVIOUS
<1>2. \A i \in DOMAIN ns : /\ Mesh!PlacementOf(o, ns[i]) \in Slot
                           /\ Mesh!PlacementOf(o, ns[i]).object = o
                           /\ Mesh!PlacementOf(o, ns[i]).node = ns[i]
  BY DEF Mesh!PlacementOf, Slot
<1>3. more \in Seq(Slot) /\ Len(more) = Len(ns)
  BY <1>1, <1>2
<1>4. \A i \in DOMAIN ns : more[i].object = o /\ more[i].node = ns[i]
  BY <1>2
<1>5. Mesh!Place(list, ns, o) = list \o more
  BY DEF Mesh!Place
<1> HIDE DEF more
<1>6. /\ list \o more \in Seq(Slot) /\ Len(list \o more) = Len(list) + Len(ns)
      /\ \A i \in 1 .. Len(list) + Len(ns) :
           (list \o more)[i] = IF i <= Len(list) THEN list[i] ELSE more[i - Len(list)]
  <2>1. list \o more \in Seq(Slot) /\ Len(list \o more) = Len(list) + Len(more)
    BY <1>3
  <2>2. \A i \in 1 .. Len(list) + Len(more) :
          (list \o more)[i] = IF i <= Len(list) THEN list[i] ELSE more[i - Len(list)]
    BY <1>3
  <2> QED
    BY <1>3, <2>1, <2>2
<1>7. DOMAIN (list \o more) = 1 .. Len(list) + Len(ns)
  BY <1>6
<1>8. \A i \in DOMAIN list : /\ i \in DOMAIN (list \o more) /\ (list \o more)[i] = list[i]
  BY <1>1, <1>6, <1>7
<1>9. ASSUME NEW n \in Mesh!ToSet(ns)
      PROVE  \E i \in DOMAIN (list \o more) :
               (list \o more)[i].object = o /\ (list \o more)[i].node = n
  <2>1. PICK k \in 1 .. Len(ns) : ns[k] = n
    BY <1>1, <1>9 DEF Mesh!ToSet
  <2>2. Len(list) + k \in DOMAIN (list \o more) /\ (list \o more)[Len(list) + k] = more[k]
    BY <1>1, <1>6, <1>7, <2>1
  <2> QED
    BY <1>1, <1>4, <2>1, <2>2
<1> QED
  BY <1>5, <1>6, <1>8, <1>9

LEMMA SamePlacesList ==
  ASSUME NEW list, NEW was \in Seq(Slot), SamePlaces(list, was), NEW n, NEW o
  PROVE  Lists(list, n, o) <=> Lists(was, n, o)
<1>1. DOMAIN list = DOMAIN was
  BY DEF SamePlaces
<1> QED
  BY <1>1 DEF SamePlaces, Lists

LEMMA PutAllIs ==
  ASSUME MeshInv, NEW S, NEW o \in Blob, Mesh!PutAll(S, o)
  PROVE  /\ blob' \in [Mesh!Node -> [Blob -> {"none", "intact", "damaged"}]]
         /\ \A n \in Mesh!Node, p \in Blob : blob'[n][p] = "intact" =>
              blob[n][p] = "intact" \/ (p = o /\ n \in S)
BY DEF MeshInv, Mesh!PutAll

(***************************************************************************)
(* Storing copies and listing them.                                        *)
(***************************************************************************)
LEMMA StoringLists ==
  ASSUME MeshInv, NEW list, SamePlaces(list, placements), NEW ns \in Seq(Mesh!Node),
         NEW o \in Blob, Mesh!PutAll(Mesh!ToSet(ns), o),
         placements' = Mesh!Place(list, ns, o), UNCHANGED active
  PROVE  MeshInv'
<1>1. list \in Seq(Slot) /\ placements \in Seq(Slot)
  BY DEF SamePlaces, MeshInv
<1>2. placements' \in Seq(Slot)
  BY <1>1, PlaceAdds
<1>3. ASSUME NEW n \in Mesh!Node, NEW p \in Blob, blob'[n][p] = "intact"
      PROVE  Lists(placements', n, p)
  <2>1. CASE blob[n][p] = "intact"
    <3>1. Lists(list, n, p)
      BY <1>1, <2>1, SamePlacesList DEF MeshInv
    <3>2. PICK i \in DOMAIN list : list[i].object = p /\ list[i].node = n
      BY <3>1 DEF Lists
    <3>3. i \in DOMAIN placements' /\ placements'[i] = list[i]
      BY <1>1, PlaceAdds
    <3> QED
      BY <3>2, <3>3 DEF Lists
  <2>2. CASE p = o /\ n \in Mesh!ToSet(ns)
    <3>1. \E i \in DOMAIN Mesh!Place(list, ns, o) :
            /\ Mesh!Place(list, ns, o)[i].object = o
            /\ Mesh!Place(list, ns, o)[i].node = n
      <4>1. \A m \in Mesh!ToSet(ns) : \E i \in DOMAIN Mesh!Place(list, ns, o) :
              /\ Mesh!Place(list, ns, o)[i].object = o
              /\ Mesh!Place(list, ns, o)[i].node = m
        BY <1>1, PlaceAdds, Zenon
      <4> QED
        BY <2>2, <4>1, Zenon
    <3>2. \E i \in DOMAIN placements' :
            placements'[i].object = p /\ placements'[i].node = n
      BY <2>2, <3>1, Zenon
    <3> QED
      BY <3>2, Zenon DEF Lists
  <2> QED
    BY <1>3, <2>1, <2>2, PutAllIs
<1>4. blob' \in [Mesh!Node -> [Blob -> {"none", "intact", "damaged"}]]
  BY PutAllIs
<1> QED
  BY <1>2, <1>3, <1>4 DEF MeshInv

LEMMA RelistingKeeps ==
  ASSUME MeshInv, SamePlaces(placements', placements), UNCHANGED <<active, blob>>
  PROVE  MeshInv'
<1>1. placements \in Seq(Slot) /\ placements' \in Seq(Slot)
  BY DEF SamePlaces, MeshInv
<1>2. \A n, o : Lists(placements, n, o) => Lists(placements', n, o)
  BY <1>1, SamePlacesList
<1> QED
  BY <1>1, <1>2 DEF MeshInv

LEMMA ReplicateKeeps ==
  ASSUME Mesh!NodesAssumption, Mesh!TargetAssumption, MeshInv, NEW o \in Blob,
         Mesh!Replicate(o)
  PROVE  MeshInv'
<1> DEFINE ns == Mesh!Taken(Mesh!Independent, o, Target)
<1>1. MeshNodes \in Seq(Mesh!Node) /\ Target \in Nat
  BY DEF Mesh!NodesAssumption, Mesh!TargetAssumption, Mesh!Node
<1>2. Mesh!Independent \in Seq(Mesh!Node)
  BY <1>1, InOrderIsASeq DEF Mesh!Independent
<1>3. ns \in Seq(Mesh!Node)
  BY <1>1, <1>2, TakenIsASeq
<1>4. SamePlaces(placements, placements)
  BY DEF SamePlaces, MeshInv
<1>5. /\ Mesh!PutAll(Mesh!ToSet(ns), o) /\ placements' = Mesh!Place(placements, ns, o)
      /\ UNCHANGED active
  BY DEF Mesh!Replicate
<1> HIDE DEF ns
<1> QED
  BY <1>3, <1>4, <1>5, StoringLists

LEMMA RepairKeeps ==
  ASSUME Mesh!NodesAssumption, Mesh!TargetAssumption, MeshInv, NEW o \in Blob,
         Mesh!Repair(o)
  PROVE  MeshInv'
<1> DEFINE list    == Mesh!Tried(placements, o)
           healthy == Mesh!Candidates(list, o)
           places  == {k \in DOMAIN MeshNodes :
                         /\ MeshNodes[k] \in active
                         /\ \A i \in healthy : list[i].node # MeshNodes[k]}
           spare   == Mesh!InOrder(places)
           count   == Mesh!Cardinality(healthy)
           ns      == IF count >= Target THEN <<>>
                      ELSE Mesh!Taken(spare, o, Target - count)
<1>1. MeshNodes \in Seq(Mesh!Node) /\ Target \in Nat
  BY DEF Mesh!NodesAssumption, Mesh!TargetAssumption, Mesh!Node
<1>2. SamePlaces(list, placements)
  BY TriedKeepsPlaces DEF MeshInv
<1>3. \/ Mesh!PutAll(Mesh!ToSet(ns), o) /\ placements' = Mesh!Place(list, ns, o)
      \/ placements' = list /\ UNCHANGED blob
  BY DEF Mesh!Repair
<1>4. UNCHANGED active
  BY DEF Mesh!Repair
<1> HIDE DEF list
<1>5. count \in Nat
  <2>1. Len(list) \in Nat /\ healthy \in SUBSET (1 .. Len(list))
    BY <1>2 DEF SamePlaces, Mesh!Candidates
  <2> QED
    BY <2>1, Ranked, MeshCounted
<1> HIDE DEF healthy
<1>6. spare \in Seq(Mesh!Node)
  BY <1>1, InOrderIsASeq
<1> HIDE DEF spare, count
<1>7. ns \in Seq(Mesh!Node)
  <2>1. CASE count >= Target
    BY <2>1
  <2>2. CASE ~(count >= Target)
    <3>1. Target - count \in Nat
      BY <1>1, <1>5, <2>2
    <3> QED
      BY <1>6, <2>2, <3>1, TakenIsASeq
  <2> QED
    BY <2>1, <2>2
<1> HIDE DEF ns
<1> QED
  BY <1>2, <1>3, <1>4, <1>7, StoringLists, RelistingKeeps

LEMMA MeshInvariance ==
  ASSUME Mesh!NodesAssumption, Mesh!TargetAssumption
  PROVE  Mesh!Spec => []MeshInv
<1>1. Mesh!Init => MeshInv
  BY DEF Mesh!Init, MeshInv
<1>2. ASSUME MeshInv, Mesh!Next
      PROVE  MeshInv'
  <2>1. ASSUME NEW n \in Mesh!Node, Mesh!SetActive(n)
        PROVE  MeshInv'
    BY <1>2, <2>1 DEF MeshInv, Mesh!SetActive
  <2>2. ASSUME NEW n \in Mesh!Node, NEW o \in Blob, Mesh!Damage(n, o)
        PROVE  MeshInv'
    BY <1>2, <2>2 DEF MeshInv, Mesh!Damage
  <2>3. ASSUME NEW o \in Blob, Mesh!Restore(o) \/ Mesh!AuditAll(o)
        PROVE  MeshInv'
    <3>1. SamePlaces(placements', placements)
      BY <1>2, <2>3, TriedKeepsPlaces, AuditedKeepsPlaces
      DEF MeshInv, Mesh!Restore, Mesh!AuditAll
    <3>2. UNCHANGED <<active, blob>>
      BY <2>3 DEF Mesh!Restore, Mesh!AuditAll
    <3> QED
      BY <1>2, <3>1, <3>2, RelistingKeeps
  <2> QED
    BY <1>2, <2>1, <2>2, <2>3, ReplicateKeeps, RepairKeeps DEF Mesh!Next
<1>3. MeshInv /\ UNCHANGED Mesh!vars => MeshInv'
  BY DEF MeshInv, Mesh!vars
<1> QED
  BY <1>1, <1>2, <1>3, PTL DEF Mesh!Spec

(***************************************************************************)
(* Once audit_all has looked again, restore finds every object of which an *)
(* active node has an intact copy, whatever met which outage before.       *)
(***************************************************************************)
THEOREM CopiesAreListed == Mesh!Spec => []OutagesHideNothing
<1>1. ASSUME MeshInv, NEW o \in Blob
      PROVE  Mesh!Restorable(Mesh!Audited(placements, o), o)
               <=> \E n \in Mesh!Node : Mesh!Serves(n, o)
  <2> DEFINE list == Mesh!Audited(placements, o)
  <2>1. /\ placements \in Seq(Slot) /\ list \in Seq(Slot)
        /\ DOMAIN list = DOMAIN placements
        /\ \A i \in DOMAIN list : /\ list[i].object = placements[i].object
                                  /\ list[i].node = placements[i].node
                                  /\ list[i].object = o =>
                                       list[i].healthy = Mesh!Serves(list[i].node, o)
    <3>1. placements \in Seq(Slot)
      BY <1>1 DEF MeshInv
    <3>2. SamePlaces(list, placements)
      BY <3>1, AuditedKeepsPlaces
    <3>3. \A i \in DOMAIN placements : placements[i].object = o =>
            list[i].healthy = Mesh!Serves(placements[i].node, o)
      BY <3>1, AuditedKeepsPlaces
    <3>4. list \in Seq(Slot) /\ DOMAIN list = DOMAIN placements
      BY <3>1, <3>2 DEF SamePlaces
    <3> QED
      BY <3>1, <3>2, <3>3, <3>4 DEF SamePlaces
  <2> HIDE DEF list
  <2>2. Mesh!Restorable(list, o) <=>
          \E i \in DOMAIN list : list[i].object = o /\ Mesh!Serves(list[i].node, o)
    BY <2>1 DEF Mesh!Restorable, Mesh!Answering, Mesh!Candidates, Mesh!Serves
  <2>3. ASSUME NEW n \in Mesh!Node, Mesh!Serves(n, o)
        PROVE  \E i \in DOMAIN list : list[i].object = o /\ Mesh!Serves(list[i].node, o)
    <3>1. Lists(placements, n, o)
      BY <1>1, <2>3 DEF MeshInv, Mesh!Serves
    <3> QED
      BY <2>1, <2>3, <3>1 DEF Lists
  <2>4. \A n : Mesh!Serves(n, o) => n \in Mesh!Node
    BY <1>1 DEF MeshInv, Mesh!Serves
  <2> QED
    BY <2>2, <2>3, <2>4 DEF list
<1>2. MeshInv => OutagesHideNothing
  BY <1>1 DEF OutagesHideNothing, Mesh!OutagesHideNothing
<1> QED
  BY <1>2, MeshAssumption, MeshInvariance, PTL

-----------------------------------------------------------------------------
(***************************************************************************)
(* Commons: what a receipt can be worth is kept with the record it tells   *)
(* of, and not with the slots, whose records are replaced.                 *)
(***************************************************************************)
Priced(m) ==
  /\ Market!WellFormed(m)
  /\ m.price \in 0 .. MaxAmount
  /\ Len(m.splits) \in Nat /\ DOMAIN m.splits = 1 .. Len(m.splits)
  /\ \A k \in DOMAIN m.splits : m.splits[k].points \in Nat

Counts ==
  /\ now \in 0 .. MaxTime /\ records \in 0 .. MaxRecords
  /\ invocations \in 0 .. Limit
  /\ spell # null => spell.limit = Limit

Promises ==
  /\ manifest # null => Priced(manifest)
  /\ execution # null => Priced(execution.capability)
  /\ instruction # null => /\ Market!Conserves(instruction, instruction.capability)
                           /\ Market!FairlyDivided(instruction)

Answered ==
  receipt # null =>
    /\ Market!Answers(receipt, receipt.instruction)
    /\ Market!FairlyDivided(receipt.instruction)
    /\ receipt.operator \in Trusted /\ receipt.status = "settled"
         => receipt.instruction \in paid

Delivered ==
  /\ imported = [c \in Community |-> imported[c]]
  /\ migration # null =>
       /\ migration.target \in Community
       /\ migration.bundle.items \subseteq imported[migration.target]

MarketInv == Counts /\ Promises /\ Answered /\ Delivered

(***************************************************************************)
(* Shares are rounded down, also those that saturate.                      *)
(***************************************************************************)
LEMMA RoundedDown ==
  ASSUME NEW a \in Nat, NEW w \in Nat \ {0}
  PROVE  a \div w \in Nat /\ (a \div w) * w <= a
<1>1. a \div w \in Int /\ a = w * (a \div w) + (a % w) /\ a % w \in 0 .. w - 1
  OBVIOUS
<1> QED
  BY <1>1

LEMMA ScaledRoundsDown ==
  ASSUME Market!AmountAssumption, NEW price \in Nat, NEW points \in Nat
  PROVE  Market!Scaled(price, points) * Whole <= price * points
<1> DEFINE a == IF price * points > MaxAmount THEN MaxAmount ELSE price * points
<1>1. price * points \in Nat /\ Whole \in Nat \ {0} /\ MaxAmount \in Nat
  BY DEF Market!AmountAssumption
<1>2. a \in Nat /\ a <= price * points
  BY <1>1
<1>3. Market!Scaled(price, points) = a \div Whole
  BY DEF Market!Scaled
<1> HIDE DEF a
<1>4. a \div Whole \in Nat /\ (a \div Whole) * Whole <= a
  BY <1>1, <1>2, RoundedDown
<1>5. \A x, y, z \in Nat : x <= y /\ y <= z => x <= z
  OBVIOUS
<1>6. (a \div Whole) * Whole \in Nat
  BY <1>1, <1>4
<1> QED
  BY <1>1, <1>2, <1>3, <1>4, <1>5, <1>6

(***************************************************************************)
(* What the payer signs divides the price as the manifest does.            *)
(***************************************************************************)
LEMMA AllocationsAreFair ==
  ASSUME Market!AmountAssumption, NEW i, Priced(i.capability),
         i.allocations = Market!Allocations(i.capability)
  PROVE  Market!FairlyDivided(i)
<1> DEFINE m == i.capability
           n == Len(m.splits)
           list == Market!Allocations(m)
<1>1. n \in Nat /\ DOMAIN m.splits = 1 .. n /\ m.price \in Nat
      /\ \A k \in 1 .. n : m.splits[k].points \in Nat
  BY DEF Priced, Market!AmountAssumption
<1>2. /\ DOMAIN list = 1 .. n
      /\ \A k \in 1 .. n : k # n =>
           list[k].amount = Market!Scaled(m.price, m.splits[k].points)
  BY DEF Market!Allocations
<1>3. list = [k \in 1 .. n |-> list[k]]
  BY DEF Market!Allocations
<1> HIDE DEF list
<1>4. Len(list) = n
  BY <1>1, <1>3
<1>5. ASSUME NEW k \in 1 .. Len(list) - 1
      PROVE  list[k].amount * Whole <= m.price * m.splits[k].points
  <2>1. k \in 1 .. n /\ k # n
    BY <1>1, <1>4
  <2>2. m.splits[k].points \in Nat
    BY <1>1, <2>1
  <2> QED
    BY <1>1, <1>2, <2>1, <2>2, ScaledRoundsDown
<1> QED
  BY <1>5 DEF Market!FairlyDivided, list

LEMMA MarketInitKeeps ==
  ASSUME Market!LimitAssumption, Market!Init
  PROVE  MarketInv
BY DEF Market!LimitAssumption, Market!Init, MarketInv, Counts, Promises, Answered, Delivered

(***************************************************************************)
(* The offer's manifest is priced as the offer is.                         *)
(***************************************************************************)
LEMMA IssueManifestKeeps ==
  ASSUME Market!AmountAssumption, Market!LimitAssumption, MarketInv, NEW offered \in Offer,
         Market!IssueManifest(offered)
  PROVE  MarketInv'
<1>1. PICK place \in Market!Bijection(DOMAIN offered.splits, DOMAIN offered.splits) :
        LET m == [price |-> offered.price,
                  splits |-> [k \in DOMAIN offered.splits |-> offered.splits[place[k]]],
                  issued |-> now, expires |-> now + RecordLife]
        IN  /\ Market!Issue /\ Market!WellFormed(m)
            /\ manifest' = m
            /\ UNCHANGED <<now, spell, invocations, Market!work, Market!money, Market!export>>
  BY DEF Market!IssueManifest
<1>2. offered.price \in 0 .. MaxAmount
      /\ offered.splits \in Seq([recipient : Nat, role : Nat, points : Nat])
  BY DEF Market!AmountAssumption
<1>3. \A k \in DOMAIN offered.splits : place[k] \in DOMAIN offered.splits
  BY DEF Market!Bijection, Market!Injection
<1>4. /\ manifest'.price = offered.price
      /\ manifest'.splits = [k \in DOMAIN offered.splits |-> offered.splits[place[k]]]
      /\ Market!WellFormed(manifest')
      /\ Market!Issue
      /\ UNCHANGED <<now, spell, invocations, Market!work, Market!money, Market!export>>
  BY <1>1
<1>5. PICK m : m = manifest'
  OBVIOUS
<1>6. Priced(m)
  <2> DEFINE s == offered.splits
             n == Len(s)
  <2> DEFINE Cut == [recipient : Nat, role : Nat, points : Nat]
  <2>1. n \in Nat /\ DOMAIN s = 1 .. n /\ \A k \in 1 .. n : s[k].points \in Nat
    <3>1. s \in Seq(Cut) /\ \A c \in Cut : c.points \in Nat
      BY <1>2
    <3> HIDE DEF Cut, s
    <3>2. n \in Nat /\ DOMAIN s = 1 .. n /\ \A k \in 1 .. n : s[k] \in Cut
      BY <3>1
    <3> QED
      BY <3>1, <3>2
  <2>2. m.splits = [k \in 1 .. n |-> s[place[k]]]
    BY <1>4, <1>5, <2>1
  <2>3. Len(m.splits) = n /\ DOMAIN m.splits = 1 .. n
    BY <2>1, <2>2
  <2>4. \A k \in 1 .. n : m.splits[k].points \in Nat
    BY <1>3, <2>1, <2>2
  <2> QED
    BY <1>2, <1>4, <1>5, <2>1, <2>3, <2>4 DEF Priced
<1>7. Counts'
  BY <1>4 DEF Market!Issue, Market!LimitAssumption, MarketInv, Counts
<1>8. Promises'
  BY <1>4, <1>5, <1>6 DEF Market!work, Market!money, MarketInv, Promises
<1>9. Answered' /\ Delivered'
  BY <1>4 DEF Market!money, Market!export, MarketInv, Answered, Delivered
<1> QED
  BY <1>7, <1>8, <1>9 DEF MarketInv

LEMMA SpellsKeep ==
  ASSUME Market!LimitAssumption, MarketInv, NEW terms, NEW runtime, NEW approved,
         Market!Tick \/ Market!IssueSpell(terms) \/ Market!Execute(runtime, approved)
           \/ Market!IssueEvidence
  PROVE  MarketInv'
<1> USE DEF Market!offer, Market!work, Market!money, Market!export, Market!Issue,
            MarketInv, Counts, Promises, Answered, Delivered, Market!LimitAssumption
<1>1. CASE Market!Tick
  BY <1>1 DEF Market!Tick
<1>2. CASE Market!IssueSpell(terms)
  BY <1>2 DEF Market!IssueSpell
<1>3. CASE Market!Execute(runtime, approved)
  BY <1>3 DEF Market!Execute, Market!Authorizes
<1>4. CASE Market!IssueEvidence
  BY <1>4 DEF Market!IssueEvidence
<1> QED
  BY <1>1, <1>2, <1>3, <1>4

LEMMA IssueInstructionKeeps ==
  ASSUME Market!AmountAssumption, Market!LimitAssumption, MarketInv,
         Market!IssueInstruction
  PROVE  MarketInv'
<1>1. /\ Market!Issue /\ manifest # null
      /\ Market!Conserves(instruction', manifest)
      /\ instruction'.capability = manifest
      /\ instruction'.allocations = Market!Allocations(manifest)
      /\ UNCHANGED <<now, Market!offer, Market!work, receipt, paid, Market!export>>
  BY DEF Market!IssueInstruction
<1>2. Priced(manifest)
  BY <1>1 DEF MarketInv, Promises
<1>3. Market!FairlyDivided(instruction')
  BY <1>1, <1>2, AllocationsAreFair
<1>4. Counts'
  BY <1>1 DEF Market!Issue, Market!LimitAssumption, Market!offer, MarketInv, Counts
<1>5. Promises'
  BY <1>1, <1>3 DEF Market!offer, Market!work, MarketInv, Promises
<1>6. Answered' /\ Delivered'
  BY <1>1 DEF Market!export, MarketInv, Answered, Delivered
<1> QED
  BY <1>4, <1>5, <1>6 DEF MarketInv

(***************************************************************************)
(* A trusted operator has paid what it answers with "settled".             *)
(***************************************************************************)
LEMMA IssueReceiptKeeps ==
  ASSUME Market!LimitAssumption, MarketInv, NEW o, NEW status,
         Market!IssueReceipt(o, status)
  PROVE  MarketInv'
<1>1. /\ Market!Issue /\ instruction # null
      /\ Market!Answers(receipt', instruction)
      /\ receipt'.instruction = instruction
      /\ receipt'.operator = o /\ receipt'.status = status
      /\ paid' = IF o \in Trusted /\ status = "settled"
                 THEN paid \cup {instruction} ELSE paid
      /\ UNCHANGED <<now, Market!offer, Market!work, instruction, Market!export>>
  BY DEF Market!IssueReceipt
<1>2. Counts'
  BY <1>1 DEF Market!Issue, Market!LimitAssumption, Market!offer, MarketInv, Counts
<1>3. Promises' /\ Delivered'
  BY <1>1 DEF Market!offer, Market!work, Market!export, MarketInv, Promises, Delivered
<1>4. Answered'
  BY <1>1 DEF MarketInv, Promises, Answered
<1> QED
  BY <1>2, <1>3, <1>4 DEF MarketInv

LEMMA FederationKeeps ==
  ASSUME Market!LimitAssumption, MarketInv, NEW c,
         Market!Export(c) \/ (c \in Community /\ Market!Migrate(c))
  PROVE  MarketInv'
<1>1. CASE Market!Export(c)
  BY <1>1
  DEF Market!Export, Market!Issue, Market!LimitAssumption, Market!offer, Market!work,
      Market!money, MarketInv, Counts, Promises, Answered, Delivered
<1>2. CASE c \in Community /\ Market!Migrate(c)
  <2>1. /\ Market!Issue
        /\ imported' = [imported EXCEPT ![c] = @ \cup bundle.items]
        /\ migration'.target = c /\ migration'.bundle = bundle
        /\ UNCHANGED <<now, Market!offer, Market!work, Market!money, bundle>>
    BY <1>2 DEF Market!Migrate
  <2>2. \A d \in Community :
          imported'[d] = IF d = c THEN imported[d] \cup bundle.items ELSE imported[d]
    BY <2>1 DEF MarketInv, Delivered
  <2>3. imported' = [d \in Community |-> imported'[d]]
    BY <2>1 DEF MarketInv, Delivered
  <2>4. Delivered'
    BY <1>2, <2>1, <2>2, <2>3 DEF Delivered
  <2>5. Counts'
    BY <2>1 DEF Market!Issue, Market!LimitAssumption, Market!offer, MarketInv, Counts
  <2>6. Promises' /\ Answered'
    BY <2>1 DEF Market!offer, Market!work, Market!money, MarketInv, Promises, Answered
  <2> QED
    BY <2>4, <2>5, <2>6 DEF MarketInv
<1> QED
  BY <1>1, <1>2

LEMMA MarketInvariance ==
  ASSUME Market!AmountAssumption, Market!LimitAssumption
  PROVE  Market!Spec => []MarketInv
<1>1. MarketInv /\ UNCHANGED Market!vars => MarketInv'
  BY DEF Market!vars, Market!offer, Market!work, Market!money, Market!export,
         MarketInv, Counts, Promises, Answered, Delivered
<1>2. ASSUME MarketInv, Market!Next
      PROVE  MarketInv'
  <2>1. ASSUME NEW terms, Market!IssueSpell(terms)
        PROVE  MarketInv'
    BY <1>2, <2>1, SpellsKeep
  <2>2. ASSUME NEW runtime, NEW approved, Market!Execute(runtime, approved)
        PROVE  MarketInv'
    BY <1>2, <2>2, SpellsKeep
  <2>3. CASE Market!Tick \/ Market!IssueEvidence
    BY <1>2, <2>3, SpellsKeep
  <2>4. ASSUME NEW c, Market!Export(c) \/ (c \in Community /\ Market!Migrate(c))
        PROVE  MarketInv'
    BY <1>2, <2>4, FederationKeeps
  <2>5. ASSUME NEW o, NEW status, Market!IssueReceipt(o, status)
        PROVE  MarketInv'
    BY <1>2, <2>5, IssueReceiptKeeps
  <2> QED
    BY <1>2, <2>1, <2>2, <2>3, <2>4, <2>5, IssueManifestKeeps, IssueInstructionKeeps
    DEF Market!Next
<1> QED
  BY <1>1, <1>2, MarketInitKeeps, PTL DEF Market!Spec

(***************************************************************************)
(* A settled receipt that verifies is of an instruction that was paid, and *)
(* a migration that verifies of a bundle that was imported as a whole,     *)
(* whichever records have been issued anew since.                          *)
(***************************************************************************)
THEOREM ReceiptsHold == Market!Spec => []ReceiptsAreEarned
<1>1. MarketInv => ReceiptsAreEarned
  BY DEF MarketInv, Promises, Answered, Delivered, ReceiptsAreEarned,
         Market!ReceiptsAreEarned, Market!ReceiptVerifies, Market!MigrationVerifies,
         Market!Answers
<1> QED
  BY <1>1, MarketAssumption, MarketInvariance, PTL

-----------------------------------------------------------------------------
(***************************************************************************)
(* Side by side, each machine does what it does alone.                     *)
(***************************************************************************)
LEMMA PartsAreMachines ==
  PartSpec => Spec /\ Mesh!Spec /\ Control!Spec /\ Market!Spec /\ Demo!Spec
<1>1. PartInit => Init /\ Mesh!Init /\ Control!Init /\ Market!Init /\ Demo!Init
  BY DEF PartInit
<1> DEFINE all == <<part, vars, meshVars, controlVars, commonsVars, demoVars>>
<1> USE DEF PartNext, LedgerNext, MeshNext, ControlNext, MarketNext, DemoNext
<1>2. [PartNext]_all => [Next]_vars
  OBVIOUS
<1>3. [PartNext]_all => [Mesh!Next]_(Mesh!vars)
  BY DEF meshVars, Mesh!vars
<1>4. [PartNext]_all => [Control!Next]_(Control!vars)
  BY DEF controlVars, Control!vars, Control!records, Control!gate
<1>5. [PartNext]_all => [Market!Next]_(Market!vars)
  BY DEF commonsVars, Market!vars, Market!offer, Market!work, Market!money, Market!export
<1>6. [PartNext]_all => [Demo!Next]_(Demo!vars)
  BY DEF demoVars, Demo!vars
<1> QED
  BY <1>1, <1>2, <1>3, <1>4, <1>5, <1>6, PTL
  DEF PartSpec, Spec, Mesh!Spec, Control!Spec, Market!Spec, Demo!Spec

(***************************************************************************)
(* The tables, maps, lists and slots of all five keep their shape.         *)
(***************************************************************************)
THEOREM PartsAreTyped == PartSpec => []PartsOK
<1>1. Spec => []TypeOK
  <2>1. IInv => TypeOK
    BY LedgerIsTyped
  <2> QED
    BY <2>1, Invariance, PTL
<1>2. Mesh!Spec => []Mesh!TypeOK
  <2>1. MeshInv => Mesh!TypeOK
    BY DEF MeshInv, Slot, Mesh!TypeOK
  <2> QED
    BY <2>1, MeshAssumption, MeshInvariance, PTL
<1>3. Control!Spec => []Control!TypeOK
  <2>1. ControlInv /\ ControlShape => Control!TypeOK
    BY ControlIsTyped
  <2> QED
    BY <2>1, ControlAssumption, ControlInvariance, ControlShapes, PTL
<1>4. Market!Spec => []Market!TypeOK
  <2>1. MarketInv => Market!TypeOK
    BY DEF MarketInv, Counts, Promises, Answered, Priced, Market!TypeOK
  <2> QED
    BY <2>1, MarketAssumption, MarketInvariance, PTL
<1>5. Demo!Spec => []Demo!TypeOK
  <2>1. DemoInv => Demo!TypeOK
    BY DemoIsTyped DEF DemoInv
  <2> QED
    BY <2>1, DemoAssumption, DemoInvariance, PTL
<1>6. TypeOK /\ Mesh!TypeOK /\ Control!TypeOK /\ Market!TypeOK /\ Demo!TypeOK => PartsOK
  BY DEF PartsOK
<1> QED
  BY <1>1, <1>2, <1>3, <1>4, <1>5, <1>6, PartsAreMachines, PTL

(***************************************************************************)
(* So what holds of each alone holds of the five together.                 *)
(***************************************************************************)
THEOREM PartsHold ==
  PartSpec => /\ [](RecordsAudited /\ AnchorsMatchTheChain /\ OutagesHideNothing
                      /\ TrailTellsAll /\ ReceiptsAreEarned /\ NothingLeftBehind)
              /\ PublishedStays
BY PartsAreMachines, TrailIsTheRecord, AnchorsAreRoots, RecordsStay, CopiesAreListed,
   TrailOfTheCommunity, ReceiptsHold, NothingIsLeft, PTL
=============================================================================
