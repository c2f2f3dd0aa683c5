------------------------ MODULE CatalogPointerProof ------------------------
(***************************************************************************)
(* For every set of requests, members, vaults and communities: the audit   *)
(* chains verify, the granted publications of a vault form one chain whose *)
(* end is stored, and the handlers implement PublishedPointer.             *)
(***************************************************************************)
EXTENDS CatalogPointer, TLAPS

(***************************************************************************)
(* Audit chains: what every handler that stores a row needs.               *)
(***************************************************************************)
\* A chain that verifies has its last row as head: the next number is its length.
LEMMA LatestIsLast ==
  ASSUME NEW B, NEW rows \in Seq(Rows(B)), VerifyChain(rows), rows # <<>>
  PROVE  LatestRow(rows) = rows[Len(rows)] /\ LatestRow(rows).sequence = Len(rows) - 1
<1>1. \A i \in DOMAIN rows : rows[i].sequence = i - 1
  BY DEF VerifyChain, AuditRow
<1>2. Len(rows) \in DOMAIN rows /\ \A i \in DOMAIN rows : i \in 1..Len(rows)
  OBVIOUS
<1>3. IsLatest(rows, Len(rows))
  BY <1>1, <1>2 DEF IsLatest
<1>4. \A i : IsLatest(rows, i) => i = Len(rows)
  BY <1>1, <1>2 DEF IsLatest
<1>5. (CHOOSE i \in DOMAIN rows : IsLatest(rows, i)) = Len(rows)
  BY <1>2, <1>3, <1>4
<1>6. QED
  BY <1>1, <1>2, <1>5 DEF LatestRow

\* The row prepareAuditEvent builds is a row of the table, and links to the chain.
LEMMA PreparedLinks ==
  ASSUME NEW B, NEW rows \in Seq(Rows(B)), VerifyChain(rows), NEW body \in B
  PROVE  /\ PrepareAuditEvent(rows, body) \in Rows(B)
         /\ LinksTo(PrepareAuditEvent(rows, body), rows)
         /\ PrepareAuditEvent(rows, body).sequence = Len(rows)
         /\ PrepareAuditEvent(rows, body).body = body
<1>1. CASE rows = <<>>
  BY <1>1 DEF PrepareAuditEvent, AuditRow, LinksTo, HashBefore, Genesis,
              Rows, Hashes, EventHash
<1>2. CASE rows # <<>>
  <2>1. /\ LatestRow(rows) = rows[Len(rows)]
        /\ LatestRow(rows).sequence = Len(rows) - 1
    BY <1>2, LatestIsLast
  <2>2. rows[Len(rows)] \in Rows(B) /\ Len(rows) \in Nat /\ Len(rows) # 0
    BY <1>2
  <2>3. PrepareAuditEvent(rows, body) =
          AuditRow(Len(rows), body, rows[Len(rows)].hash)
    BY <1>2, <2>1, <2>2 DEF PrepareAuditEvent
  <2>4. rows[Len(rows)].hash \in Hashes(B)
    BY <2>2 DEF Rows
  <2>5. AuditRow(Len(rows), body, rows[Len(rows)].hash) \in Rows(B)
    BY <2>2, <2>4 DEF AuditRow, Rows, EventHash, Hashes
  <2>6. QED
    BY <2>2, <2>3, <2>5 DEF LinksTo, AuditRow, HashBefore
<1>3. QED
  BY <1>1, <1>2

\* A linked row with the next number extends the chain.
LEMMA AppendLinked ==
  ASSUME NEW B, NEW rows \in Seq(Rows(B)), VerifyChain(rows),
         NEW row \in Rows(B), LinksTo(row, rows), row.sequence = Len(rows)
  PROVE  VerifyChain(Append(rows, row))
<1>1. Len(rows) \in Nat /\ DOMAIN rows = 1..Len(rows)
  OBVIOUS
<1>2. ASSUME NEW i \in DOMAIN Append(rows, row)
      PROVE  Append(rows, row)[i] =
               AuditRow(i - 1, Append(rows, row)[i].body,
                        HashBefore(Append(rows, row), i - 1))
  <2>1. CASE i \in DOMAIN rows
    <3>1. Append(rows, row)[i] = rows[i]
      BY <2>1
    <3>2. HashBefore(Append(rows, row), i - 1) = HashBefore(rows, i - 1)
      BY <1>1, <2>1 DEF HashBefore
    <3>3. QED
      BY <2>1, <3>1, <3>2 DEF VerifyChain
  <2>2. CASE i = Len(rows) + 1
    <3>1. Append(rows, row)[i] = row /\ i - 1 = row.sequence
      BY <1>1, <2>2
    <3>2. i - 1 = 0 \/ i - 1 \in DOMAIN rows
      BY <1>1, <2>2
    <3>3. HashBefore(Append(rows, row), i - 1) = HashBefore(rows, i - 1)
      BY <1>1, <3>2 DEF HashBefore
    <3>4. QED
      BY <3>1, <3>3 DEF LinksTo
  <2>3. QED
    BY <1>1, <2>1, <2>2
<1>3. QED
  BY <1>2 DEF VerifyChain

\* A linked row whose number is free has the next number, however old its read.
LEMMA InsertExtends ==
  ASSUME NEW B, NEW rows \in Seq(Rows(B)), VerifyChain(rows),
         NEW row \in Rows(B), LinksTo(row, rows), ~InsertConflicts(rows, row)
  PROVE  VerifyChain(Append(rows, row))
<1>1. \A i \in DOMAIN rows : rows[i].sequence = i - 1
  BY DEF VerifyChain, AuditRow
<1>2. row.sequence \in Nat /\ Len(rows) \in Nat /\ DOMAIN rows = 1..Len(rows)
  BY DEF Rows
<1>3. row.sequence = Len(rows)
  <2>1. SUFFICES ASSUME row.sequence < Len(rows) PROVE FALSE
    BY <1>2 DEF LinksTo
  <2>2. row.sequence + 1 \in DOMAIN rows
    BY <1>2, <2>1
  <2>3. rows[row.sequence + 1].sequence = row.sequence
    BY <1>1, <1>2, <2>2
  <2>4. QED
    BY <2>2, <2>3 DEF InsertConflicts
<1>4. QED
  BY <1>3, AppendLinked

\* A row keeps its link, and a stored row its place, when the chain grows.
LEMMA LinksStay ==
  ASSUME NEW B, NEW rows \in Seq(Rows(B)), NEW new \in Rows(B),
         NEW row \in Rows(B), LinksTo(row, rows)
  PROVE  LinksTo(row, Append(rows, new))
<1>1. row.sequence \in Nat /\ Len(rows) \in Nat /\ row.sequence <= Len(rows)
  BY DEF Rows, LinksTo
<1>2. HashBefore(Append(rows, new), row.sequence) = HashBefore(rows, row.sequence)
  BY <1>1 DEF HashBefore
<1>3. QED
  BY <1>1, <1>2 DEF LinksTo

-----------------------------------------------------------------------------
(***************************************************************************)
(* The inductive invariant.                                                *)
(***************************************************************************)
IInv ==
  /\ TypeOK
  /\ ReadsStayLinked
  /\ ChainsVerify
  /\ GrantsFormOneChain
  /\ PointerIsLastGrant
  /\ GrantsAudited

\* What the invariant says about a handler whose batch is next.
LEMMA CommitFacts ==
  ASSUME IInv, NEW r \in Request, pc[r] = "commit"
  PROVE  /\ put[r] \in Item /\ CommunityFor(r) \in Community
         /\ events[CommunityFor(r)] \in Seq(Row)
         /\ prepared[r] \in Row
         /\ Extends(seen[r], put[r])
         /\ VerifyChain(events[CommunityFor(r)])
         /\ LinksTo(prepared[r], events[CommunityFor(r)])
<1>1. put[r] \in Item /\ prepared[r] \in Row
  BY DEF IInv, TypeOK
<1>2. CommunityFor(r) \in Community
  BY <1>1, CommunityAssumption DEF CommunityFor, Item
<1>3. events[CommunityFor(r)] \in Seq(Row)
  BY <1>2 DEF IInv, TypeOK
<1>4. QED
  BY <1>1, <1>2, <1>3 DEF IInv, ReadsStayLinked, ChainsVerify

\* The stored audit row extends its community's chain; all handlers' reads stay good.
LEMMA AuditRowStored ==
  ASSUME IInv, NEW r \in Request, pc[r] = "commit", ~Throws(r),
         InsertAudit(r), UNCHANGED <<put, seen, prepared>>,
         NEW p \in {"ok", "conflict"}, pc' = [pc EXCEPT ![r] = p]
  PROVE  /\ events' \in [Community -> Seq(Row)]
         /\ ChainsVerify'
         /\ ReadsStayLinked'
         /\ \A c \in Community : \A i \in DOMAIN events[c] :
              i \in DOMAIN events'[c] /\ events'[c][i] = events[c][i]
         /\ \E i \in DOMAIN events'[CommunityFor(r)] :
              events'[CommunityFor(r)][i] = prepared[r]
         /\ \A i \in DOMAIN events[CommunityFor(r)] :
              events[CommunityFor(r)][i] # prepared[r]
<1> DEFINE c0 == CommunityFor(r)
           rows == events[c0]
           row == prepared[r]
<1>1. /\ c0 \in Community /\ rows \in Seq(Row) /\ row \in Row
      /\ Extends(seen[r], put[r])
      /\ VerifyChain(rows) /\ LinksTo(row, rows) /\ ~InsertConflicts(rows, row)
  BY CommitFacts DEF Throws, AuditThrows
<1>2. events \in [Community -> Seq(Row)] /\ pc \in [Request -> Pc]
  BY DEF IInv, TypeOK
<1>3. events' = [events EXCEPT ![c0] = Append(rows, row)]
  BY <1>1, <1>2 DEF InsertAudit
<1>4. VerifyChain(Append(rows, row))
  BY <1>1, InsertExtends DEF Row
<1>5. events' \in [Community -> Seq(Row)]
  BY <1>1, <1>2, <1>3
<1>6. ChainsVerify'
  BY <1>1, <1>2, <1>3, <1>4 DEF IInv, ChainsVerify
<1>7. ReadsStayLinked'
  <2>1. ASSUME NEW s \in Request, pc'[s] \in {"prepare", "commit", "ok"}
        PROVE  Extends(seen'[s], put'[s])
    BY <1>1, <1>2, <2>1 DEF IInv, ReadsStayLinked, Extends
  <2>2. ASSUME NEW s \in Request, pc'[s] = "commit"
        PROVE  LinksTo(prepared[s], events'[CommunityFor(s)])
    <3>1. pc[s] = "commit"
      BY <1>2, <2>2
    <3>2. /\ CommunityFor(s) \in Community /\ prepared[s] \in Row
          /\ LinksTo(prepared[s], events[CommunityFor(s)])
      BY <3>1, CommitFacts
    <3>3. CASE CommunityFor(s) = c0
      <4>1. LinksTo(prepared[s], Append(rows, row))
        BY <1>1, <3>2, <3>3, LinksStay DEF Row
      <4>2. QED
        BY <1>2, <1>3, <1>1, <3>3, <4>1
    <3>4. CASE CommunityFor(s) # c0
      BY <1>2, <1>3, <3>2, <3>4
    <3>5. QED
      BY <3>3, <3>4
  <2>3. QED
    BY <2>1, <2>2 DEF ReadsStayLinked, CommunityFor
<1>8. \A c \in Community : \A i \in DOMAIN events[c] :
        i \in DOMAIN events'[c] /\ events'[c][i] = events[c][i]
  BY <1>1, <1>2, <1>3
<1>9. \E i \in DOMAIN events'[c0] : events'[c0][i] = row
  <2>1. events'[c0] = Append(rows, row)
    BY <1>1, <1>2, <1>3
  <2>2. Len(rows) + 1 \in DOMAIN Append(rows, row)
        /\ Append(rows, row)[Len(rows) + 1] = row
    BY <1>1
  <2>3. QED
    BY <2>1, <2>2
<1>10. \A i \in DOMAIN rows : rows[i] # row
  BY <1>1 DEF InsertConflicts
<1>11. QED
  BY <1>5, <1>6, <1>7, <1>8, <1>9, <1>10
-----------------------------------------------------------------------------
LEMMA InitEstablishes == Init => IInv
<1> SUFFICES ASSUME Init PROVE IInv
  OBVIOUS
<1>1. Granted = {}
  BY DEF Init, Granted
<1>2. TypeOK
  BY DEF Init, TypeOK, Pc
<1>3. ReadsStayLinked /\ ChainsVerify
  BY DEF Init, ReadsStayLinked, ChainsVerify, VerifyChain
<1>4. GrantsFormOneChain /\ GrantsAudited
  BY <1>1 DEF GrantsFormOneChain, GrantsAudited
<1>5. PointerIsLastGrant
  BY <1>1 DEF Init, PointerIsLastGrant
<1>6. QED
  BY <1>2, <1>3, <1>4, <1>5 DEF IInv

\* A step that grants nothing, keeps the granted items and only adds audit rows.
LEMMA NoGrantKeeps ==
  ASSUME IInv, Granted' = Granted, pointer' = pointer,
         \A r \in Granted : put'[r] = put[r] /\ prepared'[r] = prepared[r],
         \A c \in Community : \A i \in DOMAIN events[c] :
           i \in DOMAIN events'[c] /\ events'[c][i] = events[c][i]
  PROVE  GrantsFormOneChain' /\ PointerIsLastGrant' /\ GrantsAudited'
<1>1. GrantsFormOneChain'
  BY DEF IInv, GrantsFormOneChain, Extends
<1>2. PointerIsLastGrant'
  BY DEF IInv, PointerIsLastGrant
<1>3. \A r \in Granted : CommunityFor(r)' = CommunityFor(r)
                         /\ CommunityFor(r) \in Community
  <2>1. SUFFICES ASSUME NEW r \in Granted
                 PROVE  CommunityFor(r)' = CommunityFor(r)
                        /\ CommunityFor(r) \in Community
    OBVIOUS
  <2>2. put[r] \in Item
    BY DEF IInv, TypeOK, Granted
  <2>3. QED
    BY <2>2, CommunityAssumption DEF CommunityFor, Item
<1>4. GrantsAudited'
  BY <1>3 DEF IInv, GrantsAudited
<1>5. QED
  BY <1>1, <1>2, <1>4

LEMMA SelectPreviousKeeps ==
  ASSUME IInv, NEW r \in Request, SelectPrevious(r)
  PROVE  IInv'
<1> USE DEF IInv
<1>1. PICK item \in Item :
        /\ Extends(pointer[item.vault], item)
        /\ put'  = [put EXCEPT ![r] = item]
        /\ seen' = [seen EXCEPT ![r] = pointer[item.vault]]
        /\ pc'   = [pc EXCEPT ![r] = "prepare"]
  BY DEF SelectPrevious
<1>2. pointer[item.vault] \in Item \cup {null}
  BY DEF TypeOK, Item
<1>3. TypeOK'
  BY <1>1, <1>2 DEF SelectPrevious, TypeOK, Pc
<1>4. ReadsStayLinked'
  <2>1. ASSUME NEW s \in Request, s # r
        PROVE  put'[s] = put[s] /\ seen'[s] = seen[s] /\ pc'[s] = pc[s]
    BY <1>1, <2>1 DEF TypeOK
  <2>2. /\ put'[r] = item /\ seen'[r] = pointer[item.vault]
        /\ pc'[r] = "prepare" /\ Extends(pointer[item.vault], item)
    BY <1>1 DEF TypeOK
  <2>3. UNCHANGED <<prepared, events>>
    BY DEF SelectPrevious
  <2>4. ASSUME NEW s \in Request
        PROVE  /\ pc'[s] \in {"prepare", "commit", "ok"} => Extends(seen'[s], put'[s])
               /\ pc'[s] = "commit" =>
                    LinksTo(prepared'[s], events'[CommunityOf[put'[s].owner]])
    BY <2>1, <2>2, <2>3 DEF ReadsStayLinked, CommunityFor, TypeOK
  <2>5. QED
    BY <2>4 DEF ReadsStayLinked, CommunityFor
<1>5. ChainsVerify'
  BY DEF SelectPrevious, ChainsVerify
<1>6. Granted' = Granted
  BY <1>1 DEF SelectPrevious, Granted, TypeOK
<1>7. \A s \in Granted : put'[s] = put[s]
  BY <1>1 DEF SelectPrevious, Granted, TypeOK
<1>8. GrantsFormOneChain' /\ PointerIsLastGrant' /\ GrantsAudited'
  BY <1>6, <1>7, NoGrantKeeps DEF SelectPrevious
<1>9. QED
  BY <1>3, <1>4, <1>5, <1>8

LEMMA RejectItemKeeps ==
  ASSUME IInv, NEW r \in Request, RejectItem(r)
  PROVE  IInv'
<1> USE DEF IInv
<1>1. TypeOK'
  BY DEF RejectItem, TypeOK, Pc
<1>2. ReadsStayLinked'
  <2>1. \A s \in Request : pc'[s] # "rejected" => pc'[s] = pc[s]
    BY DEF RejectItem, TypeOK
  <2>2. QED
    BY <2>1 DEF RejectItem, ReadsStayLinked, CommunityFor
<1>3. ChainsVerify'
  BY DEF RejectItem, ChainsVerify
<1>4. Granted' = Granted
  BY DEF RejectItem, Granted, TypeOK
<1>5. GrantsFormOneChain' /\ PointerIsLastGrant' /\ GrantsAudited'
  BY <1>4, NoGrantKeeps DEF RejectItem
<1>6. QED
  BY <1>1, <1>2, <1>3, <1>5

LEMMA PrepareAuditKeeps ==
  ASSUME IInv, NEW r \in Request, PrepareAudit(r)
  PROVE  IInv'
<1> USE DEF IInv
<1> DEFINE rows == events[CommunityFor(r)]
           row  == PrepareAuditEvent(rows, Body(put[r]))
<1>1. put[r] \in Item
  BY DEF PrepareAudit, TypeOK
<1>2. CommunityFor(r) \in Community /\ Body(put[r]) \in Bodies \cup OtherBody
  BY <1>1, CommunityAssumption DEF CommunityFor, Item, Bodies
<1>3. rows \in Seq(Row) /\ VerifyChain(rows)
  BY <1>2 DEF TypeOK, ChainsVerify
<1>4. row \in Row /\ LinksTo(row, rows)
  BY <1>2, <1>3, PreparedLinks DEF Row
<1>5. TypeOK'
  BY <1>4 DEF PrepareAudit, TypeOK, Pc
<1>6. ReadsStayLinked'
  <2>1. ASSUME NEW s \in Request
        PROVE  /\ pc'[s] \in {"prepare", "commit", "ok"} => Extends(seen[s], put[s])
               /\ pc'[s] = "commit" =>
                    LinksTo(prepared'[s], events[CommunityFor(s)])
    BY <1>4 DEF PrepareAudit, ReadsStayLinked, TypeOK
  <2>2. QED
    BY <2>1 DEF ReadsStayLinked, CommunityFor, PrepareAudit
<1>7. ChainsVerify'
  BY DEF PrepareAudit, ChainsVerify
<1>8. Granted' = Granted /\ r \notin Granted
  BY DEF PrepareAudit, Granted, TypeOK
<1>9. \A s \in Granted : prepared'[s] = prepared[s]
  BY <1>8 DEF PrepareAudit, Granted, TypeOK
<1>10. GrantsFormOneChain' /\ PointerIsLastGrant' /\ GrantsAudited'
  BY <1>8, <1>9, NoGrantKeeps DEF PrepareAudit
<1>11. QED
  BY <1>5, <1>6, <1>7, <1>10

LEMMA BatchThrowsKeeps ==
  ASSUME IInv, NEW r \in Request, BatchThrows(r)
  PROVE  IInv'
<1> USE DEF IInv
<1>1. TypeOK'
  BY DEF BatchThrows, TypeOK, Pc
<1>2. ReadsStayLinked'
  <2>1. \A s \in Request : pc'[s] # "conflict" => pc'[s] = pc[s]
    BY DEF BatchThrows, TypeOK
  <2>2. QED
    BY <2>1 DEF BatchThrows, ReadsStayLinked, CommunityFor
<1>3. ChainsVerify'
  BY DEF BatchThrows, ChainsVerify
<1>4. Granted' = Granted
  BY DEF BatchThrows, Granted, TypeOK
<1>5. GrantsFormOneChain' /\ PointerIsLastGrant' /\ GrantsAudited'
  BY <1>4, NoGrantKeeps DEF BatchThrows
<1>6. QED
  BY <1>1, <1>2, <1>3, <1>5

LEMMA BatchMissesKeeps ==
  ASSUME IInv, NEW r \in Request, BatchMisses(r)
  PROVE  IInv'
<1>1. /\ events' \in [Community -> Seq(Row)]
      /\ ChainsVerify' /\ ReadsStayLinked'
      /\ \A c \in Community : \A i \in DOMAIN events[c] :
           i \in DOMAIN events'[c] /\ events'[c][i] = events[c][i]
  BY AuditRowStored DEF BatchMisses
<1>2. TypeOK'
  BY <1>1 DEF IInv, BatchMisses, TypeOK, Pc
<1>3. Granted' = Granted
  BY DEF IInv, BatchMisses, Granted, TypeOK
<1>4. GrantsFormOneChain' /\ PointerIsLastGrant' /\ GrantsAudited'
  BY <1>1, <1>3, NoGrantKeeps DEF BatchMisses
<1>5. QED
  BY <1>1, <1>2, <1>4 DEF IInv

\* The row an item replaces is the one it extends, whatever happened since the read.
LEMMA AppliedFollows ==
  ASSUME IInv, NEW r \in Request, BatchApplies(r)
  PROVE  /\ put[r] \in Item
         /\ pointer[put[r].vault] \in Item \cup {null}
         /\ Extends(pointer[put[r].vault], put[r])
<1>1. put[r] \in Item /\ Extends(seen[r], put[r])
  BY CommitFacts DEF BatchApplies
<1>2. pointer[put[r].vault] \in Item \cup {null}
  BY <1>1 DEF IInv, TypeOK, Item
<1>3. CASE seen[r] = null
  BY <1>1, <1>2, <1>3 DEF BatchApplies, Mutates, InsertThrows, Extends
<1>4. CASE seen[r] # null
  BY <1>1, <1>2, <1>4 DEF BatchApplies, Mutates, UpdateMatches, Extends
<1>5. QED
  BY <1>1, <1>2, <1>3, <1>4

LEMMA BatchAppliesKeeps ==
  ASSUME IInv, NEW r \in Request, BatchApplies(r)
  PROVE  IInv'
<1> USE DEF IInv
<1>1. /\ events' \in [Community -> Seq(Row)]
      /\ ChainsVerify' /\ ReadsStayLinked'
      /\ \A c \in Community : \A i \in DOMAIN events[c] :
           i \in DOMAIN events'[c] /\ events'[c][i] = events[c][i]
      /\ \E i \in DOMAIN events'[CommunityFor(r)] :
           events'[CommunityFor(r)][i] = prepared[r]
      /\ \A i \in DOMAIN events[CommunityFor(r)] :
           events[CommunityFor(r)][i] # prepared[r]
  BY AuditRowStored DEF BatchApplies
<1> DEFINE v0 == put[r].vault
           old == pointer[v0]
<1>2. /\ put[r] \in Item /\ v0 \in Vault /\ put[r] # null
      /\ old \in Item \cup {null}
  BY AppliedFollows, NullAssumption DEF Item
<1>3. Extends(old, put[r])
  BY AppliedFollows
<1>4. /\ pointer' = [pointer EXCEPT ![v0] = put[r]]
      /\ put' = put /\ prepared' = prepared
      /\ pc[r] = "commit"
      /\ pc' = [pc EXCEPT ![r] = "ok"]
  BY DEF BatchApplies
<1>5. Granted' = Granted \cup {r} /\ r \notin Granted
  BY <1>4 DEF Granted, TypeOK
<1>6. \A s \in Granted : put[s] \in Item
  BY DEF Granted, TypeOK
<1>7. \A item \in Item : item.version \in Nat \ {0}
  BY VersionAssumption DEF Item
<1>8. TypeOK'
  BY <1>1, <1>2, <1>4 DEF BatchApplies, TypeOK, Pc
\* Every earlier grant of the vault has a smaller version.
<1>9. ASSUME NEW s \in Granted, put[s].vault = v0
      PROVE  old # null /\ put[s].version < put[r].version
  <2>1. old # null /\ put[s].version <= old.version
    BY <1>2, <1>9 DEF PointerIsLastGrant
  <2>2. put[r].version = old.version + 1
    BY <1>3, <2>1 DEF Extends
  <2>3. old.version \in Nat /\ put[s].version \in Nat
    BY <1>2, <1>6, <1>7, <2>1
  <2>4. QED
    BY <2>1, <2>2, <2>3
<1>10. GrantsFormOneChain'
  <2>1. ASSUME NEW s \in Granted', NEW t \in Granted', s # t,
               put[s].vault = put[t].vault
        PROVE  put[s].version # put[t].version
    <3>1. CASE s = r
      BY <1>2, <1>5, <1>6, <1>7, <1>9, <2>1, <3>1
    <3>2. CASE t = r
      BY <1>2, <1>5, <1>6, <1>7, <1>9, <2>1, <3>2
    <3>3. CASE s # r /\ t # r
      BY <1>5, <2>1, <3>3 DEF GrantsFormOneChain
    <3>4. QED
      BY <3>1, <3>2, <3>3
  <2>2. ASSUME NEW s \in Granted'
        PROVE  IF put[s].version = 1
               THEN put[s].previousCid = null
               ELSE \E t \in Granted' : put[t].vault = put[s].vault
                                        /\ Extends(put[t], put[s])
    <3>1. CASE s # r
      BY <1>5, <3>1 DEF GrantsFormOneChain
    <3>2. CASE s = r /\ old = null
      BY <1>3, <3>2 DEF Extends
    <3>3. CASE s = r /\ old # null
      <4>1. PICK t \in Granted : put[t].vault = v0 /\ put[t] = old
        BY <1>2, <3>3 DEF PointerIsLastGrant
      <4>2. Extends(put[t], put[r]) /\ put[r].version # 1
        <5>1. old.version \in Nat \ {0}
          BY <1>2, <1>7, <3>3
        <5>2. QED
          BY <1>3, <3>3, <4>1, <5>1 DEF Extends
      <4>3. QED
        BY <1>5, <3>3, <4>1, <4>2
    <3>4. QED
      BY <3>1, <3>2, <3>3
  <2>3. QED
    BY <1>4, <2>1, <2>2 DEF GrantsFormOneChain, Extends
<1>11. PointerIsLastGrant'
  <2>1. ASSUME NEW v \in Vault, v # v0
        PROVE  /\ pointer'[v] = pointer[v]
               /\ {s \in Granted' : put[s].vault = v} =
                  {s \in Granted : put[s].vault = v}
    BY <1>4, <1>5, <2>1
  <2>2. pointer'[v0] = put[r] /\ pointer'[v0] # null
    BY <1>2, <1>4 DEF TypeOK
  <2>3. \A s \in Granted' : put[s].vault = v0 => put[s].version <= put[r].version
    BY <1>2, <1>5, <1>6, <1>7, <1>9
  <2>4. ASSUME NEW v \in Vault
        PROVE  LET answers == {s \in Granted' : put[s].vault = v}
               IN  IF pointer'[v] = null
                   THEN answers = {}
                   ELSE /\ \E s \in answers : put[s] = pointer'[v]
                        /\ \A s \in answers : put[s].version <= pointer'[v].version
    <3>1. CASE v = v0
      BY <1>5, <2>2, <2>3, <3>1
    <3>2. CASE v # v0
      BY <2>1, <3>2 DEF PointerIsLastGrant
    <3>3. QED
      BY <3>1, <3>2
  <2>5. QED
    BY <1>4, <2>4 DEF PointerIsLastGrant
<1>12. GrantsAudited'
  <2>1. \A s \in Granted' : CommunityFor(s) \in Community
    BY <1>2, <1>5, <1>6, CommunityAssumption DEF CommunityFor, Item
  <2>2. ASSUME NEW s \in Granted'
        PROVE  \E i \in DOMAIN events'[CommunityFor(s)] :
                 events'[CommunityFor(s)][i] = prepared[s]
    BY <1>1, <1>5, <2>1 DEF GrantsAudited
  <2>3. ASSUME NEW s \in Granted', NEW t \in Granted', s # t,
               CommunityFor(s) = CommunityFor(t)
        PROVE  prepared[s] # prepared[t]
    BY <1>1, <1>5, <2>3 DEF GrantsAudited
  <2>4. QED
    BY <1>4, <2>2, <2>3 DEF GrantsAudited, CommunityFor
<1>13. QED
  BY <1>1, <1>8, <1>10, <1>11, <1>12

LEMMA OtherAuditKeeps ==
  ASSUME IInv, NEW c \in Community, OtherAudit(c)
  PROVE  IInv'
<1> USE DEF IInv
<1>1. PICK body \in OtherBody :
        events' = [events EXCEPT ![c] = Append(@, PrepareAuditEvent(@, body))]
  BY DEF OtherAudit
<1> DEFINE rows == events[c]
           row  == PrepareAuditEvent(rows, body)
<1>2. rows \in Seq(Row) /\ VerifyChain(rows) /\ body \in Bodies \cup OtherBody
  BY DEF TypeOK, ChainsVerify
<1>3. row \in Row /\ LinksTo(row, rows) /\ row.sequence = Len(rows)
  BY <1>2, PreparedLinks DEF Row
<1>4. VerifyChain(Append(rows, row))
  BY <1>2, <1>3, AppendLinked DEF Row
<1>5. events' = [events EXCEPT ![c] = Append(rows, row)]
  BY <1>1
<1>6. TypeOK'
  BY <1>2, <1>3, <1>5 DEF OtherAudit, TypeOK
<1>7. ChainsVerify'
  BY <1>4, <1>5 DEF ChainsVerify, TypeOK
<1>8. ReadsStayLinked'
  <2>1. ASSUME NEW s \in Request, pc[s] = "commit"
        PROVE  LinksTo(prepared[s], events'[CommunityFor(s)])
    <3>1. /\ CommunityFor(s) \in Community /\ prepared[s] \in Row
          /\ LinksTo(prepared[s], events[CommunityFor(s)])
      BY <2>1, CommitFacts
    <3>2. CASE CommunityFor(s) = c
      <4>1. LinksTo(prepared[s], Append(rows, row))
        BY <1>2, <1>3, <3>1, <3>2, LinksStay DEF Row
      <4>2. QED
        BY <1>5, <3>2, <4>1 DEF TypeOK
    <3>3. CASE CommunityFor(s) # c
      BY <1>5, <3>1, <3>3 DEF TypeOK
    <3>4. QED
      BY <3>2, <3>3
  <2>2. QED
    BY <2>1 DEF OtherAudit, ReadsStayLinked, CommunityFor
<1>9. \A d \in Community : \A i \in DOMAIN events[d] :
        i \in DOMAIN events'[d] /\ events'[d][i] = events[d][i]
  BY <1>2, <1>3, <1>5 DEF TypeOK
<1>10. Granted' = Granted
  BY DEF OtherAudit, Granted
<1>11. GrantsFormOneChain' /\ PointerIsLastGrant' /\ GrantsAudited'
  BY <1>9, <1>10, NoGrantKeeps DEF OtherAudit
<1>12. QED
  BY <1>6, <1>7, <1>8, <1>11

LEMMA NextKeeps == IInv /\ [Next]_vars => IInv'
<1> SUFFICES ASSUME IInv, [Next]_vars PROVE IInv'
  OBVIOUS
<1>1. ASSUME NEW r \in Request, Handle(r) PROVE IInv'
  BY <1>1, SelectPreviousKeeps, RejectItemKeeps, PrepareAuditKeeps,
     BatchThrowsKeeps, BatchAppliesKeeps, BatchMissesKeeps DEF Handle
<1>2. ASSUME NEW c \in Community, OtherAudit(c) PROVE IInv'
  BY <1>2, OtherAuditKeeps
<1>3. CASE UNCHANGED vars
  BY <1>3 DEF vars, IInv, TypeOK, ReadsStayLinked, ChainsVerify, CommunityFor,
              GrantsFormOneChain, PointerIsLastGrant, GrantsAudited, Granted
<1>4. QED
  BY <1>1, <1>2, <1>3 DEF Next
-----------------------------------------------------------------------------
(***************************************************************************)
(* The inductive invariant holds in every reachable state.                 *)
(***************************************************************************)
THEOREM Invariance == Spec => []IInv
<1>1. QED
  BY InitEstablishes, NextKeeps, PTL DEF Spec

(***************************************************************************)
(* Type correctness of the tables and of the handlers' local variables.    *)
(***************************************************************************)
THEOREM TypeCorrect == Spec => []TypeOK
<1>1. IInv => TypeOK
  BY DEF IInv
<1>2. QED
  BY <1>1, Invariance, PTL

(***************************************************************************)
(* prepareAuditEvent and the unique index keep every chain verifiable,     *)
(* whatever the handlers interleave.                                       *)
(***************************************************************************)
THEOREM AuditTrail == Spec => []ChainsVerify
<1>1. IInv => ChainsVerify
  BY DEF IInv
<1>2. QED
  BY <1>1, Invariance, PTL

(***************************************************************************)
(* Every publication that was answered 200 has its row in the trail.       *)
(***************************************************************************)
THEOREM GrantTrail == Spec => []GrantsAudited
<1>1. IInv => GrantsAudited
  BY DEF IInv
<1>2. QED
  BY <1>1, Invariance, PTL

(***************************************************************************)
(* The publications answered 200 form one chain per vault, and the stored  *)
(* pointer is its end.                                                     *)
(***************************************************************************)
THEOREM NoForkNoRollback == Spec => [](GrantsFormOneChain /\ PointerIsLastGrant)
<1>1. IInv => GrantsFormOneChain /\ PointerIsLastGrant
  BY DEF IInv
<1>2. QED
  BY <1>1, Invariance, PTL

(***************************************************************************)
(* The handlers implement PublishedPointer: a 200 answer takes effect at   *)
(* the instant of its batch, and every other step is a stutter.            *)
(***************************************************************************)
THEOREM Refinement == Spec => PublishesAtomically
<1> DEFINE granted == {[request |-> r, item |-> put[r]] : r \in Granted}
<1>1. Init => Published!PInit
  BY DEF Init, Published!PInit, Granted
<1>2. ASSUME IInv, [Next]_vars
      PROVE  [Published!PNext]_(Published!pVars)
  <2>1. ASSUME NEW r \in Request, BatchApplies(r)
        PROVE  Published!PNext
    <3>1. /\ put[r] \in Item
          /\ Extends(pointer[put[r].vault], put[r])
      BY <1>2, <2>1, AppliedFollows
    <3>2. /\ pointer' = [pointer EXCEPT ![put[r].vault] = put[r]]
          /\ put' = put
          /\ Granted' = Granted \cup {r} /\ r \notin Granted
      BY <1>2, <2>1 DEF BatchApplies, Granted, IInv, TypeOK
    <3>3. Published!Follows(pointer[put[r].vault], put[r])
      BY <3>1 DEF Published!Follows, Extends
    <3>4. \A g \in granted : g.request # r
      BY <3>2
    <3>5. granted' = granted \cup {[request |-> r, item |-> put[r]]}
      BY <3>2
    <3>6. QED
      BY <3>1, <3>2, <3>3, <3>4, <3>5 DEF Published!Grant, Published!PNext
  <2>2. ASSUME pointer' = pointer, Granted' = Granted,
               \A r \in Granted : put'[r] = put[r]
        PROVE  UNCHANGED Published!pVars
    <3>1. granted' = granted
      BY <2>2
    <3>2. QED
      BY <2>2, <3>1 DEF Published!pVars
  <2>3. ASSUME NEW r \in Request, SelectPrevious(r)
        PROVE  UNCHANGED Published!pVars
    BY <1>2, <2>2, <2>3 DEF SelectPrevious, Granted, IInv, TypeOK
  <2>4. ASSUME NEW r \in Request,
               RejectItem(r) \/ PrepareAudit(r) \/ BatchThrows(r) \/ BatchMisses(r)
        PROVE  UNCHANGED Published!pVars
    BY <1>2, <2>2, <2>4 DEF RejectItem, PrepareAudit, BatchThrows, BatchMisses, Granted,
                            IInv, TypeOK
  <2>5. ASSUME NEW c \in Community, OtherAudit(c)
        PROVE  UNCHANGED Published!pVars
    BY <2>2, <2>5 DEF OtherAudit, Granted
  <2>6. CASE UNCHANGED vars
    BY <2>2, <2>6 DEF vars, Granted
  <2>7. QED
    BY <1>2, <2>1, <2>3, <2>4, <2>5, <2>6 DEF Next, Handle
<1>3. QED
  BY <1>1, <1>2, Invariance, PTL DEF Spec, PublishesAtomically, Published!PSpec
=============================================================================
