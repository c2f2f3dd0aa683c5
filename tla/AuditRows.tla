----------------------------- MODULE AuditRows -----------------------------
(***************************************************************************)
(* The rows of the D1 table audit_events and the operations every          *)
(* coordinator handler performs on them: prepareAuditEvent reads the head  *)
(* of a community's chain and builds the next row; the row is inserted     *)
(* later, in the same batch as the handler's own change.                   *)
(*                                                                         *)
(* A community's rows are a sequence in rowid (insertion) order.  A body   *)
(* stands for (kind, actor, subject, occurredAt).  BLAKE3 is taken to be   *)
(* collision free: a hash is the list of the (sequence, body) pairs that   *)
(* were hashed into it, directly or through the previous hash.             *)
(***************************************************************************)
LOCAL INSTANCE Naturals
LOCAL INSTANCE Sequences

\* "0".repeat(64), the previous hash of a chain's first row.
Genesis == <<>>

\* blake3 of the canonical string; the community id is not part of it.
EventHash(sequence, body, previousHash) ==
  Append(previousHash, <<sequence, body>>)

Hashes(bodies) == Seq(Nat \X bodies)

\* The rows of the table audit_events.
Rows(bodies) == [sequence     : Nat,
                 body         : bodies,
                 previousHash : Hashes(bodies),
                 hash         : Hashes(bodies)]

AuditRow(sequence, body, previousHash) ==
  [sequence     |-> sequence,
   body         |-> body,
   previousHash |-> previousHash,
   hash         |-> EventHash(sequence, body, previousHash)]

\* ORDER BY community_sequence DESC LIMIT 1.
IsLatest(rows, i) ==
  /\ i \in DOMAIN rows
  /\ \A j \in DOMAIN rows : rows[j].sequence <= rows[i].sequence

LatestRow(rows) == rows[CHOOSE i \in DOMAIN rows : IsLatest(rows, i)]

\* Mutant: links the new row to the latest row's predecessor.
PrepareFromPrevious(rows, body) ==
  IF rows = <<>>
  THEN AuditRow(0, body, Genesis)
  ELSE AuditRow(LatestRow(rows).sequence + 1, body, LatestRow(rows).previousHash)

\* prepareAuditEvent: the row that extends the chain as it is read now.
PrepareAuditEvent(rows, body) ==
  IF rows = <<>>
  THEN AuditRow(0, body, Genesis)
  ELSE AuditRow(LatestRow(rows).sequence + 1, body, LatestRow(rows).hash)

\* Mutant: without the unique index on (community_id, community_sequence).
ConflictsByHashOnly(rows, row) == \E i \in DOMAIN rows : rows[i].hash = row.hash

\* The unique indexes on (community_id, community_sequence) and event_hash.
InsertConflicts(rows, row) ==
  \E i \in DOMAIN rows : \/ rows[i].sequence = row.sequence
                         \/ rows[i].hash = row.hash

(***************************************************************************)
(* What a verifier of the exported chain checks (verify_chain of           *)
(* mesh-core): sequence numbers without gaps, each row linked to the one   *)
(* before it and hashed over its own fields.                               *)
(***************************************************************************)
HashBefore(rows, sequence) ==
  IF sequence = 0 THEN Genesis ELSE rows[sequence].hash

VerifyChain(rows) ==
  \A i \in DOMAIN rows :
    rows[i] = AuditRow(i - 1, rows[i].body, HashBefore(rows, i - 1))

\* A row that could be inserted after the first row.sequence rows.
LinksTo(row, rows) ==
  /\ row.sequence <= Len(rows)
  /\ row = AuditRow(row.sequence, row.body, HashBefore(rows, row.sequence))
=============================================================================
