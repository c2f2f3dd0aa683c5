-------------------------- MODULE ObjectStoreProof --------------------------
(***************************************************************************)
(* Proofs about ObjectStore: its types and its write lock, for every set   *)
(* of objects, of processes and of faults; and, of a store that one        *)
(* process uses on a disk that damages files but neither loses them nor    *)
(* reports errors, that what was stored stays, that rows and files agree   *)
(* and that the quota holds.                                               *)
(***************************************************************************)
EXTENDS ObjectStore, FiniteSetTheorems, TLAPS

Ops   == {"closed", "idle", "open", "reconcile", "put", "delete"}
Steps == {"closed", "idle", "clear", "scan", "clean", "check", "insert", "row", "read", "remove",
          "forget", "lock", "write", "rename", "commit", "unlink"}
State == [op : Ops, step : Steps, cid : Cid \cup {null}, todo : SUBSET Cid]

(***************************************************************************)
(* An operation on an object knows it, only a put has the steps of a put,  *)
(* and only the opening of a store has files left to scan.                 *)
(***************************************************************************)
ClientsKnow ==
  \A p \in Client :
    /\ client[p].op \in {"put", "delete"} => client[p].cid \in Cid
    /\ client[p].step = "insert" => client[p].cid \in Cid
    /\ client[p].step \in {"clean", "check"} => client[p].cid \in client[p].todo
    /\ client[p].step \in {"row", "read"} => client[p].op = "put"
    /\ client[p].op \in {"idle", "put", "delete"} => client[p].todo = {}

TypeInv == TypeOK /\ client \in [Client -> State] /\ ClientsKnow

-----------------------------------------------------------------------------
(***************************************************************************)
(* One process, and a disk that damages what it holds.                     *)
(***************************************************************************)
Alone == (\E p : Client = {p}) /\ Fault \subseteq {"crash", "damage"}

Good    == {c \in Cid : blob[c] = "good"}
Present == {c \in Cid : blob[c] # "none"}

(***************************************************************************)
(* The row that an operation is about to insert, and the one whose blob it *)
(* has removed already.                                                    *)
(***************************************************************************)
Coming(p) == {c \in {client[p].cid} : Is(p, "put", "commit") \/ Reconciles(p, "insert")}
Going(p)  == {c \in {client[p].cid} : Is(p, "put", "forget") \/ Is(p, "delete", "commit")}

(***************************************************************************)
(* Rows stand for blobs, and good blobs have rows, but for the object that *)
(* is being worked on, and for what a scan has not reached.                *)
(***************************************************************************)
Scanned(p) ==
  /\ client[p].op # "closed" /\ client[p].step # "clear" =>
       /\ rows \ Going(p) \subseteq Present
       /\ Good \subseteq rows \cup Coming(p) \cup client[p].todo
       /\ Coming(p) \subseteq Present \ (rows \cup client[p].todo)
       /\ rows \cap client[p].todo = {}

(***************************************************************************)
(* What an operation has found of its object, or done to it, is so; and    *)
(* only an error would make a put reconcile.                               *)
(***************************************************************************)
ObjectIs(p) ==
  LET c == client[p].cid
  IN  /\ client[p].op = "put" /\ client[p].step \in {"forget", "lock", "write", "rename"}
           => blob[c] = "none"
      /\ Is(p, "put", "remove") => blob[c] # "good"
      /\ client[p].op = "delete" /\ client[p].step \in {"forget", "commit", "unlink"}
           => blob[c] = "none"
      /\ client[p].op = "delete" => c \notin kept
      /\ client[p].op # "reconcile"

(***************************************************************************)
(* There is room for every good blob: opening the store gives all of them  *)
(* rows, without a look at the quota.                                      *)
(***************************************************************************)
HasRoom(p) ==
  /\ IsFiniteSet(rows \cup Good \cup Coming(p))
  /\ Cardinality(rows \cup Good \cup Coming(p)) <= Quota
  /\ client[p].op = "put" /\ client[p].step \in {"write", "rename", "commit"}
       => Cardinality(rows) + 1 <= Quota

AloneInv ==
  /\ TypeInv
  /\ kept \subseteq Good
  /\ \A p \in Client : Scanned(p) /\ ObjectIs(p) /\ HasRoom(p)

-----------------------------------------------------------------------------
(***************************************************************************)
(* What an action makes of its client.                                     *)
(***************************************************************************)
Becomes(p, s) ==
  /\ client' \in [Client -> State]
  /\ \A q \in Client : client'[q] = IF q = p THEN s ELSE client[q]

LEMMA StateAt ==
  ASSUME NEW op \in Ops, NEW step \in Steps, NEW c \in Cid \cup {null}
  PROVE  /\ At(op, step, c) \in State
         /\ At(op, step, c).op = op /\ At(op, step, c).step = step
         /\ At(op, step, c).cid = c /\ At(op, step, c).todo = {}
BY DEF At, State

LEMMA IdleState ==
  /\ Idle \in State /\ Closed \in State
  /\ Idle.op = "idle" /\ Idle.step = "idle" /\ Idle.todo = {}
  /\ Closed.op = "closed" /\ Closed.step = "closed"
BY StateAt DEF Idle, Closed, Ops, Steps

LEMMA FieldSet ==
  ASSUME NEW s \in State, NEW op \in Ops, NEW step \in Steps,
         NEW c \in Cid \cup {null}, NEW todo \in SUBSET Cid
  PROVE  /\ [s EXCEPT !.op = op]
              = [op |-> op, step |-> s.step, cid |-> s.cid, todo |-> s.todo]
         /\ [s EXCEPT !.step = step]
              = [op |-> s.op, step |-> step, cid |-> s.cid, todo |-> s.todo]
         /\ [s EXCEPT !.cid = c]
              = [op |-> s.op, step |-> s.step, cid |-> c, todo |-> s.todo]
         /\ [s EXCEPT !.todo = todo]
              = [op |-> s.op, step |-> s.step, cid |-> s.cid, todo |-> todo]
<1>1. [s EXCEPT !.op = op]
        = [op |-> op, step |-> s.step, cid |-> s.cid, todo |-> s.todo]
  BY DEF State
<1>2. [s EXCEPT !.step = step]
        = [op |-> s.op, step |-> step, cid |-> s.cid, todo |-> s.todo]
  BY DEF State
<1>3. [s EXCEPT !.cid = c]
        = [op |-> s.op, step |-> s.step, cid |-> c, todo |-> s.todo]
  BY DEF State
<1>4. [s EXCEPT !.todo = todo]
        = [op |-> s.op, step |-> s.step, cid |-> s.cid, todo |-> todo]
  BY DEF State
<1> QED
  BY <1>1, <1>2, <1>3, <1>4

LEMMA FieldsTyped ==
  ASSUME NEW s \in State
  PROVE  /\ s.op \in Ops /\ s.step \in Steps
         /\ s.cid \in Cid \cup {null} /\ s.todo \in SUBSET Cid
BY DEF State

LEMMA Fields ==
  ASSUME NEW op \in Ops, NEW step \in Steps, NEW c \in Cid \cup {null},
         NEW todo \in SUBSET Cid
  PROVE  [op |-> op, step |-> step, cid |-> c, todo |-> todo] \in State
BY DEF State

LEMMA MovedState ==
  ASSUME NEW s \in State, NEW op \in Ops, NEW step \in Steps
  PROVE  /\ [s EXCEPT !.op = op, !.step = step]
              = [op |-> op, step |-> step, cid |-> s.cid, todo |-> s.todo]
         /\ [op |-> op, step |-> step, cid |-> s.cid, todo |-> s.todo] \in State
<1> DEFINE u == [s EXCEPT !.op = op]
<1>1. u = [op |-> op, step |-> s.step, cid |-> s.cid, todo |-> s.todo]
  BY FieldSet, FieldsTyped
<1>2. [s EXCEPT !.op = op, !.step = step] = [u EXCEPT !.step = step]
  OBVIOUS
<1> HIDE DEF u
<1>3. u \in State
  BY <1>1, Fields, FieldsTyped
<1>4. [u EXCEPT !.step = step] = [op |-> u.op, step |-> step, cid |-> u.cid, todo |-> u.todo]
  BY <1>3, FieldSet, FieldsTyped
<1>5. u.op = op /\ u.cid = s.cid /\ u.todo = s.todo
  BY <1>1
<1> QED
  BY <1>2, <1>4, <1>5, Fields, FieldsTyped

LEMMA ClearedState ==
  ASSUME NEW s \in State, NEW step \in Steps, NEW todo \in SUBSET Cid
  PROVE  [s EXCEPT !.step = step, !.todo = todo]
           = [op |-> s.op, step |-> step, cid |-> s.cid, todo |-> todo]
<1> DEFINE u == [s EXCEPT !.step = step]
<1>1. u = [op |-> s.op, step |-> step, cid |-> s.cid, todo |-> s.todo]
  BY FieldSet, FieldsTyped
<1>2. [s EXCEPT !.step = step, !.todo = todo] = [u EXCEPT !.todo = todo]
  OBVIOUS
<1> HIDE DEF u
<1>3. u \in State
  BY <1>1, Fields, FieldsTyped
<1>4. [u EXCEPT !.todo = todo] = [op |-> u.op, step |-> u.step, cid |-> u.cid, todo |-> todo]
  BY <1>3, FieldSet, FieldsTyped
<1> QED
  BY <1>1, <1>2, <1>4

LEMMA BecomesState ==
  ASSUME TypeInv, NEW p \in Client, NEW s \in State, client' = [client EXCEPT ![p] = s]
  PROVE  Becomes(p, s)
BY DEF TypeInv, Becomes

LEMMA ReturnBecomes ==
  ASSUME TypeInv, NEW p \in Client, Return(p)
  PROVE  Becomes(p, Idle)
BY BecomesState, IdleState DEF Return

LEMMA GiveUpBecomes ==
  ASSUME TypeInv, NEW p \in Client, GiveUp(p)
  PROVE  IF client[p].op = "open" THEN Becomes(p, Closed) ELSE Becomes(p, Idle)
BY BecomesState, IdleState DEF GiveUp

LEMMA GotoBecomes ==
  ASSUME TypeInv, NEW p \in Client, NEW op \in Ops, NEW step \in Steps, Goto(p, op, step)
  PROVE  Becomes(p, [op |-> op, step |-> step,
                     cid |-> client[p].cid, todo |-> client[p].todo])
<1> DEFINE s == [client[p] EXCEPT !.op = op, !.step = step]
           t == [op |-> op, step |-> step, cid |-> client[p].cid, todo |-> client[p].todo]
<1>1. client[p] \in State
  BY DEF TypeInv
<1>2. s = t /\ t \in State
  BY <1>1, MovedState
<1>3. client' = [client EXCEPT ![p] = s]
  BY DEF Goto
<1> HIDE DEF s, t
<1>4. client' = [client EXCEPT ![p] = t]
  BY <1>2, <1>3
<1> QED
  BY <1>2, <1>4, BecomesState DEF t

LEMMA ClearRowsBecomes ==
  ASSUME TypeInv, NEW p \in Client, ClearRows(p)
  PROVE  Becomes(p, [op |-> client[p].op, step |-> "scan",
                     cid |-> client[p].cid, todo |-> Cid])
<1> DEFINE s == [client[p] EXCEPT !.step = "scan", !.todo = Cid]
           t == [op |-> client[p].op, step |-> "scan", cid |-> client[p].cid, todo |-> Cid]
<1>1. client[p] \in State /\ "scan" \in Steps /\ Cid \in SUBSET Cid
  BY DEF TypeInv, Steps
<1>2. s = t
  BY <1>1, FieldsTyped, ClearedState
<1>3. t \in State
  BY <1>1, Fields, FieldsTyped
<1>4. client' = [client EXCEPT ![p] = s]
  BY DEF ClearRows
<1> HIDE DEF s, t
<1>5. client' = [client EXCEPT ![p] = t]
  BY <1>2, <1>4
<1> QED
  BY <1>3, <1>5, BecomesState DEF t

Left(p, c, step) ==
  IF step \in {"clean", "check"} THEN client[p].todo ELSE client[p].todo \ {c}

Looking(p, c, step) ==
  [op |-> client[p].op, step |-> step, cid |-> c, todo |-> Left(p, c, step)]

LEMMA LookAtBecomes ==
  ASSUME TypeInv, NEW p \in Client, NEW c \in Cid, NEW step \in Steps, LookAt(p, c, step)
  PROVE  Looking(p, c, step) \in State /\ Becomes(p, Looking(p, c, step))
<1> DEFINE left == Left(p, c, step)
<1>1. client' = [client EXCEPT ![p].cid = c, ![p].step = step, ![p].todo = left]
  BY DEF LookAt, Left
<1>2. client[p] \in State /\ step \in Steps /\ c \in Cid \cup {null}
  BY DEF TypeInv
<1>3. left \in SUBSET Cid
  BY <1>2, FieldsTyped DEF Left
<1> HIDE DEF left
<1> DEFINE u == [client[p] EXCEPT !.cid = c]
           v == [u EXCEPT !.step = step]
           w == [v EXCEPT !.todo = left]
           t == [op |-> client[p].op, step |-> step, cid |-> c, todo |-> left]
<1>4. client' = [client EXCEPT ![p] = w]
  BY <1>1
<1>5. u = [op |-> client[p].op, step |-> client[p].step, cid |-> c,
           todo |-> client[p].todo]
  BY <1>2, FieldSet, FieldsTyped
<1> HIDE DEF u
<1>6. u \in State
  BY <1>2, <1>5, Fields, FieldsTyped
<1>7. v = [op |-> u.op, step |-> step, cid |-> u.cid, todo |-> u.todo]
  BY <1>2, <1>6, FieldSet, FieldsTyped
<1> HIDE DEF v
<1>8. v \in State
  BY <1>2, <1>6, <1>7, Fields, FieldsTyped
<1>9. w = [op |-> v.op, step |-> v.step, cid |-> v.cid, todo |-> left]
  BY <1>3, <1>8, FieldSet, FieldsTyped
<1> HIDE DEF w
<1>10. w = t /\ t \in State
  BY <1>2, <1>3, <1>5, <1>7, <1>9, Fields, FieldsTyped
<1>11. Becomes(p, t)
  BY <1>4, <1>10, BecomesState
<1>12. t = Looking(p, c, step)
  BY DEF Looking, left
<1> QED
  BY <1>10, <1>11, <1>12

\* A scan either looks at one of the files it has left, or gives up.
LEMMA ScanBecomes ==
  ASSUME TypeInv, NEW p \in Client, ListFiles(p) \/ RemovePartial(p) \/ CheckBlob(p)
  PROVE  /\ client[p].op \in {"open", "reconcile"}
         /\ client[p].step \in {"scan", "clean", "check"}
         /\ blob' = blob /\ tomb' = tomb /\ rows' = rows /\ writer' = writer
         /\ kept' = kept /\ faults' = faults
         /\ partial' \subseteq partial
         /\ \/ GiveUp(p)
            \/ \E c \in client[p].todo, step \in {"scan", "clean", "check", "insert"} :
                 /\ c \in Cid /\ (step = "scan" => blob[c] # "good")
                 /\ (step = "insert" <=> client[p].step = "check" /\ blob[c] = "good")
                 /\ Looking(p, c, step) \in State
                 /\ Becomes(p, Looking(p, c, step))
<1>1. /\ client[p].op \in {"open", "reconcile"}
      /\ client[p].step \in {"scan", "clean", "check"}
      /\ blob' = blob /\ tomb' = tomb /\ rows' = rows /\ writer' = writer
      /\ kept' = kept /\ faults' = faults /\ partial' \subseteq partial
  BY DEF ListFiles, RemovePartial, CheckBlob, Reconciles, files
<1>2. \A c \in client[p].todo : c \in Cid
  BY FieldsTyped DEF TypeInv
<1>3. ASSUME NEW c \in client[p].todo, NEW step \in {"scan", "clean", "check", "insert"},
             LookAt(p, c, step)
      PROVE  Looking(p, c, step) \in State /\ Becomes(p, Looking(p, c, step))
  BY <1>2, <1>3, LookAtBecomes DEF Steps
<1>4. CASE ListFiles(p)
  <2>1. PICK c \in client[p].todo : LookAt(p, c, IF c \in partial THEN "clean" ELSE BlobStep(c))
    BY <1>4 DEF ListFiles
  <2>2. PICK step \in {"scan", "clean", "check"} :
          LookAt(p, c, step) /\ (step = "scan" => blob[c] # "good")
    BY <2>1 DEF BlobStep
  <2>3. client[p].step = "scan"
    BY <1>4 DEF ListFiles, Reconciles
  <2> QED
    BY <1>1, <1>2, <1>3, <2>2, <2>3
<1>5. CASE RemovePartial(p)
  <2> DEFINE c == client[p].cid
  <2>1. client[p].step = "clean" /\ c \in client[p].todo
    BY <1>5 DEF RemovePartial, Reconciles, TypeInv, ClientsKnow
  <2>2. CASE LookAt(p, c, BlobStep(c))
    <3>1. PICK step \in {"scan", "check"} :
            LookAt(p, c, step) /\ (step = "scan" => blob[c] # "good")
      BY <2>2 DEF BlobStep
    <3> QED
      BY <1>1, <1>2, <1>3, <2>1, <3>1
  <2> QED
    BY <1>1, <1>5, <2>2 DEF RemovePartial
<1>6. CASE CheckBlob(p)
  <2> DEFINE c == client[p].cid
  <2>1. client[p].step = "check" /\ c \in client[p].todo
    BY <1>6 DEF CheckBlob, Reconciles, TypeInv, ClientsKnow
  <2>2. CASE LookAt(p, c, IF blob[c] = "good" THEN "insert" ELSE "scan")
    <3>1. PICK step \in {"scan", "insert"} :
            LookAt(p, c, step) /\ (step = "insert" <=> blob[c] = "good")
      BY <2>2
    <3> QED
      BY <1>1, <1>2, <1>3, <2>1, <3>1
  <2> QED
    BY <1>1, <1>6, <2>2 DEF CheckBlob
<1> QED
  BY <1>4, <1>5, <1>6

LEMMA InsertRowBecomes ==
  ASSUME TypeInv, NEW p \in Client, InsertRow(p)
  PROVE  Becomes(p, [op |-> client[p].op, step |-> "scan",
                     cid |-> client[p].cid, todo |-> client[p].todo])
<1> DEFINE s == [client[p] EXCEPT !.step = "scan"]
           t == [op |-> client[p].op, step |-> "scan",
                 cid |-> client[p].cid, todo |-> client[p].todo]
<1>1. ASSUME NEW r \in State
      PROVE  /\ [r EXCEPT !.step = "scan"]
                  = [op |-> r.op, step |-> "scan", cid |-> r.cid, todo |-> r.todo]
             /\ [op |-> r.op, step |-> "scan", cid |-> r.cid, todo |-> r.todo] \in State
  BY <1>1 DEF State, Steps
<1>2. client[p] \in State
  BY DEF TypeInv
<1>3. s = t /\ t \in State
  BY <1>1, <1>2
<1>4. client' = [client EXCEPT ![p] = s]
  BY DEF InsertRow
<1> HIDE DEF s, t
<1>5. client' = [client EXCEPT ![p] = t]
  BY <1>3, <1>4
<1> QED
  BY <1>3, <1>5, BecomesState DEF t

-----------------------------------------------------------------------------
(***************************************************************************)
(* Types and the write lock.                                               *)
(***************************************************************************)
TablesOK ==
  /\ blob \in [Cid -> {"good", "bad", "none"}]
  /\ tomb \in [Cid -> {"good", "bad", "none"}]
  /\ partial \subseteq Cid /\ rows \subseteq Cid /\ kept \subseteq Cid
  /\ faults \in 0..MaxFaults

Writing(s) == s.op = "put" /\ s.step \in {"write", "rename", "commit"}

Knows(s) ==
  /\ s.op \in {"put", "delete"} => s.cid \in Cid
  /\ s.step = "insert" => s.cid \in Cid
  /\ s.step \in {"clean", "check"} => s.cid \in s.todo
  /\ s.step \in {"row", "read"} => s.op = "put"
  /\ s.op \in {"idle", "put", "delete"} => s.todo = {}

LEMMA TypeKeeps ==
  ASSUME TypeInv, NEW p \in Client, NEW s \in State, Becomes(p, s), TablesOK', Knows(s),
         \/ writer' = null
         \/ writer' = p /\ Writing(s)
         \/ writer' = writer /\ (writer = p => Writing(s))
  PROVE  TypeInv'
<1>1. /\ client' \in [Client -> State]
      /\ \A q \in Client : client'[q] = IF q = p THEN s ELSE client[q]
  BY DEF Becomes
<1>2. ClientsKnow'
  BY <1>1 DEF TypeInv, ClientsKnow, Knows
<1>3. writer' # null => writer' \in Client /\ Writing(client'[writer'])
  BY <1>1 DEF TypeInv, TypeOK, Writing
<1>4. \A q \in Client : client'[q] \in State
  BY <1>1
<1> QED
  BY <1>1, <1>2, <1>3, <1>4 DEF TypeInv, TypeOK, TablesOK, Writing, State, Ops, Steps

\* The lock's holder is in the middle of a put.
LEMMA WriterWrites ==
  ASSUME TypeInv, NEW p \in Client
  PROVE  /\ TablesOK /\ client[p] \in State /\ Knows(client[p])
         /\ writer = p => Writing(client[p])
         /\ null \notin Client
BY NullAssumption DEF TypeInv, TypeOK, TablesOK, ClientsKnow, Knows, Writing

LEMMA ReconcileKeepsTypes ==
  ASSUME TypeInv, NEW p \in Client,
         \/ Open(p) \/ Close(p) \/ ClearRows(p)
         \/ ListFiles(p) \/ RemovePartial(p) \/ CheckBlob(p)
         \/ InsertRow(p) \/ InsertRowConflict(p) \/ EndOpen(p)
  PROVE  TypeInv'
<1> DEFINE s == client[p]
<1>1. /\ TablesOK /\ s \in State /\ Knows(s)
      /\ writer = p => Writing(s)
      /\ null \notin Client
  BY WriterWrites
<1>2. CASE Open(p)
  <2>1. Becomes(p, [op |-> "open", step |-> "clear", cid |-> s.cid, todo |-> s.todo])
    BY <1>2, GotoBecomes DEF Open, Ops, Steps
  <2>2. [op |-> "open", step |-> "clear", cid |-> s.cid, todo |-> s.todo] \in State
    BY <1>1, Fields, FieldsTyped DEF Ops, Steps
  <2> QED
    BY <1>1, <1>2, <2>1, <2>2, TypeKeeps, IdleState
    DEF Open, files, TablesOK, Knows, Writing
<1>3. CASE Close(p)
  <2>1. Becomes(p, Closed)
    BY <1>3, BecomesState, IdleState DEF Close
  <2> QED
    BY <1>1, <1>3, <2>1, TypeKeeps, IdleState DEF Close, files, TablesOK, Knows, Writing
<1>4. CASE ClearRows(p)
  <2> DEFINE t == [op |-> s.op, step |-> "scan", cid |-> s.cid, todo |-> Cid]
  <2>1. Becomes(p, t)
    BY <1>4, ClearRowsBecomes
  <2>2. t \in State
    BY <1>1, Fields, FieldsTyped DEF Steps
  <2> QED
    BY <1>1, <1>4, <2>1, <2>2, TypeKeeps
    DEF ClearRows, Reconciles, Unlocked, files, TablesOK, Knows, Writing
<1>5. CASE ListFiles(p) \/ RemovePartial(p) \/ CheckBlob(p)
  <2>1. TablesOK' /\ writer' = writer /\ writer # p
    BY <1>1, <1>5, ScanBecomes DEF TablesOK, Writing
  <2>2. CASE GiveUp(p)
    <3>1. PICK t \in {Closed, Idle} : Becomes(p, t)
      BY <2>2, GiveUpBecomes
    <3> QED
      BY <2>1, <3>1, TypeKeeps, IdleState DEF Knows
  <2>3. ASSUME NEW c \in s.todo, NEW step \in {"scan", "clean", "check", "insert"},
               c \in Cid, Looking(p, c, step) \in State, Becomes(p, Looking(p, c, step))
        PROVE  TypeInv'
    <3>1. s.op \in {"open", "reconcile"}
      BY <1>5, ScanBecomes
    <3>2. Knows(Looking(p, c, step))
      BY <2>3, <3>1 DEF Knows, Looking, Left
    <3> QED
      BY <2>1, <2>3, <3>2, TypeKeeps
  <2> QED
    BY <1>5, <2>2, <2>3, ScanBecomes
<1>6. CASE InsertRow(p)
  <2> DEFINE t == [op |-> s.op, step |-> "scan", cid |-> s.cid, todo |-> s.todo]
  <2>1. Becomes(p, t)
    BY <1>6, InsertRowBecomes
  <2>2. t \in State
    BY <1>1, Fields, FieldsTyped DEF Steps
  <2> QED
    BY <1>1, <1>6, <2>1, <2>2, TypeKeeps
    DEF InsertRow, Reconciles, Unlocked, files, TablesOK, Knows, Writing
<1>7. CASE InsertRowConflict(p)
  <2>1. PICK t \in {Closed, Idle} : Becomes(p, t)
    BY <1>7, GiveUpBecomes DEF InsertRowConflict
  <2> QED
    BY <1>1, <1>7, <2>1, TypeKeeps, IdleState
    DEF InsertRowConflict, Unlocked, files, TablesOK, Knows, Writing
<1>8. CASE EndOpen(p)
  <2>1. Becomes(p, Idle)
    BY <1>8, ReturnBecomes DEF EndOpen
  <2> QED
    BY <1>1, <1>8, <2>1, TypeKeeps, IdleState
    DEF EndOpen, Reconciles, files, TablesOK, Knows, Writing
<1> QED
  BY <1>2, <1>3, <1>4, <1>5, <1>6, <1>7, <1>8

LEMMA PutKeepsTypes ==
  ASSUME TypeInv, NEW p \in Client,
         \/ \E c \in Cid : BeginPut(p, c)
         \/ SelectRow(p) \/ ReadBlob(p) \/ RemoveBlob(p) \/ ForgetRow(p) \/ LockRows(p)
         \/ WritePartial(p) \/ RenamePartial(p) \/ CommitPut(p) \/ PutConflict(p)
  PROVE  TypeInv'
<1> DEFINE s == client[p]
           Moved(step) == [op |-> "put", step |-> step, cid |-> s.cid, todo |-> s.todo]
<1>1. /\ TablesOK /\ s \in State /\ Knows(s)
      /\ writer = p => Writing(s)
      /\ null \notin Client
  BY WriterWrites
<1>2. ASSUME NEW step \in Steps
      PROVE  /\ Goto(p, "put", step) => Becomes(p, Moved(step))
             /\ Moved(step) \in State
             /\ Moved(step).op = "put" /\ Moved(step).step = step
             /\ Moved(step).cid = s.cid /\ Moved(step).todo = s.todo
  <2>1. "put" \in Ops
    BY DEF Ops
  <2>2. Goto(p, "put", step) => Becomes(p, Moved(step))
    BY <2>1, GotoBecomes
  <2> QED
    BY <1>1, <2>1, <2>2, Fields, FieldsTyped
<1>3. ASSUME NEW step \in Steps, step \notin {"insert", "clean", "check"}, s.op = "put"
      PROVE  Knows(Moved(step))
  BY <1>1, <1>3 DEF Knows
<1>4. /\ Return(p) => Becomes(p, Idle)
      /\ Idle \in State /\ Knows(Idle)
  BY ReturnBecomes, IdleState DEF Knows
<1> HIDE DEF Moved
<1>5. CASE \E c \in Cid : BeginPut(p, c)
  <2>1. PICK c \in Cid : BeginPut(p, c)
    BY <1>5
  <2> DEFINE step == IF blob[c] = "none" THEN "lock" ELSE "row"
             t    == At("put", step, c)
  <2>2. "put" \in Ops /\ step \in Steps /\ c \in Cid \cup {null}
    BY DEF Ops, Steps
  <2> HIDE DEF step
  <2>3. t \in State /\ t.op = "put" /\ t.step = step /\ t.cid = c /\ t.todo = {}
    BY <2>2, StateAt
  <2>4. client' = [client EXCEPT ![p] = t]
    BY <2>1 DEF BeginPut, step
  <2>5. step \notin {"insert", "clean", "check"}
    BY DEF step
  <2>6. writer # p
    BY <1>1, <2>1, IdleState DEF BeginPut, Writing
  <2>7. TablesOK' /\ writer' = writer
    BY <1>1, <2>1 DEF BeginPut, files, TablesOK
  <2> HIDE DEF t
  <2> QED
    BY <2>3, <2>4, <2>5, <2>6, <2>7, TypeKeeps, BecomesState DEF Knows
<1>6. CASE SelectRow(p)
  <2>1. PICK step \in {"read", "remove"} : Goto(p, "put", step)
    BY <1>6 DEF SelectRow
  <2>2. s.op = "put" /\ s.step = "row" /\ writer # p /\ step \in Steps
    BY <1>1, <1>6 DEF SelectRow, Is, Writing, Steps
  <2>3. TablesOK' /\ writer' = writer
    BY <1>1, <1>6 DEF SelectRow, files, TablesOK
  <2> QED
    BY <1>2, <1>3, <2>1, <2>2, <2>3, TypeKeeps
<1>7. CASE ReadBlob(p)
  <2>1. s.op = "put" /\ s.step = "read" /\ writer # p /\ "remove" \in Steps
    BY <1>1, <1>7 DEF ReadBlob, Is, Writing, Steps
  <2>2. TablesOK' /\ writer' = writer
    BY <1>1, <1>7, <2>1 DEF ReadBlob, files, TablesOK, Knows
  <2>3. Return(p) \/ Goto(p, "put", "remove")
    BY <1>7 DEF ReadBlob
  <2> QED
    BY <1>2, <1>3, <1>4, <2>1, <2>2, <2>3, TypeKeeps
<1>8. CASE RemoveBlob(p)
  <2>1. s.op = "put" /\ s.step = "remove" /\ writer # p /\ "forget" \in Steps
    BY <1>1, <1>8 DEF RemoveBlob, Is, Writing, Steps
  <2>2. TablesOK' /\ writer' = writer
    BY <1>1, <1>8 DEF RemoveBlob, TablesOK
  <2>3. Return(p) \/ Goto(p, "put", "forget")
    BY <1>8 DEF RemoveBlob
  <2> QED
    BY <1>2, <1>3, <1>4, <2>1, <2>2, <2>3, TypeKeeps
<1>9. CASE ForgetRow(p)
  <2>1. s.op = "put" /\ s.step = "forget" /\ writer = null /\ "lock" \in Steps
    BY <1>9 DEF ForgetRow, Is, Unlocked, Steps
  <2>2. TablesOK' /\ writer' = writer /\ Goto(p, "put", "lock")
    BY <1>1, <1>9 DEF ForgetRow, files, TablesOK
  <2> QED
    BY <1>2, <1>3, <2>1, <2>2, TypeKeeps
<1>10. CASE LockRows(p)
  <2>1. s.op = "put" /\ s.step = "lock" /\ writer = null /\ "write" \in Steps
    BY <1>10 DEF LockRows, Is, Unlocked, Steps
  <2>2. TablesOK'
    BY <1>1, <1>10 DEF LockRows, files, TablesOK
  <2>3. (Return(p) /\ writer' = writer) \/ (Goto(p, "put", "write") /\ writer' = p)
    BY <1>10 DEF LockRows
  <2> QED
    BY <1>1, <1>2, <1>3, <1>4, <2>1, <2>2, <2>3, TypeKeeps DEF Writing
<1>11. CASE WritePartial(p)
  <2>1. s.op = "put" /\ s.step = "write" /\ "rename" \in Steps
    BY <1>11 DEF WritePartial, Is, Steps
  <2>2. TablesOK' /\ writer' = writer /\ Goto(p, "put", "rename")
    BY <1>1, <1>11, <2>1 DEF WritePartial, TablesOK, Knows
  <2> QED
    BY <1>2, <1>3, <2>1, <2>2, TypeKeeps DEF Writing
<1>12. CASE RenamePartial(p)
  <2>1. s.op = "put" /\ s.step = "rename" /\ "commit" \in Steps
    BY <1>12 DEF RenamePartial, Is, Steps
  <2>2. TablesOK'
    BY <1>1, <1>12, <2>1 DEF RenamePartial, TablesOK, Knows
  <2>3. \/ Return(p) /\ writer' = (IF writer = p THEN null ELSE writer)
        \/ Goto(p, "put", "commit") /\ writer' = writer
    BY <1>12 DEF RenamePartial, Release
  <2> QED
    BY <1>2, <1>3, <1>4, <2>1, <2>2, <2>3, TypeKeeps DEF Writing
<1>13. CASE CommitPut(p) \/ PutConflict(p)
  <2>1. s.op = "put" /\ s.step = "commit"
    BY <1>13 DEF CommitPut, PutConflict, Is
  <2>2. TablesOK'
    BY <1>1, <1>13, <2>1 DEF CommitPut, PutConflict, files, TablesOK, Knows
  <2>3. Return(p) /\ writer' = (IF writer = p THEN null ELSE writer)
    BY <1>13 DEF CommitPut, PutConflict, Release
  <2> QED
    BY <1>4, <2>2, <2>3, TypeKeeps
<1> QED
  BY <1>5, <1>6, <1>7, <1>8, <1>9, <1>10, <1>11, <1>12, <1>13

LEMMA DeleteKeepsTypes ==
  ASSUME TypeInv, NEW p \in Client,
         \/ \E c \in Cid : BeginDelete(p, c)
         \/ ForgetMissing(p) \/ SetAside(p) \/ CommitDelete(p) \/ RemoveTomb(p)
  PROVE  TypeInv'
<1> DEFINE s == client[p]
           Moved(step) == [op |-> "delete", step |-> step, cid |-> s.cid, todo |-> s.todo]
<1>1. /\ TablesOK /\ s \in State /\ Knows(s)
      /\ writer = p => Writing(s)
      /\ null \notin Client
  BY WriterWrites
<1>2. ASSUME NEW step \in {"commit", "unlink"}, s.op = "delete"
      PROVE  /\ Goto(p, "delete", step) => Becomes(p, Moved(step))
             /\ Moved(step) \in State /\ Knows(Moved(step))
  <2>1. "delete" \in Ops /\ step \in Steps
    BY DEF Ops, Steps
  <2>2. Goto(p, "delete", step) => Becomes(p, Moved(step))
    BY <2>1, GotoBecomes
  <2>3. Knows(Moved(step))
    BY <1>1, <1>2 DEF Knows
  <2> QED
    BY <1>1, <2>1, <2>2, <2>3, Fields, FieldsTyped
<1>3. /\ Return(p) => Becomes(p, Idle)
      /\ Idle \in State /\ Knows(Idle)
  BY ReturnBecomes, IdleState DEF Knows
<1> HIDE DEF Moved
<1>4. CASE \E c \in Cid : BeginDelete(p, c)
  <2>1. PICK c \in Cid : BeginDelete(p, c)
    BY <1>4
  <2> DEFINE step == IF blob[c] = "none" THEN "forget" ELSE "rename"
             t    == At("delete", step, c)
  <2>2. "delete" \in Ops /\ step \in Steps /\ c \in Cid \cup {null}
    BY DEF Ops, Steps
  <2> HIDE DEF step
  <2>3. t \in State /\ t.op = "delete" /\ t.step = step /\ t.cid = c /\ t.todo = {}
    BY <2>2, StateAt
  <2>4. client' = [client EXCEPT ![p] = t]
    BY <2>1 DEF BeginDelete, step
  <2>5. step \notin {"insert", "clean", "check", "row", "read"}
    BY DEF step
  <2>6. writer # p
    BY <1>1, <2>1, IdleState DEF BeginDelete, Writing
  <2>7. TablesOK' /\ writer' = writer
    BY <1>1, <2>1 DEF BeginDelete, files, TablesOK
  <2> HIDE DEF t
  <2> QED
    BY <2>3, <2>4, <2>5, <2>6, <2>7, TypeKeeps, BecomesState DEF Knows
<1>5. CASE ForgetMissing(p) \/ SetAside(p) \/ CommitDelete(p) \/ RemoveTomb(p)
  <2>1. s.op = "delete" /\ writer # p
    BY <1>1, <1>5 DEF ForgetMissing, SetAside, CommitDelete, RemoveTomb, Is, Writing
  <2>2. TablesOK' /\ writer' = writer
    <3>1. CASE ForgetMissing(p) \/ CommitDelete(p)
      BY <1>1, <3>1 DEF ForgetMissing, CommitDelete, files, TablesOK
    <3>2. CASE SetAside(p)
      BY <1>1, <2>1, <3>2 DEF SetAside, TablesOK, Knows
    <3>3. CASE RemoveTomb(p)
      BY <1>1, <3>3 DEF RemoveTomb, TablesOK
    <3> QED
      BY <1>5, <3>1, <3>2, <3>3
  <2>3. Return(p) \/ Goto(p, "delete", "commit") \/ Goto(p, "delete", "unlink")
    BY <1>5 DEF ForgetMissing, SetAside, CommitDelete, RemoveTomb
  <2> QED
    BY <1>2, <1>3, <2>1, <2>2, <2>3, TypeKeeps
<1> QED
  BY <1>4, <1>5

\* The disk acts on no client.
LEMMA DiskKeepsTypes ==
  ASSUME TypeInv, NEW c \in Cid, Damage(c) \/ Lose(c)
  PROVE  TypeInv'
<1>1. TablesOK'
  BY FaultAssumption DEF TypeInv, TypeOK, TablesOK, Damage, Lose, Happens
<1>2. client' = client /\ writer' = writer
  BY DEF Damage, Lose
<1> QED
  BY <1>1, <1>2 DEF TypeInv, TypeOK, TablesOK, ClientsKnow

LEMMA StopsKeepTypes ==
  ASSUME TypeInv, NEW p \in Client, Crash(p) \/ Fail(p)
  PROVE  TypeInv'
<1> DEFINE s == client[p]
           Moved(op, step) == [op |-> op, step |-> step, cid |-> s.cid, todo |-> s.todo]
<1>1. /\ TablesOK /\ s \in State /\ Knows(s)
      /\ writer = p => Writing(s)
      /\ null \notin Client
  BY WriterWrites
<1>2. /\ Idle \in State /\ Knows(Idle) /\ Closed \in State /\ Knows(Closed)
  BY IdleState DEF Knows
<1>3. writer' = IF writer = p THEN null ELSE writer
  BY DEF Crash, Fail, Release
<1>4. faults' \in 0..MaxFaults
  BY <1>1, FaultAssumption DEF TablesOK, Crash, Fail, Happens
<1>5. CASE Crash(p)
  <2>1. Becomes(p, Closed)
    BY <1>5, BecomesState, IdleState DEF Crash
  <2>2. TablesOK'
    BY <1>1, <1>4, <1>5 DEF Crash, files, TablesOK
  <2> QED
    BY <1>2, <1>3, <2>1, <2>2, TypeKeeps
<1>6. CASE Fail(p)
  <2>1. rows' = rows /\ kept' = kept
    BY <1>6 DEF Fail
  <2>2. CASE GiveUp(p) /\ UNCHANGED files
    <3>1. TablesOK'
      BY <1>1, <1>4, <2>1, <2>2 DEF files, TablesOK
    <3>2. PICK t \in {Closed, Idle} : Becomes(p, t)
      BY <2>2, GiveUpBecomes
    <3> QED
      BY <1>2, <1>3, <3>1, <3>2, TypeKeeps
  <2>3. CASE /\ s.step \in {"row", "read"}
             /\ Goto(p, "put", "remove") /\ UNCHANGED files
    <3>1. TablesOK'
      BY <1>1, <1>4, <2>1, <2>3 DEF files, TablesOK
    <3>2. "put" \in Ops /\ "remove" \in Steps
      BY DEF Ops, Steps
    <3>3. Becomes(p, Moved("put", "remove"))
      BY <2>3, <3>2, GotoBecomes
    <3>4. Moved("put", "remove") \in State
      BY <1>1, <3>2, Fields, FieldsTyped
    <3>5. Knows(Moved("put", "remove"))
      BY <1>1, <2>3 DEF Knows
    <3> QED
      BY <1>3, <3>1, <3>3, <3>4, <3>5, TypeKeeps
  <2>4. CASE /\ s.op = "put"
             /\ \/ partial' = partial \cup {s.cid} /\ UNCHANGED <<blob, tomb>>
                \/ blob' = [blob EXCEPT ![s.cid] = "none"] /\ UNCHANGED <<partial, tomb>>
             /\ Return(p) \/ Goto(p, "reconcile", "clear")
    <3>1. s.cid \in Cid
      BY <1>1, <2>4 DEF Knows
    <3>2. TablesOK'
      BY <1>1, <1>4, <2>1, <2>4, <3>1 DEF TablesOK
    <3>3. CASE Return(p)
      BY <1>2, <1>3, <3>2, <3>3, ReturnBecomes, TypeKeeps
    <3>4. CASE Goto(p, "reconcile", "clear")
      <4>1. "reconcile" \in Ops /\ "clear" \in Steps
        BY DEF Ops, Steps
      <4>2. Becomes(p, Moved("reconcile", "clear"))
        BY <3>4, <4>1, GotoBecomes
      <4>3. Moved("reconcile", "clear") \in State
        BY <1>1, <4>1, Fields, FieldsTyped
      <4>4. Knows(Moved("reconcile", "clear"))
        BY DEF Knows
      <4> QED
        BY <1>3, <3>2, <4>2, <4>3, <4>4, TypeKeeps
    <3> QED
      BY <2>4, <3>3, <3>4
  <2>5. CASE /\ s.op = "delete"
             /\ blob' = [blob EXCEPT ![s.cid] = tomb[s.cid]]
             /\ tomb' = [tomb EXCEPT ![s.cid] = "none"]
             /\ partial' = partial
             /\ Return(p)
    <3>1. s.cid \in Cid
      BY <1>1, <2>5 DEF Knows
    <3>2. TablesOK'
      BY <1>1, <1>4, <2>1, <2>5, <3>1 DEF TablesOK
    <3> QED
      BY <1>2, <1>3, <2>5, <3>2, ReturnBecomes, TypeKeeps
  <2> QED
    BY <1>6, <2>2, <2>3, <2>4, <2>5 DEF Fail, Is
<1> QED
  BY <1>5, <1>6

LEMMA InitTypes ==
  ASSUME Init
  PROVE  TypeInv
<1>1. Closed \in State /\ Closed.op = "closed" /\ Closed.step = "closed"
  BY IdleState
<1>2. client \in [Client -> State] /\ \A p \in Client : client[p] = Closed
  BY <1>1 DEF Init
<1>3. ClientsKnow
  BY <1>1, <1>2 DEF ClientsKnow
<1> QED
  BY <1>2, <1>3, FaultAssumption DEF Init, TypeInv, TypeOK, State, Ops, Steps

LEMMA NextKeepsTypes ==
  ASSUME TypeInv, [Next]_vars
  PROVE  TypeInv'
<1>1. CASE \E p \in Client : Open(p) \/ Close(p) \/ Step(p) \/ Crash(p) \/ Fail(p)
  <2>1. PICK p \in Client : Open(p) \/ Close(p) \/ Step(p) \/ Crash(p) \/ Fail(p)
    BY <1>1
  <2> QED
    BY <2>1, ReconcileKeepsTypes, PutKeepsTypes, DeleteKeepsTypes, StopsKeepTypes DEF Step
<1>2. CASE \E p \in Client, c \in Cid : BeginPut(p, c) \/ BeginDelete(p, c)
  BY <1>2, PutKeepsTypes, DeleteKeepsTypes
<1>3. CASE \E c \in Cid : Damage(c) \/ Lose(c)
  BY <1>3, DiskKeepsTypes
<1>4. CASE UNCHANGED vars
  BY <1>4 DEF vars, TypeInv, TypeOK, ClientsKnow
<1> QED
  BY <1>1, <1>2, <1>3, <1>4 DEF Next

(***************************************************************************)
(* Files, rows and clients keep their shape, and only a put that is        *)
(* between its BEGIN IMMEDIATE and its commit holds the write lock, however *)
(* many processes use the store and whatever goes wrong.                   *)
(***************************************************************************)
THEOREM StoreTypes == Spec => []TypeOK
<1>1. Init => TypeInv
  BY InitTypes
<1>2. TypeInv /\ [Next]_vars => TypeInv'
  BY NextKeepsTypes
<1>3. TypeInv => TypeOK
  BY DEF TypeInv
<1> QED
  BY <1>1, <1>2, <1>3, PTL DEF Spec

-----------------------------------------------------------------------------
(***************************************************************************)
(* The store of one process.                                               *)
(***************************************************************************)
LEMMA OneClient ==
  ASSUME NEW p \in Client, Client = {p}, TypeInv', kept' \subseteq Good',
         Scanned(p)', ObjectIs(p)', HasRoom(p)'
  PROVE  AloneInv'
BY DEF AloneInv

LEMMA RoomStays ==
  ASSUME AloneInv, NEW p \in Client, NEW S, S \subseteq rows \cup Good \cup Coming(p)
  PROVE  IsFiniteSet(S) /\ Cardinality(S) <= Quota
<1> DEFINE T == rows \cup Good \cup Coming(p)
<1>1. IsFiniteSet(T) /\ Cardinality(T) <= Quota
  BY DEF AloneInv, HasRoom
<1> HIDE DEF T
<1>2. S \subseteq T
  BY DEF T
<1>3. IsFiniteSet(S) /\ Cardinality(S) <= Cardinality(T)
  BY <1>1, <1>2, FS_Subset
<1>4. Cardinality(S) \in Nat /\ Cardinality(T) \in Nat
  BY <1>1, <1>3, FS_CardinalityType
<1> QED
  BY <1>1, <1>3, <1>4, QuotaAssumption

(***************************************************************************)
(* Clients and files, as an action leaves them.                            *)
(***************************************************************************)
LEMMA NowAt ==
  ASSUME NEW p \in Client, NEW t \in State, Becomes(p, t)
  PROVE  /\ client'[p].op = t.op /\ client'[p].step = t.step
         /\ client'[p].cid = t.cid /\ client'[p].todo = t.todo
BY DEF Becomes

LEMMA Knowing ==
  ASSUME AloneInv, NEW p \in Client
  PROVE  /\ blob \in [Cid -> {"good", "bad", "none"}]
         /\ rows \subseteq Cid /\ kept \subseteq Good
         /\ client[p] \in State /\ Knows(client[p])
         /\ Scanned(p) /\ ObjectIs(p)
BY WriterWrites DEF AloneInv, TablesOK

LEMMA ReconcileKeepsAlone ==
  ASSUME AloneInv, TypeInv', NEW p \in Client, Client = {p},
         \/ Open(p) \/ Close(p) \/ ClearRows(p)
         \/ ListFiles(p) \/ RemovePartial(p) \/ CheckBlob(p)
         \/ InsertRow(p) \/ InsertRowConflict(p) \/ EndOpen(p)
  PROVE  AloneInv'
<1> DEFINE s == client[p]
<1>1. /\ blob \in [Cid -> {"good", "bad", "none"}]
      /\ rows \subseteq Cid /\ kept \subseteq Good
      /\ s \in State /\ Knows(s)
      /\ Scanned(p) /\ ObjectIs(p)
  BY Knowing
<1>2. blob' = blob /\ kept' = kept /\ TypeInv
  BY DEF Open, Close, ClearRows, ListFiles, RemovePartial, CheckBlob, InsertRow,
         InsertRowConflict, EndOpen, files, AloneInv
<1>3. kept' \subseteq Good' /\ Good' = Good /\ Present' = Present
  BY <1>1, <1>2 DEF Good, Present
<1>4. ASSUME rows' \cup Good' \cup Coming(p)' \subseteq rows \cup Good \cup Coming(p),
             client'[p].op # "put", Scanned(p)', ObjectIs(p)'
      PROVE  AloneInv'
  <2>1. HasRoom(p)'
    BY <1>4, RoomStays DEF HasRoom
  <2> QED
    BY <1>3, <1>4, <2>1, OneClient
<1>5. CASE Open(p)
  <2>1. Becomes(p, [op |-> "open", step |-> "clear", cid |-> s.cid, todo |-> s.todo])
    BY <1>2, <1>5, GotoBecomes DEF Open, Ops, Steps
  <2>2. client'[p].op = "open" /\ client'[p].step = "clear" /\ rows' = rows
    BY <1>5, <2>1 DEF Becomes, Open
  <2>3. Coming(p)' = {} /\ Scanned(p)' /\ ObjectIs(p)'
    BY <2>2 DEF Coming, Scanned, ObjectIs, Is, Reconciles
  <2> QED
    BY <1>3, <1>4, <2>2, <2>3
<1>6. CASE Close(p)
  <2>1. Becomes(p, Closed)
    BY <1>2, <1>6, BecomesState, IdleState DEF Close
  <2>2. client'[p].op = "closed" /\ client'[p].step = "closed" /\ rows' = rows
    BY <1>6, <2>1, IdleState DEF Becomes, Close
  <2>3. Coming(p)' = {} /\ Scanned(p)' /\ ObjectIs(p)'
    BY <2>2 DEF Coming, Scanned, ObjectIs, Is, Reconciles
  <2> QED
    BY <1>3, <1>4, <2>2, <2>3
<1>7. CASE ClearRows(p)
  <2>1. Becomes(p, [op |-> s.op, step |-> "scan", cid |-> s.cid, todo |-> Cid])
    BY <1>2, <1>7, ClearRowsBecomes
  <2>2. /\ s.op \in {"open", "reconcile"} /\ rows' = {}
        /\ client'[p].op = s.op /\ client'[p].step = "scan" /\ client'[p].todo = Cid
    BY <1>7, <2>1 DEF Becomes, ClearRows, Reconciles
  <2>3. Coming(p)' = {}
    BY <2>2 DEF Coming, Is, Reconciles
  <2>4. Scanned(p)'
    BY <1>3, <2>2, <2>3 DEF Scanned, Good
  <2>5. ObjectIs(p)'
    BY <1>1, <2>2 DEF ObjectIs, Is
  <2> QED
    BY <1>3, <1>4, <2>2, <2>3, <2>4, <2>5
<1>8. CASE ListFiles(p) \/ RemovePartial(p) \/ CheckBlob(p)
  <2>1. /\ s.op = "open" /\ s.step \in {"scan", "clean", "check"} /\ rows' = rows
    BY <1>1, <1>2, <1>8, ScanBecomes DEF ObjectIs
  <2>2. Coming(p) = {} /\ Going(p) = {}
    BY <2>1 DEF Coming, Going, Is, Reconciles
  <2>3. CASE GiveUp(p)
    <3>1. Becomes(p, Closed)
      BY <1>2, <2>1, <2>3, GiveUpBecomes
    <3>2. client'[p].op = "closed" /\ client'[p].step = "closed"
      BY <3>1, IdleState DEF Becomes
    <3>3. Coming(p)' = {} /\ Scanned(p)' /\ ObjectIs(p)'
      BY <3>2 DEF Coming, Scanned, ObjectIs, Is, Reconciles
    <3> QED
      BY <1>3, <1>4, <2>1, <3>2, <3>3
  <2>4. ASSUME NEW c \in s.todo, NEW step \in {"scan", "clean", "check", "insert"},
               c \in Cid, step = "scan" => blob[c] # "good",
               step = "insert" <=> s.step = "check" /\ blob[c] = "good",
               Looking(p, c, step) \in State, Becomes(p, Looking(p, c, step))
        PROVE  AloneInv'
    <3>1. /\ client'[p].op = "open" /\ client'[p].step = step /\ client'[p].cid = c
          /\ client'[p].todo = IF step \in {"clean", "check"} THEN s.todo ELSE s.todo \ {c}
      BY <2>1, <2>4, NowAt DEF Looking, Left
    <3>2. Coming(p)' = (IF step = "insert" THEN {c} ELSE {}) /\ Going(p)' = {}
      BY <3>1 DEF Coming, Going, Is, Reconciles
    <3>3. Good \subseteq Present /\ (step = "insert" => c \in Good) /\ (step = "scan" => c \notin Good)
      BY <2>4 DEF Good, Present
    <3>4. Scanned(p)'
      BY <1>1, <1>3, <2>1, <2>2, <3>1, <3>2, <3>3 DEF Scanned
    <3>5. ObjectIs(p)'
      BY <3>1 DEF ObjectIs, Is
    <3> QED
      BY <1>3, <1>4, <2>1, <3>1, <3>2, <3>3, <3>4, <3>5
  <2> QED
    BY <1>2, <1>8, <2>3, <2>4, ScanBecomes
<1>9. CASE InsertRow(p)
  <2>1. Becomes(p, [op |-> s.op, step |-> "scan", cid |-> s.cid, todo |-> s.todo])
    BY <1>2, <1>9, InsertRowBecomes
  <2>2. /\ s.op \in {"open", "reconcile"} /\ s.step = "insert"
        /\ rows' = rows \cup {s.cid}
        /\ client'[p].op = s.op /\ client'[p].step = "scan" /\ client'[p].todo = s.todo
    BY <1>9, <2>1 DEF Becomes, InsertRow, Reconciles
  <2>3. Coming(p)' = {} /\ Going(p)' = {} /\ Coming(p) = {s.cid} /\ Going(p) = {}
    BY <2>2 DEF Coming, Going, Is, Reconciles
  <2>4. Scanned(p)'
    BY <1>1, <1>3, <2>2, <2>3 DEF Scanned
  <2>5. ObjectIs(p)'
    BY <1>1, <2>2 DEF ObjectIs, Is
  <2> QED
    BY <1>3, <1>4, <2>2, <2>3, <2>4, <2>5
<1>10. CASE InsertRowConflict(p)
  <2>1. s.op \in {"open", "reconcile"} /\ s.step = "insert" /\ s.cid \in rows
    BY <1>10 DEF InsertRowConflict, Reconciles
  <2>2. Coming(p) = {s.cid}
    BY <2>1 DEF Coming, Reconciles
  <2> QED
    BY <1>1, <2>1, <2>2 DEF Scanned
<1>11. CASE EndOpen(p)
  <2>1. Becomes(p, Idle)
    BY <1>2, <1>11, ReturnBecomes DEF EndOpen
  <2>2. /\ s.op \in {"open", "reconcile"} /\ s.step = "scan" /\ s.todo = {} /\ rows' = rows
        /\ client'[p].op = "idle" /\ client'[p].step = "idle" /\ client'[p].todo = {}
    BY <1>11, <2>1, IdleState DEF Becomes, EndOpen, Reconciles
  <2>3. Coming(p)' = {} /\ Going(p)' = {} /\ Coming(p) = {} /\ Going(p) = {}
    BY <2>2 DEF Coming, Going, Is, Reconciles
  <2>4. Scanned(p)'
    BY <1>1, <1>3, <2>2, <2>3 DEF Scanned
  <2>5. ObjectIs(p)'
    BY <2>2 DEF ObjectIs, Is
  <2> QED
    BY <1>3, <1>4, <2>2, <2>3, <2>4, <2>5
<1> QED
  BY <1>5, <1>6, <1>7, <1>8, <1>9, <1>10, <1>11

LEMMA PutKeepsAlone ==
  ASSUME AloneInv, TypeInv', NEW p \in Client, Client = {p},
         \/ \E c \in Cid : BeginPut(p, c)
         \/ SelectRow(p) \/ ReadBlob(p) \/ RemoveBlob(p) \/ ForgetRow(p) \/ LockRows(p)
         \/ WritePartial(p) \/ RenamePartial(p) \/ CommitPut(p) \/ PutConflict(p)
  PROVE  AloneInv'
<1> DEFINE s  == client[p]
           s1 == client'[p]
           c  == s.cid
<1>1. /\ blob \in [Cid -> {"good", "bad", "none"}]
      /\ rows \subseteq Cid /\ kept \subseteq Good
      /\ s \in State /\ Knows(s)
      /\ Scanned(p) /\ ObjectIs(p)
  BY Knowing
<1>2. TypeInv
  BY DEF AloneInv
<1>3. ASSUME Return(p)
      PROVE  /\ s1.op = "idle" /\ s1.step = "idle" /\ s1.todo = {}
             /\ Coming(p)' = {} /\ Going(p)' = {} /\ ObjectIs(p)'
  <2>1. s1.op = "idle" /\ s1.step = "idle" /\ s1.todo = {}
    BY <1>2, <1>3, ReturnBecomes, IdleState DEF Becomes
  <2> QED
    BY <2>1 DEF Coming, Going, ObjectIs, Is, Reconciles
<1>4. ASSUME NEW step \in Steps, Goto(p, "put", step)
      PROVE  s1.op = "put" /\ s1.step = step /\ s1.cid = c /\ s1.todo = s.todo
  <2>1. "put" \in Ops
    BY DEF Ops
  <2>2. Becomes(p, [op |-> "put", step |-> step, cid |-> c, todo |-> s.todo])
    BY <1>2, <1>4, <2>1, GotoBecomes
  <2> QED
    BY <2>2 DEF Becomes
<1>5. ASSUME rows' \cup Good' \cup Coming(p)' \subseteq rows \cup Good \cup Coming(p),
             ~(s1.op = "put" /\ s1.step \in {"write", "rename", "commit"})
      PROVE  HasRoom(p)'
  BY <1>5, RoomStays DEF HasRoom
<1>6. ASSUME blob' = blob
      PROVE  Good' = Good /\ Present' = Present
  BY <1>6 DEF Good, Present
<1>7. Good \subseteq Present /\ Present \subseteq Cid
  BY DEF Good, Present
<1> HIDE DEF s1, s, c
<1>8. CASE \E d \in Cid : BeginPut(p, d)
  <2>1. PICK d \in Cid : BeginPut(p, d)
    BY <1>8
  <2> DEFINE step == IF blob[d] = "none" THEN "lock" ELSE "row"
             t    == At("put", step, d)
  <2>2. "put" \in Ops /\ step \in Steps /\ d \in Cid \cup {null}
    BY DEF Ops, Steps
  <2>3. step = "row" \/ (step = "lock" /\ blob[d] = "none")
    OBVIOUS
  <2>4. client' = [client EXCEPT ![p] = t] /\ s = Idle
    BY <2>1 DEF BeginPut, s
  <2> HIDE DEF step
  <2>5. t \in State /\ t.op = "put" /\ t.step = step /\ t.cid = d /\ t.todo = {}
    BY <2>2, StateAt
  <2> HIDE DEF t
  <2>6. s1.op = "put" /\ s1.step = step /\ s1.cid = d /\ s1.todo = {}
    BY <1>2, <2>4, <2>5, BecomesState DEF Becomes, s1
  <2>7. blob' = blob /\ rows' = rows /\ kept' = kept
    BY <2>1 DEF BeginPut, files
  <2>8. Coming(p)' = {} /\ Going(p)' = {} /\ Coming(p) = {} /\ Going(p) = {}
    BY <2>3, <2>4, <2>6, IdleState DEF Coming, Going, Is, Reconciles, s, s1
  <2>9. Scanned(p)'
    BY <1>1, <1>6, <2>4, <2>6, <2>7, <2>8, IdleState DEF Scanned, s, s1
  <2>10. ObjectIs(p)'
    BY <2>3, <2>6, <2>7 DEF ObjectIs, Is, s1
  <2>11. HasRoom(p)'
    BY <1>5, <1>6, <2>3, <2>6, <2>7, <2>8
  <2> QED
    BY <1>1, <1>6, <2>7, <2>9, <2>10, <2>11, OneClient
<1>9. CASE SelectRow(p)
  <2>1. /\ s.op = "put" /\ s.step = "row" /\ s.todo = {}
        /\ blob' = blob /\ rows' = rows /\ kept' = kept
    BY <1>1, <1>9 DEF SelectRow, Is, files, Knows, s
  <2>2. PICK step \in {"read", "remove"} :
          /\ Goto(p, "put", step)
          /\ step = "remove" => c \notin rows
    BY <1>9 DEF SelectRow, c, s
  <2>3. s1.op = "put" /\ s1.step = step /\ s1.cid = c /\ s1.todo = {}
    BY <1>4, <2>1, <2>2 DEF Steps
  <2>4. Coming(p)' = {} /\ Going(p)' = {} /\ Coming(p) = {} /\ Going(p) = {}
    BY <2>1, <2>3 DEF Coming, Going, Is, Reconciles, s, s1
  <2>5. Good \subseteq rows
    BY <1>1, <2>1, <2>4 DEF Scanned, s
  <2>6. Scanned(p)'
    BY <1>1, <1>6, <2>1, <2>3, <2>4 DEF Scanned, s, s1
  <2>7. c \in Cid
    BY <1>1, <2>1 DEF Knows, c, s
  <2>8. ObjectIs(p)'
    BY <2>1, <2>2, <2>3, <2>5, <2>7 DEF ObjectIs, Is, s1, Good
  <2>9. HasRoom(p)'
    BY <1>5, <1>6, <2>1, <2>3, <2>4
  <2> QED
    BY <1>1, <1>6, <2>1, <2>6, <2>8, <2>9, OneClient
<1>10. CASE ReadBlob(p)
  <2>1. /\ s.op = "put" /\ s.step = "read" /\ s.todo = {} /\ c \in Cid
        /\ blob' = blob /\ rows' = rows
    BY <1>1, <1>10 DEF ReadBlob, Is, files, Knows, s, c
  <2>2. Coming(p) = {} /\ Going(p) = {}
    BY <2>1 DEF Coming, Going, Is, Reconciles, s
  <2>3. CASE blob[c] = "good"
    <3>1. Return(p) /\ kept' = kept \cup {c}
      BY <1>10, <2>3 DEF ReadBlob, c, s
    <3>2. kept' \subseteq Good'
      BY <1>1, <1>6, <2>1, <2>3, <3>1 DEF Good
    <3>3. Scanned(p)'
      BY <1>1, <1>3, <1>6, <2>1, <2>2, <3>1 DEF Scanned, s, s1
    <3>4. HasRoom(p)'
      BY <1>3, <1>5, <1>6, <2>1, <2>2, <3>1
    <3> QED
      BY <1>3, <3>1, <3>2, <3>3, <3>4, OneClient
  <2>4. CASE blob[c] # "good"
    <3>1. Goto(p, "put", "remove") /\ kept' = kept
      BY <1>10, <2>4 DEF ReadBlob, c, s
    <3>2. s1.op = "put" /\ s1.step = "remove" /\ s1.cid = c /\ s1.todo = {}
      BY <1>4, <2>1, <3>1 DEF Steps
    <3>3. Coming(p)' = {} /\ Going(p)' = {}
      BY <3>2 DEF Coming, Going, Is, Reconciles, s1
    <3>4. Scanned(p)'
      BY <1>1, <1>6, <2>1, <2>2, <3>2, <3>3 DEF Scanned, s, s1
    <3>5. ObjectIs(p)'
      BY <2>1, <2>4, <3>2 DEF ObjectIs, Is, s1
    <3>6. HasRoom(p)'
      BY <1>5, <1>6, <2>1, <2>2, <3>2, <3>3
    <3> QED
      BY <1>1, <1>6, <2>1, <3>1, <3>4, <3>5, <3>6, OneClient
  <2> QED
    BY <2>3, <2>4
<1>11. CASE RemoveBlob(p)
  <2>1. /\ s.op = "put" /\ s.step = "remove" /\ s.todo = {} /\ c \in Cid
        /\ rows' = rows /\ kept' = kept
    BY <1>1, <1>11 DEF RemoveBlob, Is, Knows, s, c
  <2>2. Coming(p) = {} /\ Going(p) = {}
    BY <2>1 DEF Coming, Going, Is, Reconciles, s
  <2>3. blob' = [blob EXCEPT ![c] = "none"] /\ c \notin Good
    BY <1>1, <1>11, <2>1 DEF RemoveBlob, ObjectIs, Is, Good, s, c
  <2>4. Good' = Good /\ Present' = Present \ {c} /\ blob'[c] = "none"
    BY <1>1, <2>1, <2>3 DEF Good, Present
  <2>5. CASE blob[c] = "none"
    <3>1. Return(p) /\ Present' = Present
      BY <1>11, <2>4, <2>5 DEF RemoveBlob, c, s, Present
    <3>2. Scanned(p)'
      BY <1>1, <1>3, <2>1, <2>2, <2>4, <3>1 DEF Scanned, s, s1
    <3>3. HasRoom(p)'
      BY <1>3, <1>5, <2>1, <2>2, <2>4, <3>1
    <3> QED
      BY <1>1, <1>3, <2>1, <2>4, <3>1, <3>2, <3>3, OneClient
  <2>6. CASE blob[c] # "none"
    <3>1. Goto(p, "put", "forget")
      BY <1>11, <2>6 DEF RemoveBlob, c, s
    <3>2. s1.op = "put" /\ s1.step = "forget" /\ s1.cid = c /\ s1.todo = {}
      BY <1>4, <2>1, <3>1 DEF Steps
    <3>3. Coming(p)' = {} /\ Going(p)' = {c}
      BY <3>2 DEF Coming, Going, Is, Reconciles, s1
    <3>4. Scanned(p)'
      BY <1>1, <2>1, <2>2, <2>4, <3>2, <3>3 DEF Scanned, s, s1
    <3>5. ObjectIs(p)'
      BY <2>4, <3>2 DEF ObjectIs, Is, s1
    <3>6. HasRoom(p)'
      BY <1>5, <2>1, <2>2, <2>4, <3>2, <3>3
    <3> QED
      BY <1>1, <2>1, <2>4, <3>4, <3>5, <3>6, OneClient
  <2> QED
    BY <2>5, <2>6
<1>12. CASE ForgetRow(p)
  <2>1. /\ s.op = "put" /\ s.step = "forget" /\ s.todo = {} /\ c \in Cid
        /\ blob' = blob /\ rows' = rows \ {c} /\ kept' = kept /\ Goto(p, "put", "lock")
    BY <1>1, <1>12 DEF ForgetRow, Is, files, Knows, s, c
  <2>2. s1.op = "put" /\ s1.step = "lock" /\ s1.cid = c /\ s1.todo = {}
    BY <1>4, <2>1 DEF Steps
  <2>3. Coming(p)' = {} /\ Going(p)' = {} /\ Coming(p) = {} /\ Going(p) = {c}
    BY <2>1, <2>2 DEF Coming, Going, Is, Reconciles, s, s1, c
  <2>4. blob[c] = "none" /\ c \notin Good
    BY <1>1, <2>1 DEF ObjectIs, Good, s, c
  <2>5. Scanned(p)'
    BY <1>1, <1>6, <2>1, <2>2, <2>3, <2>4 DEF Scanned, s, s1
  <2>6. ObjectIs(p)'
    BY <2>1, <2>2, <2>4 DEF ObjectIs, Is, s1
  <2>7. HasRoom(p)'
    BY <1>5, <1>6, <2>1, <2>2, <2>3
  <2> QED
    BY <1>1, <1>6, <2>1, <2>5, <2>6, <2>7, OneClient
<1>13. CASE LockRows(p)
  <2>1. /\ s.op = "put" /\ s.step = "lock" /\ s.todo = {} /\ c \in Cid
        /\ blob' = blob /\ rows' = rows /\ kept' = kept
    BY <1>1, <1>13 DEF LockRows, Is, files, Knows, s, c
  <2>2. Coming(p) = {} /\ Going(p) = {}
    BY <2>1 DEF Coming, Going, Is, Reconciles, s
  <2>3. CASE OverQuota
    <3>1. Return(p)
      BY <1>13, <2>3 DEF LockRows
    <3>2. Scanned(p)'
      BY <1>1, <1>3, <1>6, <2>1, <2>2, <3>1 DEF Scanned, s, s1
    <3>3. HasRoom(p)'
      BY <1>3, <1>5, <1>6, <2>1, <2>2, <3>1
    <3> QED
      BY <1>1, <1>3, <1>6, <2>1, <3>1, <3>2, <3>3, OneClient
  <2>4. CASE ~OverQuota
    <3>1. Goto(p, "put", "write")
      BY <1>13, <2>4 DEF LockRows
    <3>2. s1.op = "put" /\ s1.step = "write" /\ s1.cid = c /\ s1.todo = {}
      BY <1>4, <2>1, <3>1 DEF Steps
    <3>3. Coming(p)' = {} /\ Going(p)' = {}
      BY <3>2 DEF Coming, Going, Is, Reconciles, s1
    <3>4. Scanned(p)'
      BY <1>1, <1>6, <2>1, <2>2, <3>2, <3>3 DEF Scanned, s, s1
    <3>5. ObjectIs(p)'
      BY <1>1, <2>1, <3>2 DEF ObjectIs, Is, s, s1, c
    <3>6. IsFiniteSet(rows)
      BY RoomStays
    <3>7. Cardinality(rows) + 1 <= Quota
      BY <2>4, <3>6, FS_CardinalityType, QuotaAssumption DEF OverQuota
    <3>8. rows' \cup Good' \cup Coming(p)' = rows \cup Good \cup Coming(p)
      BY <1>6, <2>1, <2>2, <3>3
    <3>9. HasRoom(p)'
      BY <2>1, <3>7, <3>8, RoomStays DEF HasRoom
    <3> QED
      BY <1>1, <1>6, <2>1, <3>4, <3>5, <3>9, OneClient
  <2> QED
    BY <2>3, <2>4
<1>14. CASE WritePartial(p)
  <2>1. /\ s.op = "put" /\ s.step = "write" /\ s.todo = {} /\ c \in Cid
        /\ blob' = blob /\ rows' = rows /\ kept' = kept /\ Goto(p, "put", "rename")
    BY <1>1, <1>14 DEF WritePartial, Is, Knows, s, c
  <2>2. s1.op = "put" /\ s1.step = "rename" /\ s1.cid = c /\ s1.todo = {}
    BY <1>4, <2>1 DEF Steps
  <2>3. Coming(p)' = {} /\ Going(p)' = {} /\ Coming(p) = {} /\ Going(p) = {}
    BY <2>1, <2>2 DEF Coming, Going, Is, Reconciles, s, s1
  <2>4. Scanned(p)'
    BY <1>1, <1>6, <2>1, <2>2, <2>3 DEF Scanned, s, s1
  <2>5. ObjectIs(p)'
    BY <1>1, <2>1, <2>2 DEF ObjectIs, Is, s, s1, c
  <2>6. Cardinality(rows) + 1 <= Quota
    BY <2>1 DEF AloneInv, HasRoom, s
  <2>7. rows' \cup Good' \cup Coming(p)' = rows \cup Good \cup Coming(p)
    BY <1>6, <2>1, <2>3
  <2>8. HasRoom(p)'
    BY <2>1, <2>6, <2>7, RoomStays DEF HasRoom
  <2> QED
    BY <1>1, <1>6, <2>1, <2>4, <2>5, <2>8, OneClient
<1>15. CASE RenamePartial(p)
  <2>1. /\ s.op = "put" /\ s.step = "rename" /\ s.todo = {} /\ c \in Cid
        /\ rows' = rows /\ kept' = kept
    BY <1>1, <1>15 DEF RenamePartial, Is, Knows, s, c
  <2>2. Coming(p) = {} /\ Going(p) = {}
    BY <2>1 DEF Coming, Going, Is, Reconciles, s
  <2>3. CASE c \in partial
    <3>1. Goto(p, "put", "commit") /\ blob' = [blob EXCEPT ![c] = "good"]
      BY <1>15, <2>3 DEF RenamePartial, c, s
    <3>2. s1.op = "put" /\ s1.step = "commit" /\ s1.cid = c /\ s1.todo = {}
      BY <1>4, <2>1, <3>1 DEF Steps
    <3>3. Coming(p)' = {c} /\ Going(p)' = {}
      BY <3>2 DEF Coming, Going, Is, Reconciles, s1
    <3>4. Good' = Good \cup {c} /\ Present' = Present \cup {c}
      BY <1>1, <2>1, <3>1 DEF Good, Present
    <3>5. rows \subseteq Present /\ Good \subseteq rows
      BY <1>1, <2>1, <2>2 DEF Scanned, s
    <3>6. c \notin rows
      BY <1>1, <2>1, <3>5 DEF ObjectIs, Present, s, c
    <3>7. Scanned(p)'
      BY <2>1, <3>2, <3>3, <3>4, <3>5, <3>6 DEF Scanned, s1
    <3>8. ObjectIs(p)'
      BY <3>2 DEF ObjectIs, Is, s1
    <3>9. IsFiniteSet(rows) /\ Cardinality(rows) + 1 <= Quota
      BY <2>1, RoomStays DEF AloneInv, HasRoom, s
    <3>10. rows' \cup Good' \cup Coming(p)' = rows \cup {c}
      BY <2>1, <3>3, <3>4, <3>5
    <3>11. IsFiniteSet(rows \cup {c}) /\ Cardinality(rows \cup {c}) = Cardinality(rows) + 1
      BY <3>6, <3>9, FS_AddElement
    <3>12. HasRoom(p)'
      BY <2>1, <3>9, <3>10, <3>11 DEF HasRoom
    <3> QED
      BY <1>1, <2>1, <3>4, <3>7, <3>8, <3>12, OneClient
  <2>4. CASE c \notin partial
    <3>1. Return(p) /\ blob' = blob
      BY <1>15, <2>4 DEF RenamePartial, c, s
    <3>2. Scanned(p)'
      BY <1>1, <1>3, <1>6, <2>1, <2>2, <3>1 DEF Scanned, s, s1
    <3>3. HasRoom(p)'
      BY <1>3, <1>5, <1>6, <2>1, <2>2, <3>1
    <3> QED
      BY <1>1, <1>3, <1>6, <2>1, <3>1, <3>2, <3>3, OneClient
  <2> QED
    BY <2>3, <2>4
<1>16. CASE CommitPut(p)
  <2>1. /\ s.op = "put" /\ s.step = "commit" /\ s.todo = {} /\ c \in Cid
        /\ blob' = blob /\ rows' = rows \cup {c} /\ Return(p)
        /\ kept' = kept \cup ({c} \cap Good)
    BY <1>1, <1>16 DEF CommitPut, Is, files, Knows, Good, s, c
  <2>2. Coming(p) = {c} /\ Going(p) = {}
    BY <2>1 DEF Coming, Going, Is, Reconciles, s, c
  <2>3. Scanned(p)'
    BY <1>1, <1>3, <1>6, <2>1, <2>2 DEF Scanned, s, s1
  <2>4. HasRoom(p)'
    BY <1>3, <1>5, <1>6, <2>1, <2>2
  <2> QED
    BY <1>1, <1>3, <1>6, <2>1, <2>3, <2>4, OneClient
<1>17. CASE PutConflict(p)
  <2>1. s.op = "put" /\ s.step = "commit" /\ c \in rows
    BY <1>17 DEF PutConflict, Is, s, c
  <2>2. Coming(p) = {c}
    BY <2>1 DEF Coming, Is, s, c
  <2> QED
    BY <1>1, <2>1, <2>2 DEF Scanned, s
<1> QED
  BY <1>8, <1>9, <1>10, <1>11, <1>12, <1>13, <1>14, <1>15, <1>16, <1>17

LEMMA DeleteKeepsAlone ==
  ASSUME AloneInv, TypeInv', NEW p \in Client, Client = {p},
         \/ \E c \in Cid : BeginDelete(p, c)
         \/ ForgetMissing(p) \/ SetAside(p) \/ CommitDelete(p) \/ RemoveTomb(p)
  PROVE  AloneInv'
<1> DEFINE s  == client[p]
           s1 == client'[p]
           c  == s.cid
<1>1. /\ blob \in [Cid -> {"good", "bad", "none"}]
      /\ rows \subseteq Cid /\ kept \subseteq Good
      /\ s \in State /\ Knows(s)
      /\ Scanned(p) /\ ObjectIs(p)
  BY Knowing
<1>2. TypeInv
  BY DEF AloneInv
<1>3. ASSUME Return(p)
      PROVE  /\ s1.op = "idle" /\ s1.step = "idle" /\ s1.todo = {}
             /\ Coming(p)' = {} /\ Going(p)' = {} /\ ObjectIs(p)'
  <2>1. s1.op = "idle" /\ s1.step = "idle" /\ s1.todo = {}
    BY <1>2, <1>3, ReturnBecomes, IdleState DEF Becomes
  <2> QED
    BY <2>1 DEF Coming, Going, ObjectIs, Is, Reconciles
<1>4. ASSUME NEW step \in Steps, Goto(p, "delete", step)
      PROVE  s1.op = "delete" /\ s1.step = step /\ s1.cid = c /\ s1.todo = s.todo
  <2>1. "delete" \in Ops
    BY DEF Ops
  <2>2. Becomes(p, [op |-> "delete", step |-> step, cid |-> c, todo |-> s.todo])
    BY <1>2, <1>4, <2>1, GotoBecomes
  <2> QED
    BY <2>2 DEF Becomes
<1>5. ASSUME rows' \cup Good' \cup Coming(p)' \subseteq rows \cup Good \cup Coming(p),
             s1.op # "put"
      PROVE  HasRoom(p)'
  BY <1>5, RoomStays DEF HasRoom
<1>6. ASSUME blob' = blob
      PROVE  Good' = Good /\ Present' = Present
  BY <1>6 DEF Good, Present
<1>7. Good \subseteq Present /\ Present \subseteq Cid
  BY DEF Good, Present
<1> HIDE DEF s1, s, c
<1>8. CASE \E d \in Cid : BeginDelete(p, d)
  <2>1. PICK d \in Cid : BeginDelete(p, d)
    BY <1>8
  <2> DEFINE step == IF blob[d] = "none" THEN "forget" ELSE "rename"
             t    == At("delete", step, d)
  <2>2. "delete" \in Ops /\ step \in Steps /\ d \in Cid \cup {null}
    BY DEF Ops, Steps
  <2>3. step = "rename" \/ (step = "forget" /\ blob[d] = "none")
    OBVIOUS
  <2>4. client' = [client EXCEPT ![p] = t] /\ s = Idle
    BY <2>1 DEF BeginDelete, s
  <2> HIDE DEF step
  <2>5. t \in State /\ t.op = "delete" /\ t.step = step /\ t.cid = d /\ t.todo = {}
    BY <2>2, StateAt
  <2> HIDE DEF t
  <2>6. s1.op = "delete" /\ s1.step = step /\ s1.cid = d /\ s1.todo = {}
    BY <1>2, <2>4, <2>5, BecomesState DEF Becomes, s1
  <2>7. blob' = blob /\ rows' = rows /\ kept' = kept \ {d}
    BY <2>1 DEF BeginDelete, files
  <2>8. Coming(p)' = {} /\ Going(p)' = {} /\ Coming(p) = {} /\ Going(p) = {}
    BY <2>3, <2>4, <2>6, IdleState DEF Coming, Going, Is, Reconciles, s, s1
  <2>9. Scanned(p)'
    BY <1>1, <1>6, <2>4, <2>6, <2>7, <2>8, IdleState DEF Scanned, s, s1
  <2>10. ObjectIs(p)'
    BY <2>3, <2>6, <2>7 DEF ObjectIs, Is, s1
  <2>11. HasRoom(p)'
    BY <1>5, <1>6, <2>6, <2>7, <2>8
  <2> QED
    BY <1>1, <1>6, <2>7, <2>9, <2>10, <2>11, OneClient
<1>9. CASE ForgetMissing(p)
  <2>1. /\ s.op = "delete" /\ s.step = "forget" /\ s.todo = {} /\ c \in Cid
        /\ blob' = blob /\ rows' = rows \ {c} /\ kept' = kept /\ Return(p)
    BY <1>1, <1>9 DEF ForgetMissing, Is, files, Knows, s, c
  <2>2. Coming(p) = {} /\ Going(p) = {}
    BY <2>1 DEF Coming, Going, Is, Reconciles, s
  <2>3. c \notin Good
    BY <1>1, <2>1 DEF ObjectIs, Good, s, c
  <2>4. Scanned(p)'
    BY <1>1, <1>3, <1>6, <2>1, <2>2, <2>3 DEF Scanned, s, s1
  <2>5. HasRoom(p)'
    BY <1>3, <1>5, <1>6, <2>1, <2>2
  <2> QED
    BY <1>1, <1>3, <1>6, <2>1, <2>4, <2>5, OneClient
<1>10. CASE SetAside(p)
  <2>1. /\ s.op = "delete" /\ s.step = "rename" /\ s.todo = {} /\ c \in Cid
        /\ rows' = rows /\ kept' = kept
    BY <1>1, <1>10 DEF SetAside, Is, Knows, s, c
  <2>2. Coming(p) = {} /\ Going(p) = {}
    BY <2>1 DEF Coming, Going, Is, Reconciles, s
  <2>3. CASE blob[c] = "none"
    <3>1. Return(p) /\ blob' = blob
      BY <1>10, <2>3 DEF SetAside, c, s
    <3>2. Scanned(p)'
      BY <1>1, <1>3, <1>6, <2>1, <2>2, <3>1 DEF Scanned, s, s1
    <3>3. HasRoom(p)'
      BY <1>3, <1>5, <1>6, <2>1, <2>2, <3>1
    <3> QED
      BY <1>1, <1>3, <1>6, <2>1, <3>1, <3>2, <3>3, OneClient
  <2>4. CASE blob[c] # "none"
    <3>1. Goto(p, "delete", "commit") /\ blob' = [blob EXCEPT ![c] = "none"]
      BY <1>10, <2>4 DEF SetAside, c, s
    <3>2. s1.op = "delete" /\ s1.step = "commit" /\ s1.cid = c /\ s1.todo = {}
      BY <1>4, <2>1, <3>1 DEF Steps
    <3>3. Coming(p)' = {} /\ Going(p)' = {c}
      BY <3>2 DEF Coming, Going, Is, Reconciles, s1
    <3>4. Good' = Good \ {c} /\ Present' = Present \ {c} /\ blob'[c] = "none"
      BY <1>1, <2>1, <3>1 DEF Good, Present
    <3>5. c \notin kept
      BY <1>1, <2>1 DEF ObjectIs, s, c
    <3>6. Scanned(p)'
      BY <1>1, <2>1, <2>2, <3>2, <3>3, <3>4 DEF Scanned, s, s1
    <3>7. ObjectIs(p)'
      BY <2>1, <3>2, <3>4, <3>5 DEF ObjectIs, Is, s1
    <3>8. HasRoom(p)'
      BY <1>5, <2>1, <2>2, <3>2, <3>3, <3>4
    <3> QED
      BY <1>1, <2>1, <3>4, <3>5, <3>6, <3>7, <3>8, OneClient
  <2> QED
    BY <2>3, <2>4
<1>11. CASE CommitDelete(p)
  <2>1. /\ s.op = "delete" /\ s.step = "commit" /\ s.todo = {} /\ c \in Cid
        /\ blob' = blob /\ rows' = rows \ {c} /\ kept' = kept /\ Goto(p, "delete", "unlink")
    BY <1>1, <1>11 DEF CommitDelete, Is, files, Knows, s, c
  <2>2. s1.op = "delete" /\ s1.step = "unlink" /\ s1.cid = c /\ s1.todo = {}
    BY <1>4, <2>1 DEF Steps
  <2>3. Coming(p)' = {} /\ Going(p)' = {} /\ Coming(p) = {} /\ Going(p) = {c}
    BY <2>1, <2>2 DEF Coming, Going, Is, Reconciles, s, s1, c
  <2>4. blob[c] = "none" /\ c \notin Good /\ c \notin kept
    BY <1>1, <2>1 DEF ObjectIs, Good, s, c
  <2>5. Scanned(p)'
    BY <1>1, <1>6, <2>1, <2>2, <2>3, <2>4 DEF Scanned, s, s1
  <2>6. ObjectIs(p)'
    BY <2>1, <2>2, <2>4 DEF ObjectIs, Is, s1
  <2>7. HasRoom(p)'
    BY <1>5, <1>6, <2>1, <2>2, <2>3
  <2> QED
    BY <1>1, <1>6, <2>1, <2>5, <2>6, <2>7, OneClient
<1>12. CASE RemoveTomb(p)
  <2>1. /\ s.op = "delete" /\ s.step = "unlink" /\ s.todo = {}
        /\ blob' = blob /\ rows' = rows /\ kept' = kept /\ Return(p)
    BY <1>1, <1>12 DEF RemoveTomb, Is, Knows, s
  <2>2. Coming(p) = {} /\ Going(p) = {}
    BY <2>1 DEF Coming, Going, Is, Reconciles, s
  <2>3. Scanned(p)'
    BY <1>1, <1>3, <1>6, <2>1, <2>2 DEF Scanned, s, s1
  <2>4. HasRoom(p)'
    BY <1>3, <1>5, <1>6, <2>1, <2>2
  <2> QED
    BY <1>1, <1>3, <1>6, <2>1, <2>3, <2>4, OneClient
<1> QED
  BY <1>8, <1>9, <1>10, <1>11, <1>12

LEMMA FaultsKeepAlone ==
  ASSUME AloneInv, TypeInv', NEW p \in Client, Client = {p},
         Crash(p) \/ \E c \in Cid : Damage(c)
  PROVE  AloneInv'
<1> DEFINE s == client[p]
<1>1. /\ blob \in [Cid -> {"good", "bad", "none"}]
      /\ rows \subseteq Cid /\ kept \subseteq Good
      /\ s \in State /\ Knows(s)
      /\ Scanned(p) /\ ObjectIs(p)
  BY Knowing
<1>2. CASE Crash(p)
  <2>1. Becomes(p, Closed)
    BY <1>2, BecomesState, IdleState DEF Crash, AloneInv
  <2>2. /\ client'[p].op = "closed" /\ client'[p].step = "closed"
        /\ blob' = blob /\ rows' = rows /\ kept' = kept
    BY <1>2, <2>1, IdleState DEF Becomes, Crash, files
  <2>3. Coming(p)' = {} /\ Scanned(p)' /\ ObjectIs(p)'
    BY <2>2 DEF Coming, Scanned, ObjectIs, Is, Reconciles
  <2>4. Good' = Good
    BY <2>2 DEF Good
  <2>5. HasRoom(p)'
    BY <2>2, <2>3, <2>4, RoomStays DEF HasRoom
  <2> QED
    BY <1>1, <2>2, <2>3, <2>4, <2>5, OneClient
<1>3. CASE \E c \in Cid : Damage(c)
  <2>1. PICK c \in Cid : Damage(c)
    BY <1>3
  <2>2. /\ blob[c] = "good" /\ blob' = [blob EXCEPT ![c] = "bad"]
        /\ kept' = kept \ {c} /\ rows' = rows /\ client' = client
    BY <2>1 DEF Damage
  <2>3. Good' = Good \ {c} /\ Present' = Present
    BY <1>1, <2>2 DEF Good, Present
  <2>4. Coming(p)' = Coming(p) /\ Going(p)' = Going(p)
    BY <2>2 DEF Coming, Going, Is, Reconciles
  <2>5. Scanned(p)'
    BY <1>1, <2>2, <2>3, <2>4 DEF Scanned
  <2>6. \A d \in Cid : blob[d] = "none" => blob'[d] = "none"
    BY <1>1, <2>2
  <2>7. \A d \in Cid : blob'[d] = "good" => blob[d] = "good"
    BY <1>1, <2>2
  <2>8. s.op \in {"put", "delete"} => s.cid \in Cid
    BY <1>1 DEF Knows
  <2>9. ObjectIs(p)'
    BY <1>1, <2>2, <2>6, <2>7, <2>8 DEF ObjectIs, Is
  <2>10. rows' \cup Good' \cup Coming(p)' \subseteq rows \cup Good \cup Coming(p)
    BY <2>2, <2>3, <2>4
  <2>11. s.op = "put" /\ s.step \in {"write", "rename", "commit"}
           => Cardinality(rows) + 1 <= Quota
    BY DEF AloneInv, HasRoom
  <2>12. HasRoom(p)'
    BY <2>2, <2>10, <2>11, RoomStays DEF HasRoom
  <2> QED
    BY <1>1, <2>2, <2>3, <2>5, <2>9, <2>12, OneClient
<1> QED
  BY <1>2, <1>3

LEMMA InitAlone ==
  ASSUME Init, NEW p \in Client, Client = {p}
  PROVE  AloneInv
<1>1. TypeInv
  BY InitTypes
<1>2. client[p].op = "closed" /\ client[p].step = "closed"
  BY IdleState DEF Init
<1>3. Coming(p) = {} /\ Scanned(p) /\ ObjectIs(p)
  BY <1>2 DEF Coming, Scanned, ObjectIs, Is, Reconciles
<1>4. rows = {} /\ Good = {} /\ kept = {}
  BY DEF Init, Good
<1>5. HasRoom(p)
  BY <1>2, <1>3, <1>4, FS_EmptySet, QuotaAssumption DEF HasRoom
<1> QED
  BY <1>1, <1>3, <1>4, <1>5 DEF AloneInv

LEMMA NextKeepsAlone ==
  ASSUME NEW p \in Client, Client = {p}, Fault \subseteq {"crash", "damage"},
         AloneInv, [Next]_vars
  PROVE  AloneInv'
<1>1. TypeInv'
  BY NextKeepsTypes DEF AloneInv
<1>2. ~ (\E q \in Client : Fail(q)) /\ ~ (\E c \in Cid : Lose(c))
  BY DEF Fail, Lose, Happens
<1>3. CASE Next
  <2>1. \/ Open(p) \/ Close(p) \/ Step(p) \/ Crash(p)
        \/ \E c \in Cid : BeginPut(p, c) \/ BeginDelete(p, c) \/ Damage(c)
    BY <1>2, <1>3 DEF Next
  <2> QED
    BY <1>1, <2>1, ReconcileKeepsAlone, PutKeepsAlone, DeleteKeepsAlone, FaultsKeepAlone
    DEF Step
<1>4. CASE UNCHANGED vars
  <2>1. /\ blob' = blob /\ rows' = rows /\ kept' = kept /\ client' = client
    BY <1>4 DEF vars
  <2> QED
    BY <1>1, <2>1 DEF AloneInv, Scanned, ObjectIs, HasRoom, Good, Present, Coming, Going,
                      Is, Reconciles
<1> QED
  BY <1>3, <1>4

LEMMA AloneInvHolds ==
  ASSUME Alone
  PROVE  Spec => []AloneInv
<1>1. PICK p \in Client : Client = {p}
  BY DEF Alone
<1>2. Init => AloneInv
  BY <1>1, InitAlone
<1>3. AloneInv /\ [Next]_vars => AloneInv'
  BY <1>1, NextKeepsAlone DEF Alone
<1> QED
  BY <1>2, <1>3, PTL DEF Spec

(***************************************************************************)
(* While it is quiet, the store has a row for every good blob and a blob   *)
(* for every row.                                                          *)
(***************************************************************************)
LEMMA QuietStore ==
  ASSUME Alone, AloneInv, Quiet
  PROVE  Good \subseteq rows /\ rows \subseteq Present
<1>1. PICK p \in Client : Client = {p}
  BY DEF Alone
<1>2. client[p].op = "idle" /\ client[p].step = "idle" /\ client[p].todo = {}
  BY <1>1, IdleState DEF Quiet
<1>3. Coming(p) = {} /\ Going(p) = {}
  BY <1>2 DEF Coming, Going, Is, Reconciles
<1>4. Scanned(p)
  BY <1>1 DEF AloneInv
<1> QED
  BY <1>2, <1>3, <1>4 DEF Scanned

(***************************************************************************)
(* What one process stored stays: through every crash at every step of     *)
(* every later operation, and for every quota, the object is in its file   *)
(* until it is deleted or the disk damages it, and has a row whenever the  *)
(* store is open and quiet.                                                *)
(***************************************************************************)
THEOREM StoredStays ==
  ASSUME Alone
  PROVE  Spec => []KeptObjectsStay
<1>1. AloneInv => KeptObjectsStay
  BY QuietStore DEF AloneInv, KeptObjectsStay, Good
<1> QED
  BY <1>1, AloneInvHolds, PTL

(***************************************************************************)
(* Whenever the store of one process is open and quiet, the table is what  *)
(* a scan of the files would make of it: reconcile is a repair, and no     *)
(* operation, crash or damaged file makes it necessary.                    *)
(***************************************************************************)
THEOREM TableIsTheFiles ==
  ASSUME Alone
  PROVE  Spec => []RowsMatchFiles
<1>1. AloneInv => RowsMatchFiles
  BY QuietStore DEF AloneInv, RowsMatchFiles, Good, Present, TypeInv, TypeOK
<1> QED
  BY <1>1, AloneInvHolds, PTL

(***************************************************************************)
(* The rows of one process's store never exceed the quota, although        *)
(* opening the store inserts a row for every good file without a look at   *)
(* the quota.                                                              *)
(***************************************************************************)
THEOREM WithinQuota ==
  ASSUME Alone
  PROVE  Spec => []QuotaHolds
<1>1. AloneInv => QuotaHolds
  BY RoomStays DEF Alone, QuotaHolds
<1> QED
  BY <1>1, AloneInvHolds, PTL
=============================================================================
