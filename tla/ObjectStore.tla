----------------------------- MODULE ObjectStore -----------------------------
(***************************************************************************)
(* The content-addressed store of a storage node: one file per object and  *)
(* one row of an SQLite table that accounts for it.  An operation changes  *)
(* files and rows in separate steps, only the rows of a put are written    *)
(* under the database's write lock, and opening the store rebuilds every   *)
(* row from the files.  Several processes open one store: a node serves    *)
(* it, and the repair tasks of other nodes open it to copy from it.        *)
(*                                                                         *)
(* All objects have one size, so that Quota counts objects.  A file holds  *)
(* its object or something else, whatever that is.  get changes nothing    *)
(* and returns an object that is Readable.                                 *)
(***************************************************************************)
EXTENDS Naturals, FiniteSets

CONSTANTS Cid, Client, null,
          Quota,
          Fault,     \* the kinds of fault that occur
          MaxFaults  \* bound: how many of them

FaultKind == {"crash", "damage", "loss", "error"}

ASSUME FaultAssumption  == Fault \subseteq FaultKind /\ MaxFaults \in Nat
ASSUME QuotaAssumption  == Quota \in Nat
ASSUME NullAssumption   == null \notin Client /\ null \notin Cid

VARIABLES
  blob,     \* <cid>.blob: "good", "bad" or "none"
  partial,  \* the objects of which there is a .partial file
  tomb,     \* <cid>.gc: "good", "bad" or "none"
  rows,     \* the objects in the table
  writer,   \* the client whose transaction holds the write lock, or null
  client,   \* where each client stands
  kept,     \* objects whose put was answered, not deleted or damaged since
  faults

vars == <<blob, partial, tomb, rows, writer, client, kept, faults>>
files == <<blob, partial, tomb>>

At(op, step, c) == [op |-> op, step |-> step, cid |-> c, todo |-> {}]
Closed == At("closed", "closed", null)
Idle   == At("idle", "idle", null)

Init ==
  /\ blob = [c \in Cid |-> "none"]
  /\ partial = {}
  /\ tomb = [c \in Cid |-> "none"]
  /\ rows = {}
  /\ writer = null
  /\ client = [p \in Client |-> Closed]
  /\ kept = {}
  /\ faults = 0

Goto(p, op, step) == client' = [client EXCEPT ![p].op = op, ![p].step = step]
Return(p) == client' = [client EXCEPT ![p] = Idle]
Is(p, op, step) == client[p].op = op /\ client[p].step = step
Reconciles(p, step) == client[p].op \in {"open", "reconcile"} /\ client[p].step = step

\* An error closes a store that was being opened.
GiveUp(p) ==
  client' = [client EXCEPT ![p] = IF @.op = "open" THEN Closed ELSE Idle]

Unlocked == writer = null
Release(p) == writer' = IF writer = p THEN null ELSE writer
-----------------------------------------------------------------------------
(***************************************************************************)
(* new and reconcile.                                                      *)
(***************************************************************************)
Open(p) ==
  /\ client[p] = Closed
  /\ Goto(p, "open", "clear")
  /\ UNCHANGED <<files, rows, writer, kept, faults>>

\* The process ends between two operations.
Close(p) ==
  /\ client[p] = Idle
  /\ client' = [client EXCEPT ![p] = Closed]
  /\ UNCHANGED <<files, rows, writer, kept, faults>>

ClearRows(p) ==
  /\ Reconciles(p, "clear") /\ Unlocked
  /\ rows' = {}
  /\ client' = [client EXCEPT ![p].step = "scan", ![p].todo = Cid]
  /\ UNCHANGED <<files, writer, kept, faults>>

\* A directory is listed, then its files are looked at.  A file that another
\* process has removed in between is an error.
LookAt(p, c, step) ==
  client' = [client EXCEPT
    ![p].cid = c, ![p].step = step,
    ![p].todo = IF step \in {"clean", "check"} THEN @ ELSE @ \ {c}]

BlobStep(c) == IF blob[c] = "none" THEN "scan" ELSE "check"

ListFiles(p) ==
  /\ Reconciles(p, "scan")
  /\ \E c \in client[p].todo : LookAt(p, c, IF c \in partial THEN "clean" ELSE BlobStep(c))
  /\ UNCHANGED <<files, rows, writer, kept, faults>>

RemovePartial(p) ==
  /\ Reconciles(p, "clean")
  /\ LET c == client[p].cid
     IN  /\ IF c \in partial THEN LookAt(p, c, BlobStep(c)) ELSE GiveUp(p)
         /\ partial' = partial \ {c}
  /\ UNCHANGED <<blob, tomb, rows, writer, kept, faults>>

\* A blob that is what its name says gets a row; others, and .gc files, are
\* passed over.
CheckBlob(p) ==
  /\ Reconciles(p, "check")
  /\ LET c == client[p].cid
     IN  IF blob[c] = "none"
         THEN GiveUp(p)
         ELSE LookAt(p, c, IF blob[c] = "good" THEN "insert" ELSE "scan")
  /\ UNCHANGED <<files, rows, writer, kept, faults>>

InsertRow(p) ==
  /\ Reconciles(p, "insert") /\ Unlocked
  /\ client[p].cid \notin rows
  /\ rows' = rows \cup {client[p].cid}
  /\ client' = [client EXCEPT ![p].step = "scan"]
  /\ UNCHANGED <<files, writer, kept, faults>>

\* The row is there already: opening the store fails.
InsertRowConflict(p) ==
  /\ Reconciles(p, "insert") /\ Unlocked
  /\ client[p].cid \in rows
  /\ GiveUp(p)
  /\ UNCHANGED <<files, rows, writer, kept, faults>>

EndOpen(p) ==
  /\ Reconciles(p, "scan")
  /\ client[p].todo = {}
  /\ Return(p)
  /\ UNCHANGED <<files, rows, writer, kept, faults>>
-----------------------------------------------------------------------------
(***************************************************************************)
(* put: nothing to do if get returns the object; otherwise what is there   *)
(* is removed, and the object is written and renamed into place within the *)
(* transaction that adds its row.                                          *)
(***************************************************************************)
BeginPut(p, c) ==
  /\ client[p] = Idle
  /\ client' = [client EXCEPT
       ![p] = At("put", IF blob[c] = "none" THEN "lock" ELSE "row", c)]
  /\ UNCHANGED <<files, rows, writer, kept, faults>>

\* Mutant: always writes the object again.
SelectNothing(p) ==
  /\ Is(p, "put", "row")
  /\ Goto(p, "put", "remove")
  /\ UNCHANGED <<files, rows, writer, kept, faults>>

SelectRow(p) ==
  /\ Is(p, "put", "row")
  /\ Goto(p, "put", IF client[p].cid \in rows THEN "read" ELSE "remove")
  /\ UNCHANGED <<files, rows, writer, kept, faults>>

ReadBlob(p) ==
  /\ Is(p, "put", "read")
  /\ IF blob[client[p].cid] = "good"
     THEN Return(p) /\ kept' = kept \cup {client[p].cid}
     ELSE Goto(p, "put", "remove") /\ UNCHANGED kept
  /\ UNCHANGED <<files, rows, writer, faults>>

\* remove_file; it fails when somebody else has removed the file.
RemoveBlob(p) ==
  /\ Is(p, "put", "remove")
  /\ LET c == client[p].cid
     IN  /\ IF blob[c] = "none" THEN Return(p) ELSE Goto(p, "put", "forget")
         /\ blob' = [blob EXCEPT ![c] = "none"]
  /\ UNCHANGED <<partial, tomb, rows, writer, kept, faults>>

ForgetRow(p) ==
  /\ Is(p, "put", "forget") /\ Unlocked
  /\ rows' = rows \ {client[p].cid}
  /\ Goto(p, "put", "lock")
  /\ UNCHANGED <<files, writer, kept, faults>>

\* Mutant: compares the objects that are there, without the new one.
OverQuotaAlready == Cardinality(rows) > Quota

OverQuota == Cardinality(rows) + 1 > Quota

\* Mutant: the transaction outlives the quota error.
LockRowsForEver(p) ==
  /\ Is(p, "put", "lock") /\ Unlocked
  /\ IF OverQuota THEN Return(p) ELSE Goto(p, "put", "write")
  /\ writer' = p
  /\ UNCHANGED <<files, rows, kept, faults>>

\* BEGIN IMMEDIATE and the quota check.
LockRows(p) ==
  /\ Is(p, "put", "lock") /\ Unlocked
  /\ IF OverQuota
     THEN Return(p) /\ UNCHANGED writer
     ELSE Goto(p, "put", "write") /\ writer' = p
  /\ UNCHANGED <<files, rows, kept, faults>>

WritePartial(p) ==
  /\ Is(p, "put", "write")
  /\ partial' = partial \cup {client[p].cid}
  /\ Goto(p, "put", "rename")
  /\ UNCHANGED <<blob, tomb, rows, writer, kept, faults>>

\* The rename fails when a reconcile has removed the partial file.
RenamePartial(p) ==
  /\ Is(p, "put", "rename")
  /\ LET c == client[p].cid
     IN  IF c \in partial
         THEN /\ blob' = [blob EXCEPT ![c] = "good"]
              /\ partial' = partial \ {c}
              /\ Goto(p, "put", "commit") /\ UNCHANGED writer
         ELSE Return(p) /\ Release(p) /\ UNCHANGED <<blob, partial>>
  /\ UNCHANGED <<tomb, rows, kept, faults>>

CommitPut(p) ==
  /\ Is(p, "put", "commit")
  /\ client[p].cid \notin rows
  /\ rows' = rows \cup {client[p].cid}
  /\ kept' = kept \cup {c \in {client[p].cid} : blob[c] = "good"}
  /\ Release(p)
  /\ Return(p)
  /\ UNCHANGED <<files, faults>>

\* Mutant: the transaction outlives the failed INSERT.
PutConflictLocked(p) ==
  /\ Is(p, "put", "commit")
  /\ client[p].cid \in rows
  /\ blob' = [blob EXCEPT ![client[p].cid] = "none"]
  /\ Return(p)
  /\ UNCHANGED <<partial, tomb, rows, writer, kept, faults>>

\* The row is there already: the INSERT fails and the blob is removed again.
PutConflict(p) ==
  /\ Is(p, "put", "commit")
  /\ client[p].cid \in rows
  /\ blob' = [blob EXCEPT ![client[p].cid] = "none"]
  /\ Release(p)
  /\ Return(p)
  /\ UNCHANGED <<partial, tomb, rows, kept, faults>>
-----------------------------------------------------------------------------
(***************************************************************************)
(* delete: the blob is set aside, its row removed, the file unlinked.      *)
(***************************************************************************)
BeginDelete(p, c) ==
  /\ client[p] = Idle
  /\ client' = [client EXCEPT
       ![p] = At("delete", IF blob[c] = "none" THEN "forget" ELSE "rename", c)]
  /\ kept' = kept \ {c}
  /\ UNCHANGED <<files, rows, writer, faults>>

\* There was no blob: only its row goes.
ForgetMissing(p) ==
  /\ Is(p, "delete", "forget") /\ Unlocked
  /\ rows' = rows \ {client[p].cid}
  /\ Return(p)
  /\ UNCHANGED <<files, writer, kept, faults>>

SetAside(p) ==
  /\ Is(p, "delete", "rename")
  /\ LET c == client[p].cid
     IN  IF blob[c] = "none"
         THEN Return(p) /\ UNCHANGED <<blob, tomb>>
         ELSE /\ tomb' = [tomb EXCEPT ![c] = blob[c]]
              /\ blob' = [blob EXCEPT ![c] = "none"]
              /\ Goto(p, "delete", "commit")
  /\ UNCHANGED <<partial, rows, writer, kept, faults>>

\* Mutant: the transaction is not committed.
CommitNoDelete(p) ==
  /\ Is(p, "delete", "commit") /\ Unlocked
  /\ Goto(p, "delete", "unlink")
  /\ UNCHANGED <<files, rows, writer, kept, faults>>

CommitDelete(p) ==
  /\ Is(p, "delete", "commit") /\ Unlocked
  /\ rows' = rows \ {client[p].cid}
  /\ Goto(p, "delete", "unlink")
  /\ UNCHANGED <<files, writer, kept, faults>>

RemoveTomb(p) ==
  /\ Is(p, "delete", "unlink")
  /\ tomb' = [tomb EXCEPT ![client[p].cid] = "none"]
  /\ Return(p)
  /\ UNCHANGED <<blob, partial, rows, writer, kept, faults>>
-----------------------------------------------------------------------------
(***************************************************************************)
(* Faults.                                                                 *)
(***************************************************************************)
Happens(kind) ==
  /\ kind \in Fault
  /\ faults < MaxFaults
  /\ faults' = faults + 1

\* A process dies in the middle of an operation; SQLite rolls back for it.
Crash(p) ==
  /\ Happens("crash")
  /\ client[p] \notin {Closed, Idle}
  /\ client' = [client EXCEPT ![p] = Closed]
  /\ Release(p)
  /\ UNCHANGED <<files, rows, kept>>

\* The disk damages a blob, or loses it.
Damage(c) ==
  /\ Happens("damage")
  /\ blob[c] = "good"
  /\ blob' = [blob EXCEPT ![c] = "bad"]
  /\ kept' = kept \ {c}
  /\ UNCHANGED <<partial, tomb, rows, writer, client>>

Lose(c) ==
  /\ Happens("loss")
  /\ blob[c] # "none"
  /\ blob' = [blob EXCEPT ![c] = "none"]
  /\ kept' = kept \ {c}
  /\ UNCHANGED <<partial, tomb, rows, writer, client>>

\* An error of the file system or the database ends an operation early.
Fail(p) ==
  /\ Happens("error")
  /\ client[p] \notin {Closed, Idle}
  /\ LET c == client[p].cid
     IN  \/ /\ client[p].step \notin {"row", "read"}
            /\ GiveUp(p)
            /\ UNCHANGED <<files>>
         \* To put, an object that cannot be read is to be written again.
         \/ /\ client[p].step \in {"row", "read"}
            /\ Goto(p, "put", "remove")
            /\ UNCHANGED <<files>>
         \/ /\ Is(p, "put", "write")
            /\ partial' = partial \cup {c}
            /\ Return(p)
            /\ UNCHANGED <<blob, tomb>>
         \* The INSERT fails, or the COMMIT, after which put reconciles.
         \/ /\ Is(p, "put", "commit")
            /\ blob' = [blob EXCEPT ![c] = "none"]
            /\ Return(p) \/ Goto(p, "reconcile", "clear")
            /\ UNCHANGED <<partial, tomb>>
         \* The DELETE fails, or the COMMIT, and the blob is put back; an error
         \* before (the lock) or after (putting it back) leaves it set aside.
         \/ /\ Is(p, "delete", "commit")
            /\ tomb[c] # "none"
            /\ blob' = [blob EXCEPT ![c] = tomb[c]]
            /\ tomb' = [tomb EXCEPT ![c] = "none"]
            /\ Return(p)
            /\ UNCHANGED partial
  /\ Release(p)
  /\ UNCHANGED <<rows, kept>>

Step(p) ==
  \/ ClearRows(p) \/ ListFiles(p) \/ RemovePartial(p) \/ CheckBlob(p)
  \/ InsertRow(p) \/ InsertRowConflict(p) \/ EndOpen(p)
  \/ SelectRow(p) \/ ReadBlob(p) \/ RemoveBlob(p) \/ ForgetRow(p)
  \/ LockRows(p) \/ WritePartial(p) \/ RenamePartial(p)
  \/ CommitPut(p) \/ PutConflict(p)
  \/ ForgetMissing(p) \/ SetAside(p) \/ CommitDelete(p) \/ RemoveTomb(p)

Next ==
  \/ \E p \in Client : Open(p) \/ Close(p) \/ Step(p) \/ Crash(p) \/ Fail(p)
  \/ \E p \in Client, c \in Cid : BeginPut(p, c) \/ BeginDelete(p, c)
  \/ \E c \in Cid : Damage(c) \/ Lose(c)

Spec == Init /\ [][Next]_vars

(***************************************************************************)
(* A process that runs goes on with its operation.  One that waits for the *)
(* write lock polls for it, and SQLite ends the wait with an error after   *)
(* five seconds: it is not passed over for ever.                           *)
(***************************************************************************)
FairSpec == Spec /\ \A p \in Client : SF_vars(Step(p))
-----------------------------------------------------------------------------
Quiet == \A p \in Client : client[p] = Idle

(***************************************************************************)
(* Files, rows and clients keep their shape, and the write lock is held    *)
(* only by a put between its BEGIN IMMEDIATE and its commit.               *)
(***************************************************************************)
TypeOK ==
  /\ blob \in [Cid -> {"good", "bad", "none"}]
  /\ tomb \in [Cid -> {"good", "bad", "none"}]
  /\ partial \subseteq Cid /\ rows \subseteq Cid /\ kept \subseteq Cid
  /\ \A p \in Client : client[p] \in
       [op   : {"closed", "idle", "open", "reconcile", "put", "delete"},
        step : {"closed", "idle", "clear", "scan", "clean", "check", "insert", "row",
                "read", "remove", "forget", "lock", "write", "rename", "commit",
                "unlink"},
        cid  : Cid \cup {null}, todo : SUBSET Cid]
  /\ writer # null => /\ writer \in Client
                      /\ client[writer].op = "put"
                      /\ client[writer].step \in {"write", "rename", "commit"}
  /\ faults \in 0..MaxFaults

(***************************************************************************)
(* put's answer can be relied on: until it is deleted or the disk damages  *)
(* it, the object stays on disk through every crash and every later        *)
(* operation, and get returns it whenever the store is open and quiet.     *)
(***************************************************************************)
KeptObjectsStay ==
  \A c \in kept : blob[c] = "good" /\ (Quiet => c \in rows)

(***************************************************************************)
(* Whenever the store is open and quiet, rows and files agree: every good  *)
(* blob is accounted for, and no row stands for a blob that is not there   *)
(* (a put of such an object would fail until the store is opened again).   *)
(***************************************************************************)
RowsMatchFiles ==
  Quiet => \A c \in Cid : /\ blob[c] = "good" => c \in rows
                          /\ c \in rows => blob[c] # "none"

(***************************************************************************)
(* The objects accounted for never exceed the quota.                       *)
(***************************************************************************)
QuotaHolds == Cardinality(rows) <= Quota

(***************************************************************************)
(* Every operation ends, although several processes wait for one lock and  *)
(* operations fail at any step.                                            *)
(***************************************************************************)
OperationsEnd ==
  \A p \in Client : client[p] \notin {Closed, Idle} ~> client[p] \in {Closed, Idle}
=============================================================================
