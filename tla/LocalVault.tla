----------------------------- MODULE LocalVault -----------------------------
(***************************************************************************)
(* The local encrypted vault of the command line tool: one command at a    *)
(* time adds a file, tombstones one or collects garbage, writing objects   *)
(* to the local storage nodes, then the vault state, then the Recovery     *)
(* Kit.  A command may stop between any two writes (a crash, a full disk,  *)
(* too few nodes), and the next command starts from what is on disk.       *)
(*                                                                         *)
(* Every encryption draws a fresh nonce, so each catalog written has a cid *)
(* of its own: catalogs are numbered in the order they are written.  An    *)
(* object counts as stored while some node holds a copy; replica targets   *)
(* and bad copies are left out.  A file is one manifest and one chunk.     *)
(***************************************************************************)
EXTENDS Naturals, Sequences, FiniteSets

CONSTANTS File, null,
          RetentionDays,  \* how long a tombstone keeps its file (30)
          MaxDay,         \* bound: the last day
          MaxCatalogs,    \* bound: no command starts that would exceed it
          MaxCrashes      \* bound: commands that stop half way

ASSUME BoundsAssumption ==
  {RetentionDays, MaxDay, MaxCatalogs, MaxCrashes} \subseteq Nat

Day == 0..MaxDay

\* A catalog's entry of a file: until is null, or the end of its retention.
Entry == [file : File, until : Nat \cup {null}]

Object == {<<"manifest", f>> : f \in File} \cup {<<"chunk", f>> : f \in File}
            \cup {<<"catalog", i>> : i \in 1..MaxCatalogs}

Objects(f) == {<<"manifest", f>>, <<"chunk", f>>}

\* The local variables of a command: what it has still to write or to remove,
\* the files of the catalog that it signs, and what its sweep keeps.
Command ==
  [op : {"add", "delete", "gc"}, step : {"objects", "save", "kit", "sweep"},
   todo : Seq(Object), files : SUBSET Entry, keep : SUBSET Object]

ASSUME CatalogsAssumption == MaxCatalogs >= 1
ASSUME NullAssumption == null \notin Nat /\ null \notin Command

VARIABLES
  catalogs, \* every catalog ever signed: version, previous, files
  store,    \* the objects of which the nodes hold a copy
  state,    \* state.json: the cid of the current catalog
  kits,     \* the Recovery Kits ever written: the catalogs they point to
  day,      \* the wall clock
  command,  \* the running command's local variables, or null
  crashes   \* how many commands stopped half way

vars == <<catalogs, store, state, kits, day, command, crashes>>

\* Versions follow the links: load_catalog is always asked for this one.
Version(i) == catalogs[i].version

\* catalog_chain_cids: a catalog and all it links back to.
History[j \in 0..Len(catalogs)] ==
  IF j = 0 THEN {} ELSE {j} \cup History[catalogs[j].previous]
Chain(i) == History[i]

Stored(ids) == {<<"catalog", i>> : i \in ids}

\* vault create, before which there is nothing to lose.
Init ==
  /\ catalogs = <<[version |-> 1, previous |-> 0, files |-> {}]>>
  /\ store = {<<"catalog", 1>>}
  /\ state = 1
  /\ kits = {1}
  /\ day = 0
  /\ command = null
  /\ crashes = 0

NextDay ==
  /\ day < MaxDay
  /\ day' = day + 1
  /\ UNCHANGED <<catalogs, store, state, kits, command, crashes>>
-----------------------------------------------------------------------------
(***************************************************************************)
(* Starting a command: load_state, load_recovery, load_catalog.            *)
(***************************************************************************)
CanStart ==
  /\ command = null
  /\ Len(catalogs) < MaxCatalogs
  /\ <<"catalog", state>> \in store

Files == catalogs[state].files

\* The first objects to write or remove, and the files of the next catalog.
Begin(op, todo, files, keep) ==
  command' = [op |-> op, step |-> "objects", todo |-> todo,
              files |-> files, keep |-> keep]

\* A file id is random: it was never used before, not even by a lost command.
BeginAdd(f) ==
  /\ CanStart
  /\ Objects(f) \cap store = {}
  /\ \A i \in 1..Len(catalogs) : \A e \in catalogs[i].files : e.file # f
  /\ Begin("add", <<<<"chunk", f>>, <<"manifest", f>>>>,
           Files \cup {[file |-> f, until |-> null]}, {})
  /\ UNCHANGED <<catalogs, store, state, kits, day, crashes>>

BeginDelete(f) ==
  /\ CanStart
  /\ [file |-> f, until |-> null] \in Files
  /\ Begin("delete", <<>>,
           {e \in Files : e.file # f}
             \cup {[file |-> f, until |-> day + RetentionDays]}, {})
  /\ UNCHANGED <<catalogs, store, state, kits, day, crashes>>

Expired(e) == e.until # null /\ e.until < day

\* The order in which gc removes the expired files.
Orders(set) ==
  {s \in [1..Cardinality(set) -> set] : {s[i] : i \in DOMAIN s} = set}

\* Each expired file's manifest, then its chunk.
ExpiredObjects(order) ==
  [k \in 1..2 * Len(order) |->
     IF k % 2 = 1 THEN <<"manifest", order[(k + 1) \div 2].file>>
                  ELSE <<"chunk", order[k \div 2].file>>]

\* Mutant: expires every tombstone at once.
BeginGcOfTombstones ==
  /\ CanStart
  /\ Stored(Chain(state)) \subseteq store
  /\ \A e \in Files : <<"manifest", e.file>> \in store
  /\ LET expired == {e \in Files : e.until # null}
         kept    == Files \ expired
     IN  \E order \in Orders(expired) :
           Begin("gc", ExpiredObjects(order), kept,
                 Stored(Chain(state)) \cup UNION {Objects(e.file) : e \in kept})
  /\ UNCHANGED <<catalogs, store, state, kits, day, crashes>>

\* gc reads the whole chain and every manifest, and gives up without them.
BeginGc ==
  /\ CanStart
  /\ Stored(Chain(state)) \subseteq store
  /\ \A e \in Files : <<"manifest", e.file>> \in store
  /\ LET expired == {e \in Files : Expired(e)}
         kept    == Files \ expired
     IN  \E order \in Orders(expired) :
           Begin("gc", ExpiredObjects(order), kept,
                 Stored(Chain(state)) \cup UNION {Objects(e.file) : e \in kept})
  /\ UNCHANGED <<catalogs, store, state, kits, day, crashes>>
-----------------------------------------------------------------------------
(***************************************************************************)
(* The steps of a running command.                                         *)
(***************************************************************************)
Running(step) == command # null /\ command.step = step

\* replicate for an add, node.delete on every node for a gc.
NextObject ==
  /\ Running("objects")
  /\ command.todo # <<>>
  /\ store' = IF command.op = "gc" THEN store \ {Head(command.todo)}
                                   ELSE store \cup {Head(command.todo)}
  /\ command' = [command EXCEPT !.todo = Tail(@)]
  /\ UNCHANGED <<catalogs, state, kits, day, crashes>>

\* Mutant: gc does not drop the expired files from the catalog.
NeedsCatalogUnlessGc == command.op # "gc"

NeedsCatalog == command.files # Files

\* The mutants of PutCatalog: another version, or another previous catalog.
PutLinked(version, previous) ==
  /\ Running("objects")
  /\ command.todo = <<>>
  /\ NeedsCatalog
  /\ catalogs' = Append(catalogs, [version  |-> version,
                                   previous |-> previous,
                                   files    |-> command.files])
  /\ store' = store \cup {<<"catalog", Len(catalogs) + 1>>}
  /\ command' = [command EXCEPT !.step = "save"]
  /\ UNCHANGED <<state, kits, day, crashes>>

\* Mutant: the previous cid is taken after state was overwritten.
PutSelfLinked == PutLinked(Version(state) + 1, Len(catalogs) + 1)

\* Mutant: keeps the previous cid of the catalog it replaces.
PutReplacing == PutLinked(Version(state) + 1, catalogs[state].previous)

\* The new catalog links to the current one and is replicated.
PutCatalog ==
  /\ Running("objects")
  /\ command.todo = <<>>
  /\ NeedsCatalog
  /\ catalogs' = Append(catalogs, [version  |-> Version(state) + 1,
                                   previous |-> state,
                                   files    |-> command.files])
  /\ store' = store \cup {<<"catalog", Len(catalogs) + 1>>}
  /\ command' = [command EXCEPT !.step = "save"]
  /\ UNCHANGED <<state, kits, day, crashes>>

\* save_state: an atomic rename.
SaveState ==
  /\ Running("save")
  /\ state' = Len(catalogs)
  /\ command' = [command EXCEPT !.step = "kit"]
  /\ UNCHANGED <<catalogs, store, kits, day, crashes>>

\* Mutant: keeps what was to be kept before the new catalog.
UnkeptBeforeCatalog(keep) == store \ keep

Unkept(keep) == store \ (keep \cup Stored(Chain(state)))

\* refresh_recovery; add and delete are done, gc goes on to its sweep.
RefreshKit ==
  /\ Running("kit")
  /\ kits' = kits \cup {state}
  /\ command' = IF command.op = "gc" THEN [command EXCEPT !.step = "sweep"] ELSE null
  /\ UNCHANGED <<catalogs, store, state, day, crashes>>

\* A gc with nothing expired writes no catalog.
SkipCatalog ==
  /\ Running("objects")
  /\ command.todo = <<>>
  /\ ~NeedsCatalog
  /\ command' = [command EXCEPT !.step = "sweep"]
  /\ UNCHANGED <<catalogs, store, state, kits, day, crashes>>

\* Objects outside the chain and the kept files go, in directory order.
SweepObject ==
  /\ Running("sweep")
  /\ \E object \in Unkept(command.keep) : store' = store \ {object}
  /\ UNCHANGED <<catalogs, state, kits, day, command, crashes>>

EndSweep ==
  /\ Running("sweep")
  /\ Unkept(command.keep) = {}
  /\ command' = null
  /\ UNCHANGED <<catalogs, store, state, kits, day, crashes>>

Crash ==
  /\ command # null
  /\ crashes < MaxCrashes
  /\ crashes' = crashes + 1
  /\ command' = null
  /\ UNCHANGED <<catalogs, store, state, kits, day>>

Next ==
  \/ NextDay
  \/ \E f \in File : BeginAdd(f) \/ BeginDelete(f)
  \/ BeginGc
  \/ NextObject \/ PutCatalog \/ SaveState \/ RefreshKit
  \/ SkipCatalog \/ SweepObject \/ EndSweep
  \/ Crash

Spec == Init /\ [][Next]_vars
-----------------------------------------------------------------------------
(***************************************************************************)
(* vault recover, as a function of a kit and the stored objects.           *)
(***************************************************************************)
Present == {i \in 1..Len(catalogs) : <<"catalog", i>> \in store}

\* The catalogs newer than the kit's, one kept per version: of two with the
\* same version, the one scanned last.
Candidates(kit) ==
  LET newer == {i \in Present : Version(i) > Version(kit)}
      versions == {Version(i) : i \in newer}
  IN  {c \in [versions -> newer] : \A v \in versions : Version(c[v]) = v}

\* The candidate of version v links to the one before it, or to the kit's.
Linked(kit, c, v) ==
  v \in DOMAIN c /\ catalogs[c[v]].previous = IF v = Version(kit) + 1 THEN kit
                                              ELSE IF v - 1 \in DOMAIN c THEN c[v - 1] ELSE 0

\* From the kit's catalog on, as long as the next version links back.
Latest(kit, c) ==
  LET last == CHOOSE v \in Version(kit)..Len(catalogs) :
                /\ \A w \in Version(kit) + 1..v : Linked(kit, c, w)
                /\ ~Linked(kit, c, v + 1)
  IN  IF last = Version(kit) THEN kit ELSE c[last]

Found(kit) == {Latest(kit, c) : c \in Candidates(kit)}

\* Recovery copies the chain and every file of the catalog it found.
Complete(i) ==
  /\ Stored(Chain(i)) \subseteq store
  /\ \A e \in catalogs[i].files : Objects(e.file) \subseteq store

Recovers(kit) == <<"catalog", kit>> \in store /\ \A i \in Found(kit) : Complete(i)
-----------------------------------------------------------------------------
(***************************************************************************)
(* The vault's files and the running command keep their shape.             *)
(***************************************************************************)
TypeOK ==
  /\ \A i \in 1..Len(catalogs) :
       catalogs[i] \in [version : 1..MaxCatalogs, previous : 0..i - 1,
                        files : SUBSET Entry]
  /\ store \subseteq Object
  /\ state \in 1..Len(catalogs)
  /\ kits \subseteq 1..Len(catalogs)
  /\ day \in Day
  /\ command \in Command \cup {null}
  /\ crashes \in 0..MaxCrashes

(***************************************************************************)
(* Wherever a command stops, the current catalog can be loaded with its    *)
(* whole signed history, and so can the catalog of every kit.              *)
(***************************************************************************)
HistoryStays == Stored(Chain(state)) \cup Stored(kits) \subseteq store

(***************************************************************************)
(* Wherever a command stops, every file of the current catalog that is not *)
(* deleted, or deleted but still retained, can be restored.                *)
(***************************************************************************)
RetainedFilesStay ==
  \A e \in Files : ~Expired(e) => Objects(e.file) \subseteq store

(***************************************************************************)
(* Wherever commands stop, state.json is never behind a kit: every kit     *)
(* ever written points into the history of the current catalog.            *)
(***************************************************************************)
KitsPointIntoHistory == kits \subseteq Chain(state)

(***************************************************************************)
(* Every kit ever exported recovers the vault when no command is running.  *)
(***************************************************************************)
KitsRecover == command = null => \A kit \in kits : Recovers(kit)

(***************************************************************************)
(* Every kit leads to the current catalog, or to one signed after it.      *)
(***************************************************************************)
KitsFindLatest ==
  command = null => \A kit \in kits : \A i \in Found(kit) : state \in Chain(i)

(***************************************************************************)
(* As long as every command has ended, both hold: however many deletions   *)
(* and collections lie between a kit and its use, it recovers the current  *)
(* catalog with all its history and files.                                 *)
(***************************************************************************)
KitsSufficeWithoutCrash == crashes = 0 => KitsRecover /\ KitsFindLatest
=============================================================================
