---------------------------- MODULE DesktopVault ----------------------------
(***************************************************************************)
(* The vault of the desktop application: its commands run one at a time,   *)
(* each a sequence of durable writes, and the application may stop or the  *)
(* command fail between any two of them.  A device that is lost is         *)
(* replaced by an empty one, which rebuilds the vault from a Recovery Kit  *)
(* and the storage folders of the old one.                                 *)
(*                                                                         *)
(* An object is stored or not: its replicas are those of NodeService and   *)
(* ObjectStore.  A file has one chunk.  A catalog is known by the order in *)
(* which it was signed, and nobody else can sign one.  One vault is ever   *)
(* created.  Days are counted from one.                                    *)
(***************************************************************************)
EXTENDS Naturals, FiniteSets, Sequences

CONSTANTS Retention,                               \* days, 30 in the code
          MaxFiles, MaxCatalogs, MaxDay, MaxStops  \* bounds

ASSUME BoundAssumption ==
  {Retention, MaxFiles, MaxCatalogs, MaxStops} \subseteq Nat /\ MaxDay \in Nat \ {0}

VARIABLES
  catalogs,   \* every catalog ever signed: version, previous one and files
  disk,       \* objects in the device's own storage folders
  net,        \* objects in the nodes of the local network
  old,        \* objects in the storage folders of the device that was lost
  connected,  \* local-mesh-profile.json exists
  made,       \* history: whether it did when this device got the vault
  secrets,    \* owner.stronghold
  state,      \* the catalog that vault-state.json names, 0 without the file
  kit,        \* the checkpoints in the kit at recovery_path: none or one
  copies,     \* the checkpoints of all kits that were ever written
  job,        \* what the running command has still to write
  day, stops, replaced

vars == <<catalogs, disk, net, old, connected, made, secrets, state, kit, copies,
          job, day, stops, replaced>>

CatalogObject(c) == <<"catalog", c>>
Manifest(f) == <<"manifest", f>>
Chunk(f) == <<"chunk", f>>
FileObjects(files) ==
  {Manifest(v.file) : v \in files} \cup {Chunk(v.file) : v \in files}

Init ==
  /\ catalogs = <<>>
  /\ disk = {} /\ net = {} /\ old = {}
  /\ connected = FALSE /\ made = FALSE
  /\ secrets = FALSE /\ state = 0 /\ kit = {} /\ copies = {}
  /\ job = <<>>
  /\ day = 1 /\ stops = 0 /\ replaced = FALSE

Write(do, what) == [do |-> do, what |-> what]
Idle == job = <<>>

\* A device that is connected reads and writes the network's nodes only.
Readable == IF connected THEN net ELSE disk

(***************************************************************************)
(* Catalogs.                                                               *)
(***************************************************************************)
History[k \in 0 .. Len(catalogs)] ==
  IF k = 0 THEN {} ELSE {k} \cup History[catalogs[k].previous]
Chain(c) == History[c]
ChainObjects(c) == {CatalogObject(k) : k \in Chain(c)}
Version(c) == catalogs[c].version
Files(c) == catalogs[c].files

Kept(v) == v.until = 0 \/ v.until >= day
Live(c) == {v \in Files(c) : Kept(v)}
Restores(v) == {Manifest(v.file), Chunk(v.file)} \subseteq Readable

\* Mutant: the new catalog links to the one before the latest.
SuccessorSkipping(files) ==
  [version |-> Version(state) + 1, previous |-> catalogs[state].previous, files |-> files]
Successor(files) ==
  [version |-> Version(state) + 1, previous |-> state, files |-> files]
Upcoming == Len(catalogs) + 1

\* Every change ends by storing a new catalog, saving the state that names it
\* and refreshing the kit.
Publish ==
  <<Write("put", CatalogObject(Upcoming)), Write("save", Upcoming),
    Write("kit", Upcoming)>>

CanOpen == state # 0 /\ secrets /\ CatalogObject(state) \in Readable
CanSign == Idle /\ Len(catalogs) < MaxCatalogs
Run(files, writes) ==
  /\ catalogs' = Append(catalogs, Successor(files))
  /\ job' = writes

(***************************************************************************)
(* The commands.                                                           *)
(***************************************************************************)
Fresh == Idle /\ state = 0 /\ ~secrets

\* create_recovery_kit: the kit names no vault before the vault is there.
Create ==
  /\ Fresh /\ CanSign /\ catalogs = <<>>
  /\ catalogs' = <<[version |-> 1, previous |-> 0, files |-> {}]>>
  /\ made' = connected
  /\ job' = <<Write("secrets", 0)>> \o Publish
  /\ UNCHANGED <<disk, net, old, connected, secrets, state, kit, copies, day,
                 stops, replaced>>

NewFile ==
  Cardinality(UNION {{v.file : v \in Files(c)} : c \in DOMAIN catalogs}) + 1
Add ==
  /\ CanSign /\ CanOpen /\ NewFile <= MaxFiles
  /\ Run(Files(state) \cup {[file |-> NewFile, until |-> 0]},
         <<Write("put", Chunk(NewFile)), Write("put", Manifest(NewFile))>> \o Publish)
  /\ UNCHANGED <<disk, net, old, connected, made, secrets, state, kit, copies,
                 day, stops, replaced>>

Delete ==
  /\ CanSign /\ CanOpen
  /\ \E v \in Files(state) :
       /\ v.until = 0
       /\ Run((Files(state) \ {v}) \cup {[v EXCEPT !.until = day + Retention]},
              Publish)
  /\ UNCHANGED <<disk, net, old, connected, made, secrets, state, kit, copies,
                 day, stops, replaced>>

\* gc: a catalog without the expired files is published before anything is
\* removed, and only the device's own folders are swept.
\* Mutant: only the latest catalog is kept, not its history.
RetainedWithoutHistory(c) == {CatalogObject(c)} \cup FileObjects(Live(state))
Retained(c) == ChainObjects(c) \cup FileObjects(Live(state))
CanCollect ==
  /\ CanOpen
  /\ ChainObjects(state) \cup {Manifest(v.file) : v \in Live(state)} \subseteq Readable
\* Mutant: the folders are swept first.
CollectExpiredSweepingFirst ==
  /\ CanSign /\ CanCollect /\ Live(state) # Files(state)
  /\ Run(Live(state), <<Write("sweep", Retained(state))>> \o Publish)
  /\ UNCHANGED <<disk, net, old, connected, made, secrets, state, kit, copies,
                 day, stops, replaced>>
CollectExpired ==
  /\ CanSign /\ CanCollect /\ Live(state) # Files(state)
  /\ Run(Live(state),
         Append(Publish,
                Write("sweep", {CatalogObject(Upcoming)} \cup Retained(state))))
  /\ UNCHANGED <<disk, net, old, connected, made, secrets, state, kit, copies,
                 day, stops, replaced>>
CollectOrphans ==
  /\ Idle /\ CanCollect /\ Live(state) = Files(state)
  /\ job' = <<Write("sweep", Retained(state))>>
  /\ UNCHANGED <<catalogs, disk, net, old, connected, made, secrets, state, kit,
                 copies, day, stops, replaced>>

\* The folders that the user supplies: of the old device, of the network's
\* nodes, of both, or those of the old device that hold no chunks (catalogs
\* and manifests have more replicas).
Sources == {old, net, old \cup net, {o \in old : o[1] # "chunk"}}

\* discover_desktop_catalog: of several catalogs of one version the one that
\* was scanned last counts, and the walk ends where the next does not link.
Stored(sources) == {c \in DOMAIN catalogs : CatalogObject(c) \in sources}
Heirs(c, sources) == {d \in Stored(sources) : Version(d) = Version(c) + 1}
Discovered(checkpoint, sources) ==
  {c \in Stored(sources) :
     /\ checkpoint \in Chain(c)
     /\ Chain(c) \ Chain(catalogs[checkpoint].previous) \subseteq Stored(sources)
     /\ Heirs(c, sources) = {} \/ \E d \in Heirs(c, sources) : catalogs[d].previous # c}

\* import_recovery_kit: the device has the vault when the history of the
\* catalog and all its files are there.
Wanted(c) == ChainObjects(c) \cup FileObjects(Files(c))
Import(checkpoint, sources, c) ==
  /\ Fresh
  /\ checkpoint \in copies /\ c \in Discovered(checkpoint, sources)
  /\ made' = connected
  /\ job' = <<Write("restore", [objects |-> Wanted(c), sources |-> sources]),
              Write("secrets", 0), Write("kit", checkpoint),
              Write("save", c), Write("kit", c)>>
  /\ UNCHANGED <<catalogs, disk, net, old, connected, secrets, state, kit, copies,
                 day, stops, replaced>>

\* copy_recovery_kit: the kit as it is now goes somewhere else.
CopyKit ==
  /\ Idle /\ state # 0 /\ kit # {}
  /\ copies' = copies \cup kit
  /\ UNCHANGED <<catalogs, disk, net, old, connected, made, secrets, state, kit,
                 job, day, stops, replaced>>

\* connect_local_mesh.  No command disconnects.
Connect ==
  /\ Idle /\ ~connected
  /\ connected' = TRUE
  /\ UNCHANGED <<catalogs, disk, net, old, made, secrets, state, kit, copies, job,
                 day, stops, replaced>>

(***************************************************************************)
(* The writes of a command.                                                *)
(***************************************************************************)
Step == Head(job)
Done == job' = Tail(job)

Store(objects) ==
  IF connected THEN net' = net \cup objects /\ UNCHANGED disk
               ELSE disk' = disk \cup objects /\ UNCHANGED net

Put ==
  /\ ~Idle /\ Step.do = "put"
  /\ Store({Step.what}) /\ Done
  /\ UNCHANGED <<secrets, state, kit>>

\* The catalogs from the latest to the first, then the files, each manifest
\* and then its chunk.  The import fails at the first that is not there.
NextOf(objects) ==
  LET history == {o \in objects : o[1] = "catalog"}
      begun   == {o \in objects : o[1] = "chunk" /\ Manifest(o[2]) \notin objects}
  IN CASE history # {} -> {o \in history : \A p \in history : p[2] <= o[2]}
       [] history = {} /\ begun # {} -> begun
       [] OTHER -> {o \in objects : o[1] = "manifest"}
Restore ==
  /\ ~Idle /\ Step.do = "restore"
  /\ \E o \in NextOf(Step.what.objects) :
       LET rest == Step.what.objects \ {o} IN
       IF o \in Step.what.sources
       THEN /\ Store({o})
            /\ IF rest = {} THEN Done
               ELSE job' = [job EXCEPT ![1] =
                      Write("restore", [objects |-> rest, sources |-> Step.what.sources])]
       ELSE job' = <<>> /\ UNCHANGED <<disk, net>>
  /\ UNCHANGED <<secrets, state, kit>>

SaveSecrets ==
  /\ ~Idle /\ Step.do = "secrets"
  /\ secrets' = TRUE /\ Done
  /\ UNCHANGED <<disk, net, state, kit>>

SaveState ==
  /\ ~Idle /\ Step.do = "save"
  /\ state' = Step.what /\ Done
  /\ UNCHANGED <<disk, net, secrets, kit>>

\* Mutant: a refreshed kit keeps its earlier checkpoint.
RefreshKitAppending ==
  /\ ~Idle /\ Step.do = "kit"
  /\ kit' = kit \cup {Step.what} /\ Done
  /\ UNCHANGED <<disk, net, secrets, state>>
RefreshKit ==
  /\ ~Idle /\ Step.do = "kit"
  /\ kit' = {Step.what} /\ Done
  /\ UNCHANGED <<disk, net, secrets, state>>

\* What step "sweep" keeps is in it; folders are listed in any order.
Sweep ==
  /\ ~Idle /\ Step.do = "sweep"
  /\ IF disk \subseteq Step.what
     THEN Done /\ UNCHANGED disk
     ELSE \E o \in disk \ Step.what : disk' = disk \ {o} /\ UNCHANGED job
  /\ UNCHANGED <<net, secrets, state, kit>>

Work ==
  /\ Put \/ Restore \/ SaveSecrets \/ SaveState \/ RefreshKit \/ Sweep
  /\ UNCHANGED <<catalogs, old, connected, made, copies, day, stops, replaced>>

(***************************************************************************)
(* What happens to the device.                                             *)
(***************************************************************************)
\* The application stops, or a write fails and the command with it.
Stop ==
  /\ ~Idle /\ stops < MaxStops
  /\ stops' = stops + 1 /\ job' = <<>>
  /\ UNCHANGED <<catalogs, disk, net, old, connected, made, secrets, state, kit,
                 copies, day, replaced>>

\* The device is lost but for its storage folders and the last kit.
Replace ==
  /\ Idle /\ ~replaced
  /\ replaced' = TRUE /\ old' = disk /\ copies' = copies \cup kit
  /\ disk' = {} /\ connected' = FALSE /\ made' = FALSE
  /\ secrets' = FALSE /\ state' = 0 /\ kit' = {}
  /\ UNCHANGED <<catalogs, net, job, day, stops>>

Tomorrow ==
  /\ Idle /\ day < MaxDay
  /\ day' = day + 1
  /\ UNCHANGED <<catalogs, disk, net, old, connected, made, secrets, state, kit,
                 copies, job, stops, replaced>>

Next ==
  \/ Create \/ Add \/ Delete \/ CollectExpired \/ CollectOrphans \/ CopyKit \/ Connect
  \/ \E checkpoint \in copies, sources \in Sources :
       \E c \in Discovered(checkpoint, sources) : Import(checkpoint, sources, c)
  \/ Work \/ Stop \/ Replace \/ Tomorrow

Spec == Init /\ [][Next]_vars

(***************************************************************************)
(* Properties.                                                             *)
(***************************************************************************)
Catalog == 1 .. Len(catalogs)
Object == {"catalog", "manifest", "chunk"} \X (1 .. MaxCatalogs + MaxFiles)
TypeOK ==
  /\ \A c \in Catalog : /\ catalogs[c].previous \in 0 .. c - 1
                        /\ \A v \in Files(c) : v.file \in 1 .. MaxFiles
  /\ disk \cup net \cup old \subseteq Object
  /\ state \in 0 .. Len(catalogs) /\ kit \cup copies \subseteq Catalog
  /\ Cardinality(kit) <= 1
  /\ {connected, made, secrets, replaced} \subseteq BOOLEAN
  /\ day \in 1 .. MaxDay /\ stops \in 0 .. MaxStops

\* A vault that a device has saved opens there, with its history and every
\* file that its list shows, unless the device was connected to another
\* storage since; whatever command was cut short.
VaultReadable ==
  state # 0 /\ connected = made =>
    /\ secrets
    /\ ChainObjects(state) \subseteq Readable
    /\ \A v \in Live(state) : Restores(v)

Everything == disk \cup net \cup old
Kits == copies \cup kit

\* Until a command is cut short in the middle of its writes, every kit, however
\* old, finds one catalog, with all its history and all its files, at every
\* moment, and between commands it finds the latest.
KitsFindTheLatest ==
  stops = 0 =>
    \A checkpoint \in Kits :
      \E c \in Catalog :
        /\ Discovered(checkpoint, Everything) = {c}
        /\ Wanted(c) \subseteq Everything
        /\ Idle => c = Len(catalogs)

\* One such accident costs no kit its files, should the device be lost next: until
\* it is replaced, between commands, whatever a kit finds is there with its history
\* and its files.  The next device may go on from the catalog that the accident left
\* unsaved; a kit may then find one of that branch whose files it has swept since.
\* After a second accident, in the sweep that removes what the first one left, the
\* same may happen on the first device.
KitsRecoverWhole ==
  Idle /\ ~replaced /\ stops <= 1 =>
    \A checkpoint \in Kits :
      /\ Discovered(checkpoint, Everything) # {}
      /\ \A c \in Discovered(checkpoint, Everything) : Wanted(c) \subseteq Everything
=============================================================================
