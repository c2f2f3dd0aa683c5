# Models and proofs of Arcane Commons Mesh

TLA+ models of the parts of Arcane Commons Mesh that keep state and change it
in several steps, TLC runs that check them on small instances, and TLAPS proofs
of the most important properties for every size. Paths below are relative to
the repository's root (`src/` in PROJECT.json).

Parse, check and prove, in this directory:

    tlc -workers 2 -config MCCatalogPointer.cfg MCCatalogPointer.tla
    tlapm CatalogPointerProof.tla

## 1. Inventory

| Component | State | Operations | Interacts with | What is hard | What makes it correct |
|---|---|---|---|---|---|
| Audit chain (`apps/api/src/maintenance.ts`, `migrations/`, `crates/mesh-core/src/audit.rs`) | `audit_events`, one hash chain per community | `prepareAuditEvent`, `verify_chain` | every writing handler inserts a row in its batch | head read one round trip before the insert | every chain verifies; no event without its change, no change without its event |
| Catalog pointers (`app.ts` 713-804) | `vault_catalog_pointers` | PUT | audit chain; Recovery Kits point to the same chain | three round trips per handler | no fork, no rollback, no lost grant |
| Placements, tasks, maintenance, credits (`app.ts` 863-1138, `maintenance.ts`) | `placements`, `node_tasks`, `credit_entries` | place, fail, accept, complete, fail; maintenance runs | audit chain, nodes | handlers and runs interleave; runs stop half way | tasks move forward only, one credit per audit, short objects get repairs |
| Audit anchors (`maintenance.ts` 163-217) | `audit_anchors` | one Merkle root per day and community | audit chain | events dated into an anchored day | an anchor can be checked against the chain, and stays |
| Sessions (`repository.ts`, `app.ts`) | `auth_challenges`, `sessions` | challenge, login, authenticate, revoke | membership | login racing revocation; nonces consumed once | a token works once; a revoked member has no working session |
| Membership (`app.ts` 186-565) | `members`, `invites`, `join_requests` | invite, join, approve, revoke | sessions, audit chain | claim and insert in separate statements | an invite admits at most one member; revocation is final |
| Votes, artifacts (`app.ts` 1193-1340) | `proposals`, `votes`, `commons_artifacts` | propose, vote, count, publish | audit chain | the chain moves between read and batch | record and event are stored together |
| Local vault (`crates/mesh-cli/src/local_vault.rs`) | catalogs, manifests, chunks, `state.json`, Recovery Kit | create, add, delete, gc, recover | storage nodes | a stop between any two writes; old kits | history and retained files stay, every kit recovers the latest catalog |
| Desktop vault (`apps/desktop/src-tauri/src/lib.rs`) | storage folders, `owner.stronghold`, `vault-state.json`, profile, kits | create, add, delete, gc, import, connect | node service | as the local vault, and a device that is lost and replaced | what was saved opens, every kit recovers a whole vault |
| Object store (`crates/mesh-core/src/store.rs`) | blob files, SQLite rows | open, put, get, delete | vaults, nodes, repair tasks | files and rows change in separate steps; several processes | answered puts stay, rows match files, quota |
| Node service (`crates/mesh-node`, `mesh-cli/src/main.rs` 275-426) and transport (`crates/mesh-protocol`) | replay table, object store, endpoint files | accept, claim, execute, respond; connect, put, get, has, repair | desktop application, demo, verification | killed and restarted nodes, late and lost answers, repeated frames, an old reading of the clock | a request is executed once; replicas that were reported exist; callers end |
| Local demo (`mesh-cli/src/main.rs` 427-660) | `processes.json`, node folders, processes | up, down, smoke | node service, coordinator | commands cut short, processes that end, reused process ids | never two demos, `down` leaves nothing |
| Local control plane (`crates/mesh-control`) | maps, ledgers, event list | as the coordinator, in memory | credentials, credit ledger | arithmetic refusals half way, times chosen by callers | the exported trail tells exactly what was stored |
| Test mesh (`crates/mesh-testkit`) | nodes, placement list | replicate, restore, audit, repair | storage nodes | nodes that go away and come back, damage, full nodes | an outage hides nothing for ever |
| Credit ledger, settlement, commons records (`crates/mesh-core/src`) | signed records | issue, authorize, execute, attest, settle, export, migrate | control plane, verification | records issued anew between signing and checking; rounding, saturation | a receipt is worth what it says |
| Identity, encryption, encodings | none | pure functions | all | boundaries of dates | as in their users' models |
| User interfaces, site, verification commands, CI | none of their own | - | - | - | - |

PROJECT.json lists every component with its status, and every place where the
code is hard to test ("hazards"), each with the properties that cover it.

## 2. Plan

1. **Done.** The coordinator: `AuditRows`, `CatalogPointer` with its abstract
   `PublishedPointer` (proved), `TaskBoard` (proved), `Membership`,
   `AuditLedger`. Vaults and stores: `LocalVault`, `DesktopVault`,
   `ObjectStore`. The network: `NodeService`. The libraries and the demo:
   `InMemoryMesh`, `LocalControlPlane`, `Commons`, `DemoProcesses`.
2. **Done**, proofs about the coordinator (`AuditRows`, `CatalogPointer`,
   `TaskBoard`, `Membership`, `AuditLedger`), the command line's vault
   (`LocalVault`), the desktop application's (`DesktopVault`), the store of one
   process (`ObjectStore`) and the nodes with their callers (`NodeService`), the
   mesh and the community in memory (`InMemoryMesh`, `LocalControlPlane`), the
   commons protocol (`Commons`) and the demo (`DemoProcesses`): every safety
   property that a passing run checks is proved.
3. Left to model: two concurrent commands on one local vault and a `recover`
   that stops; `ObjectStore` as the store beneath `LocalVault` and
   `NodeService`; registration and heartbeats of nodes; grimoires, legacies and
   research records.

## 3. Modules

### The coordinator

**AuditRows** holds constant-level operators on the rows of one community.
`PrepareAuditEvent` reads the row of the greatest sequence number and builds the
next; `InsertConflicts` is the unique indexes; `VerifyChain` is `verify_chain`.
A hash is the list of what was hashed into it, so that hashes are equal only for
equal histories: BLAKE3 is taken as collision free.

**CatalogPointer** models the PUT handler of catalog pointers. A request is
`waiting`, then `SelectPrevious` or `RejectItem` (the SELECT and the
rollback-or-fork check that accepts or refuses the item),
`PrepareAudit` (the SELECT of the chain's head), and one of `BatchThrows`,
`BatchApplies`, `BatchMisses`: a D1 batch is one transaction, and its outcome
depends on the unique indexes (throws) and on whether the UPDATE's WHERE clause
still selects a row. `OtherAudit` is another handler's batch that moves the
chain. Authentication and signatures fail before the database is touched and are
left out. **PublishedPointer** is what a client is promised: one atomic step,
`Grant`. `granted` of the abstract module maps to the requests answered 200.

**TaskBoard** models tasks. `handler[h]` is a request that was checked and not
yet stored, so that the check (`SelectTask`, `SelectNode`) and the batch
(`CommitTask`, `InsertPlacement`) are separate steps. `CommitTask` is the whole
batch: `MoveTask` /\ `EarnCredit` /\ `StoreReplica` /\ `RecordEvent`, all stored
whether or not the UPDATE of the task selected it. `runner[m]` is a maintenance
run: it selects once, inserts one task per step, and may stop anywhere
(`AbortRun`). The bare column in `GROUP BY` makes the choice of a repair's node
arbitrary. Time is in hours and a period is the hour of its run; the six hours a
task is open are the constant `TaskHours`.

**Membership** models one community from its creation. A login takes four
steps, one per round trip: `BeginLogin` (the challenge is read as open),
`SelectMember`, `ClaimChallenge` (the UPDATE that consumes it) and
`InsertSession` or `NonceConflict` (the batch). `ClaimInvite` and
`InsertJoinRequest` are the two statements of a join request; `SelectPending` and
`ApproveJoin` or `ApprovalConflict` the check and the batch of an approval;
`BeginRevoke` and `RevokeMember` the check of the session and the batch of three
UPDATEs. `Authenticated` is the middleware: a handler is not checked again after
it, so that a revoked admin's request goes on. `Abandon` is a statement that
fails or a worker that is stopped: what was stored stays. A join request keeps
the invite it claimed, which the table does not hold, for `InvitesAdmitOne`.

**AuditLedger** models the handlers of votes and of commons artifacts, which
prepare an event (`PrepareAudit`) and store it with its record in one batch
(`CommitRecord`, or `BatchThrows` when a key is taken or the chain has moved), and
the anchoring of a day at the end of a maintenance run: `BeginAnchor` fixes the
day, `SelectEvents` reads that day's events, `InsertAnchor` is the INSERT OR
IGNORE; `InOrder` is a WHERE with its ORDER BY, over the rows of the chain. Time
is in days; an artifact may be dated back by its owner, a vote's event is dated
when it is prepared. It uses the operators of `AuditRows`.

### Vaults and stores

**LocalVault** models one command at a time: `BeginAdd`, `BeginDelete`,
`BeginGc` load the state and compute what will be written; `NextObject`,
`PutCatalog`, `SaveState`, `RefreshKit`, `SkipCatalog`, `SweepObject`,
`EndSweep` are its writes in order; `Crash` stops it between any two. Catalogs
are numbered in the order they are signed (a fresh nonce gives each a cid of its
own). Recovery is a function of a kit and of the stored objects:
`Candidates`, `Latest`, `Found` are `discover_latest_catalog`, where one of two
catalogs with the same version is kept, whichever is scanned last. Replica
counts are left out: an object is stored while some node holds it.

**DesktopVault** models the desktop application's commands as lists of durable
writes. A command (`Create`, `Add`, `Delete`, `CollectExpired`,
`CollectOrphans`, `Import`) checks, signs its catalog and leaves the rest in
`job`; `Put`, `SaveSecrets`, `SaveState`, `RefreshKit` and `Sweep` take the
writes one by one, and `Stop` ends the application, or fails a write, between
any two. `Restore` is the copying of an import: the catalogs from the latest to
the first, then the files in any order, each manifest before its chunk
(`NextOf`), until one of them is in none of the sources.
The order of `job` is the point of the module: unlike the command line, `gc`
publishes the catalog without the expired files before it removes anything.
`Connect` makes the device read and write the nodes of the local network
instead of its own folders. `Replace` loses the device but for its folders and
kits; `Import` rebuilds it from any kit and whichever folders the user gives,
walking from the kit's checkpoint as `discover_desktop_catalog` does
(`Discovered`), where a catalog that does not link ends the walk.

**ObjectStore** models the store of a node with its files (`blob`, `partial`,
`tomb`), its table (`rows`) and its write lock (`writer`). The steps of a client
are those between which another process can run or the process can die:
`ClearRows`, `ListFiles`, `RemovePartial`, `CheckBlob`, `InsertRow` are
`reconcile`, which fails when a file has vanished between its listing and the
look at it; `SelectRow`, `ReadBlob`, `RemoveBlob`, `ForgetRow`, `LockRows`,
`WritePartial`, `RenamePartial`, `CommitPut` / `PutConflict` are `put`;
`SetAside`, `CommitDelete`, `RemoveTomb` are `delete`. `Crash`, `Damage`, `Lose`, `Fail` are faults; a configuration says
which kinds occur. All objects have the same size.

### The network

**NodeService** composes the serving side (`run_network_service`,
`accept_rpc`, the replay store, `handle_request`) with the calling side (the
desktop application, `demo smoke`, the process nodes of `verify`). A node is one
sequential process: it reads the clock (`Accepting`), takes a connection and
checks and claims its frame against that reading (`Receive`), executes and
answers (`Serve`). `Receive` that refuses a frame ends the process, as every
error but a timeout does (`main.rs` 369). A program is a list of calls
(`Calls`); `Follow` and `After` say where each answer leads, `Advance` ends the
program with its last call. `NoAnswer` is a timeout, a broken connection or an
endpoint that belongs to an earlier run of the node; what was sent may still
arrive. `Repeat` presents an executed frame again; `Crash` and `Start` are
kills and restarts, each start with a new endpoint. `executed` and `done` are
history variables for the properties.

### The libraries and the demo

**InMemoryMesh** models the mesh of the test kit: `Replicate`, `Restore`,
`AuditAll`, `Repair` are its methods, one step each (`&mut self`),
`InOrder` is the `Vec` that the choice of nodes is made from, and `SetActive` and
`Damage` are what happens in between. Room is counted in objects.

**LocalControlPlane** models every method that changes the community: each
refuses as the code does, in its order, appends its event and stores its record.
`ConsumeChallenge` uses up the nonce before it looks at the challenge.
`trail` is the bag of the events, `length` their number. `Recordable` is the
ledger's own check, over `i64` scaled to
`-MaxCredit .. MaxCredit`, with the intermediate sums of the fold.

**Commons** models the signed records as slots: `IssueManifest`, `IssueSpell`,
`Execute`, `IssueEvidence`, `IssueInstruction`, `IssueReceipt`, `Export`,
`Migrate`. Issuing anew replaces a slot, so that what is checked may be older or
newer than what it is checked against. `IssueManifest` sorts the shares of an
offer: of their arrangements it takes the one that is well-formed, and a list
that is sorted strictly is the only one. `Allocations` is the division of a price
with its rounding and `saturating_mul`; `WellFormed`, `Conserves`, `Answers` are
the shape checks, `ReceiptVerifies`, `InstructionVerifies`, `EvidenceVerifies`,
`MigrationVerifies` the verifications.

**DemoProcesses** models `demo up` and `demo down` with a process table:
`LaunchWorker` and `LaunchNode` start processes whose ids only the command
knows until `SaveRecord`; `StopNext` kills whatever runs under a recorded id;
`RemoveEntry` is the removal of the folder, in any order; `EndUp` and `EndDown`
are failures and interruptions. Processes end (`End`), and free ids go to others
(`StartOther`).

**Library** composes `AuditLedger` and these four modules, side by side: a
behaviour picks one of them (`part`) and lets the others rest. They share no
state, so nothing is lost, and their numbers of states are added. `MCLibrary`
gives it small constants.

Operators marked "Mutant" are variants with a plausible bug. No specification
uses them: replacing the definition they follow by one shows that the property
named in PROJECT.json would notice the bug.

## 4. Runs

| Run | Instance | Shows |
|---|---|---|
| catalog | 4 requests, 2 members of a community, versions 1-3, 2 cids, one other event | pointer and audit chain under every interleaving: chains verify, one chain of grants, grants are audited; `PublishedPointer` is implemented (`PublishesAtomically`) |
| board_race | 1 node, 2 handlers, 2 runs, 2 hours | lifecycle, trail, credits and placements under every interleaving |
| board_repair | 2 nodes in 2 domains, 1 handler, 1 run | liveness: a short object gets a repair task |
| board_credit | 1 node, 2 handlers | **violated**: `FailedAuditsEarnNothing` |
| vault | 2 files, 4 days (0-3), 7 catalogs, 2 crashes | history and retained files survive every stop; while no command was cut short, every kit ever written recovers the latest catalog and its files (`KitsSufficeWithoutCrash`) |
| vault_gc_crash | 1 crash | **violated**: `KitsRecover` |
| store | 1 process, 3 objects, quota 2, 3 crashes or damaged blobs | answered puts stay, rows match files, quota holds |
| store_shared | 2 processes, 2 objects, quota 2, 1 fault of any kind | liveness: every operation ends |
| membership | 2 keys, 3 serial numbers, 2 of each other row, 2 handlers, 1 tick of the clock | challenges, nonces and invites work once (`TokensWorkOnce`), memberships agree with credentials, revocation is final |
| desktop | 1 file, 5 catalogs, 3 days, retention of a day, 2 stops, 1 lost device | what a device saved opens, whatever was cut short; as long as nothing was, every kit finds one whole catalog even in the middle of a command, and the latest between commands; after one stop every kit still recovers a whole vault, until the device is replaced |
| network | 2 nodes, 1 caller, 2 programs, lifetime 1, clock 0-2, 2 runs of each node, 1 fault | requests are executed once, reported replicas exist, programs end |
| library | see below | `AuditLedger`: every record has exactly one event in a chain that verifies, an anchor is the root of a prefix of the chain, and artifacts and anchors stay (`PublishedStays`). `InMemoryMesh`: `OutagesHideNothing`. `LocalControlPlane`: `TrailTellsAll`. `Commons`: `ReceiptsAreEarned`. `DemoProcesses`: `NothingLeftBehind` |

Why the bounds suffice.

- *catalog, board*: two requests give a race for a pointer; the third and fourth
  give the return of a cid under a later version (which only the version in the
  WHERE clause catches) and a chain moved twice. Two handlers and two runs give
  every pair of a lost race over one task; hours matter only through "the same
  period" and "expired", which two hours with `TaskHours = 0` reach.
- *vault, desktop*: a vault needs an expired and a retained file, and a chain long
  enough for a kit two versions behind. In `desktop` five catalogs are a
  creation, the three changes of a file (add, delete, gc) and one that is
  signed again after a stop; the file is retained for the history before it
  expires, three days let it expire when it was deleted on the first, and the
  two stops fall between any two writes of any command, before or after the
  device is lost. Two stops, or one and a replaced device, are what it takes to
  leave a branch without its files (below). The first fits the run's bounds,
  the second takes more catalogs, so that the guard `~replaced` of
  `KitsRecoverWhole` does not show in this run: `KitsRecover` (section 5) proves
  the property at every bound.
- *store*: a third object in a store for two exercises the quota with one crash
  before it, one within it and one during the reconcile.
- *network*: a replica target of two of two nodes makes every answer count; the
  first program stores or tests, the second is any program. A clock that moves
  twice with a lifetime of one lets a claim expire while a frame that was
  executed is presented again; two runs of each node give stale endpoints. The
  one fault is a kill, a lost or late answer, or a repeated frame, at any step.
  Nodes also end by themselves on a refused frame, which costs no fault.
- *membership*: two keys are a founder and a member that is approved twice,
  revoked and approved again; lives of zero let everything expire at the only
  tick, while a credential may be issued for either instant.
- *library*: two members, two handlers and two days for the ledger (an anchored
  day, and one on which events dated into it arrive late; a proposal closed on
  the second day stops votes, not artifacts); three nodes, two of them in one
  failure domain and one with room for one of the two objects; two members with
  credit that overflows at the second entry, and five events; four offers
  (shares that saturate, round to nothing, name a recipient twice, do not add
  up) and seven records, the length of the whole journey from offer to export;
  a worker, a node and two process ids more than they need.

Symmetry is used for safety only, never in a run with a liveness property. `CHECK_DEADLOCK
FALSE` is given where the system stops by design: all requests answered,
the last catalog written, all programs ended, every bound reached.

### Fairness

`TaskBoard!FairSpec`: the cron trigger (`apps/api/src/index.ts` 8-14) starts run
after run, so each step of a run is taken if it stays possible, and statements
succeed sometimes: strong fairness for the steps that an abort can disable.
Nothing is assumed of clients and administrators. `ObjectStore!FairSpec`: a
running process goes on; SQLite polls for a lock and reports an error after its
busy timeout, so a waiting process is not passed over for ever.
`NodeService!Fairness`: every step of a call has a timeout (`transport.rs`), so
that a caller sends, gets its answer or gives up; and a process that runs takes
the connections that wait and serves what it took. Both are weak fairness.
Nothing is assumed of restarts: a node that ended may stay down.

### Disagreements found

Two are runs:

- `board_credit`: `complete` racing `fail` stores credit although the audit
  ended as failed (`app.ts` 1056-1133).
- `vault_gc_crash`: gc deletes before it saves the catalog without the deleted
  files (`local_vault.rs` 473-501); a stop in between breaks every kit and every
  later gc. The desktop application has the right order (`desktop`).

The models show more, which no run checks. Where a document says otherwise it is
named.

*Coordinator.*

- A publication that lost the race commits its `catalog_pointer_updated` event
  with an UPDATE that changed nothing (`app.ts` 794-800), though
  `docs/EXECUTION_PLAN.md` 107 calls the audit mutations transactional.
  `CatalogPointer!EventsWereGranted` says that it does not happen, and is false
  after two interleaved requests.
- `docs/GOVERNANCE.md` 4-5 says that casting again replaces the counted choice
  while every cast remains in the audit history, and `CODEX_MASTER_PROMPT.md`
  747 allows it: the handler has no UPDATE, refuses the second cast by the
  primary key of `votes` and answers `duplicate_vote` (`app.ts` 1299-1310).
  `AuditLedger!CastingAgainReplaces` says what the document says, and is false
  after two casts of one member, without any interleaving. The control plane in
  memory refuses too, and has a test for it (`mesh-control/src/lib.rs` 691).
  `duplicate_vote` is also the answer to a vote that was never stored because
  another event moved the head of the chain.
- What `authenticate` returned is not looked up again (`app.ts` 161): a handler
  of an admin who is revoked meanwhile goes on.
- Repair tasks of two periods, or a placement added meanwhile, can put replicas
  in one failure domain (`maintenance.ts` 125); a failed audit leaves the
  placement healthy, so that the object is not short (`app.ts` 1108).

*Stores and vaults.*

- Reconcile empties the table of a store that another process uses, and a node
  can then exceed its quota (`store.rs` 115; `docs/NETWORK_LOCAL.md` 17).
- `.gc` files of an interrupted delete, or of one that could not get the write
  lock (`store.rs` 244-245, where the row is left too), stay in the store for
  ever and are not counted; two processes that put one object make the loser's
  INSERT fail (223); a blob that is lost while its row stands makes every put
  of the object fail until the store is opened again (178).
- A catalog signed by a command that stopped before `state.json` was saved has
  the version of the next one, and an old kit may follow it (`local_vault.rs`
  233; why `KitsSufficeWithoutCrash` speaks of behaviours without a crash). A
  `recover` that stops leaves a directory that makes every later one refuse (90).
- Desktop: two accidents, an add stopped after its catalog was stored and a gc
  stopped in its sweep, leave an old kit with a branch whose files are gone
  (`docs/RECOVERY.md` 20-23 promises that an older kit remains usable). One
  accident and a lost device can do the same: the catalog that was stored and
  not saved is what the next device may find and go on from, while the catalogs
  saved after it stay in the storage; two branches then have catalogs of the
  same versions, and a kit of the first catalog may find one whose files were
  swept since. That is why `KitsRecoverWhole` speaks of one stop and of the
  first device. Connecting hides a vault that was
  created in the device's own folders, and no command disconnects (119). A stop
  between the secrets and the state leaves a device that refuses both create and
  import (738).

*Network and demo.*

- A node ends on every error but a timeout (`main.rs` 369): a frame that arrives
  twice, or a caller that leaves while its frame is read, stops it, though the
  comment at 418-420 says that a desktop client that disappears must not
  terminate the node.
- A second `demo smoke` within a request's lifetime of 300 seconds repeats the
  request ids of the first, is refused as a replay and stops the nodes.
- A process id that was given to another program makes `up` refuse and `down`
  stop a stranger (`main.rs` 442, 478); an interrupted `up` leaves processes
  that no record names (466); `ready` files of an earlier demo let `up` report
  success early.

*Libraries.*

- `InMemoryMesh.repair` ignores failure domains and counts placements instead of
  nodes (`mesh-testkit/src/lib.rs` 108-136; `docs/EXECUTION_PLAN.md` 47-48 says
  that the mesh enforces independent domains).
- A manifest may name one recipient in two roles, or give a share that rounds to
  nothing, and can then never be settled (`settlement.rs` 128-158,
  `capability.rs` 123-151); `saturating_mul` leaves the rest of a large price to the last
  recipient (`capability.rs` 114). A receipt may be later than its instruction's
  expiry (`settlement.rs` 246), an instruction does not look at which
  capability was executed (146), and `MigrationReceipt.verify` does not look at
  the target.
- A credit ledger's overflow is looked for at the new entry's own time only
  (`credit.rs` 52). `consume_challenge` uses up the nonce whether or not the
  challenge is open (`mesh-control/src/lib.rs` 256).
- `LocalFileAnchor` (`audit.rs` 107; no program uses it) writes an anchor in
  several writes, so that a stop leaves an unterminated line.

## 5. Proofs

`CatalogPointerProof` and `LibraryProof` begin with the same five lemmas, which
say what the operators of `AuditRows` do for every chain: the latest row of a
chain that verifies is its last (`LatestIsLast`), a prepared row links
(`PreparedLinks`), a row that links and does not conflict keeps the chain
verifiable, however many rows were inserted since it was prepared
(`AppendLinked`, `InsertExtends`), and a row that links keeps linking
(`LinksStay`).

`CatalogPointerProof` proves, for every set of requests, vaults, members,
communities and cids:

- `TypeCorrect`: `Spec => []TypeOK`;
- `AuditTrail`: `Spec => []ChainsVerify`; `GrantTrail`: `Spec => []GrantsAudited`;
- `NoForkNoRollback`: `Spec => [](GrantsFormOneChain /\ PointerIsLastGrant)`;
- `Refinement`: `Spec => PublishesAtomically`, the handlers implement the atomic
  pointer.

The inductive invariant `IInv` is the conjunction of the checked invariants and
of two more, `ReadsStayLinked` and `PointerIsLastGrant`. None is inductive
alone: that a chain verifies after an insert needs `ReadsStayLinked` (the
inserted row was built on a row that is still there) and the unique index on the
sequence number (no other row followed it); that a grant extends the chain of
grants needs `PointerIsLastGrant` (the pointer the UPDATE found is a grant) and
`ReadsStayLinked` (the item followed the row that was read). The assumptions are
those of the module: versions are positive, `null` is no item, other handlers'
events are not catalog events.

`TaskBoardProof` proves, for every set of nodes, objects, handlers and
maintenance runs and every bound of the clock:

- `TypeCorrect`: `Spec => []TypeOK`;
- `Recorded`, `PaidOnce`, `FollowPlacements`: the invariants
  `SettledTasksAreRecorded`, `CompletedAuditsPaidOnce`, `TasksFollowPlacements`;
- `Lifecycle`: `Spec => TaskLifecycle`, the action property.

Its inductive invariant adds what a process has read and not yet used:
`ReadsStayTrue` (a handler that is about to complete or fail a task read it as
accepted, and since then it can only have been settled) and
`SelectionsStayPlaced` (a run that is about to ask a node for an object read
its placement row, and rows of placements are never removed). `ReadsStayTrue`
is why an UPDATE that selects no row leaves the trail right: somebody else has
settled the task. It is also as much as there is: it does not say how the task
was settled, which is the gap `board_credit` shows. TLC confirmed the
invariant on the instance of `board_race` before it was proved.

`MembershipProof` proves, for every set of keys, serial numbers, rows and
handlers and every life of a token:

- `TypesHold`: `Spec => []TypeOK`;
- `TokensAreSpentOnce`, `CredentialsFollowMemberships`: the invariants
  `TokensWorkOnce` and `MembersHoldCredentials`;
- `RevokedForever`: `Spec => RevocationIsFinal`, the action property.

Tokens are consumed in one statement and used in another. The inductive
invariant says of the time in between that what a handler has consumed is its
own: `ClaimedChallengesAreExclusive` (nobody else has claimed the challenge, no
session was made of it) and `ClaimedInvitesAreExclusive`, with
`ApprovalsAdmitOne`, which counts members against approved requests, and
`ReadRowsStay` (rows that a handler has read are never removed).

`LibraryProof` proves of the machines of `Library`, first of `AuditLedger`, for
every set of members, artifacts, handlers and maintenance runs and any number of
days:

- `TrailIsTheRecord`: `Spec => []RecordsAudited`, by `PreparedRowsLink` (a row
  that waits for its batch tells of its record and links to the chain, whatever
  was inserted since) and `InsertExtends`;
- `AnchorsAreRoots`: `Spec => []AnchorsMatchTheChain`, by `RunsMatchTheChain` (a
  root that a run has computed is that of a prefix, and stays so when the chain
  grows);
- `RecordsStay`: `Spec => PublishedStays`, the action property.

Of `DemoProcesses`, for every list of nodes and set of process ids:
`NothingIsLeft`, `Spec => []NothingLeftBehind`, by `DemoListed`: until an up is
cut short, a process of the demo is in the list of the running command or in the
record, at the place of what it was started as. Launched names must be distinct
and be none of a stranger's (`NamesAssumption`).

Of `LocalControlPlane`, for every set of members, nodes, objects, proposals and
credit entries, whatever times callers pass: `TrailOfTheCommunity`,
`Spec => []TrailTellsAll`, one part of the trail for each thing it tells of
(`RestTold`), with `VotesOK`: whoever has voted is finitely many, although
members need not be, so that votes can be counted. Assumed is that the founder is
a member and that `null` is no record.

Of `InMemoryMesh`, for every sequence of nodes, whatever their domains, their
room and the target: `CopiesAreListed`, `Spec => []OutagesHideNothing`. `MeshInv`
says that an intact copy on any node, also on one that is switched off, has a
placement; `replicate` and `repair` list what they store, and an audit changes
no more than what a placement says of its health. That `restore` then finds one
of them needs that `Min` and `InOrder` choose something: `LeastOf` and `Ranked`
prove it over finite sets ordered by inclusion.

Of `Commons`, for every set of offers, communities and operators and any amounts,
lives and limits: `ReceiptsHold`, `Spec => []ReceiptsAreEarned`. `MarketInv` keeps
what a receipt is worth with the record that tells of it and not with the slots,
which are replaced: an instruction conserves and divides the price of the
capability it carries (`Promises`), a receipt answers the instruction it carries,
and that was paid if a trusted operator calls it settled (`Answered`), a migration
names a bundle that its target has imported whole (`Delivered`). Verification
compares these with what is in the slots now. Assumed is that prices and points
are natural numbers, prices up to `MaxAmount`, and that there is a whole to
divide by (`AmountAssumption`).

`PartsAreTyped`: `PartSpec => []PartsOK`, the types of all five. `PartsHold`: side by
side, each of the machines does what it does alone (`PartsAreMachines`), so that
these invariants and the action property hold of `PartSpec`, which the run `library`
checks.

`LocalVaultProof` proves, for every set of files and any number of days,
catalogs and crashes:

- `VaultTypes`: `Spec => []TypeOK`;
- `HistoryIsKept`, `FilesAreKept`: the invariants `HistoryStays` and
  `RetainedFilesStay`, wherever commands stop;
- `KitsSuffice`: `Spec => []KitsSufficeWithoutCrash`.

`TypeOK` and the checked invariants say nothing of a command that is half done.
`CommandOK`, `GcOK`, `FilesOK` and `SignedOK` do: what a command has still to
store, together with what is stored, covers the files of the catalog it will
sign; a catalog that waits to be named by `state.json` is stored and links to the
one named now; what a gc removes belongs to expired files that its catalog does
not name; its sweep keeps what that catalog needs. `LineOK` is the other half of
`KitsSuffice`: until a command stops half way, the catalogs signed are versions
1, 2, 3 ... of one line, so that the scan of a kit meets one candidate for each
version, and ends at the last. The chain of a catalog is the recursive function
`History`. `ChainsOK` says that one function follows the links, and only one:
signing a catalog extends it (`LongerChains`), which is as far as a recursive
definition can be followed without induction. Assumed is only that there is room
for the first catalog and that `null` is no command.

`DesktopVaultProof` proves, for any retention and any number of files, catalogs,
days and stops, with a device that is replaced once, at any moment between
commands:

- `DesktopTypes`: `Spec => []TypeOK`;
- `SavedVaultsOpen`: `Spec => []VaultReadable`, wherever and however often
  commands are cut short;
- `KitsFind`: `Spec => []KitsFindTheLatest`;
- `KitsRecover`: `Spec => []KitsRecoverWhole`, when one command was cut short.

Again the argument is about the running command, here the list `job` of its
writes. For `SavedVaultsOpen` the inductive invariant `IInv` says of every write
that is still to be made what the writes before it and the storage give together:
before a catalog is saved, the secrets are, and all that it needs is stored or
will be (`SavesOK`); a sweep comes last and keeps what the catalog that is saved
then needs (`SweepsOK`); the saved catalog opens (`Opens`). `OneWrite` and
`NewJob` carry this through a write and into a command, once for all commands.
For `KitsFind` there is `Straight`, which holds until a command is cut short: the
catalogs are versions 1, 2, 3 ... of one line (`OneLine`), all but the last are
stored, and the last one's files are stored before it is (`CatalogsStored`,
`FilesStored`); no kit names a catalog before it is stored (`KitsStored`); a
sweep spares them all (`SweepsSpare`). A device writes to one storage, so that
the next one finds all the catalogs or none (`OneStorage`), and an import copies
all of them (`Copies`): a kit that is used in between finds the same catalog as
before. A walk over one line then ends at its last stored catalog, from wherever
it starts. `TheHistory` says of `History` what `ChainsOK` says in
`LocalVaultProof`.

For `KitsRecover` the line may fork, at any write at which a command can be cut
short. `FirstDevice` says what holds of a device that was never replaced: one
storage is in use (`Apart`), a catalog that is about to be saved links to the saved
one and a kit is written of what was saved (`Writing`), and kits name catalogs in
the history of the saved one. Until the stop there is `StillThere`: a command that
has not yet saved its catalog has removed nothing of the saved one. Afterwards
there is `Forks`: the catalogs signed are one line and at most one more, `d`, that
was signed in the command that was cut short (`Branches`). The line up to its end
and the end's files stay (`Stays`); nothing but the line is ever saved or linked
to (`SavesTheEnd`), and a sweep that touches `d`'s files takes its catalog too
(`LeavesBranch`), so that between commands `d` is there with its files or is not there
at all (`BranchIsWhole`). A walk from any kit ends at the end of the line or at `d`
(`ForkedFinds`), and both are whole. `ForkAtStop` makes `Forks` of `Straight`,
`FirstDevice` and `StillThere` at the stop, `ForksMoves` carries it on. A second
stop in the sweep would leave `d` without its files, and a next device may save
`d`: the two ways in which the property ends (Disagreements).

TLC confirmed `Straight` on an instance with two files and five catalogs, and
`FirstDevice`, `StillThere` and `Forks` with two files, six catalogs and two stops,
before they were proved. The only assumption is `BoundAssumption`: bounds
are numbers, and there is a first day.

`ObjectStoreProof` proves `StoreTypes`, `Spec => []TypeOK`, for every set of
objects, processes and faults: `TypeOK` says that the write lock is held by a
`put` between its `BEGIN IMMEDIATE` and its commit, and by nobody else. Under
the hypothesis `Alone` it proves, for every set of objects, quota and number of
faults:

- `StoredStays`: `KeptObjectsStay`, through a crash at any step;
- `TableIsTheFiles`: `RowsMatchFiles`;
- `WithinQuota`: `QuotaHolds`.

`Alone` says that one process uses the store, on a disk that may damage files
while the process may crash at any step, but that neither loses files nor
reports errors. This is what the run `store` instantiates, and how a node
process uses its store as long as no other program opens it. It is needed: with
a second process, reconcile empties the table under the first, and the three
invariants are false (Disagreements, above). The inductive invariant relates
files and rows in the middle of an operation: `Scanned` (a row has a blob and a
good blob a row, but for the object that is being worked on and for what a scan
has not reached), `ObjectIs` (what an operation found of its object, or did to
it, is still so), and `HasRoom`: there is room for all good blobs, whether or
not they have rows, which is why opening a store needs no look at the quota.

`NodeServiceProof` proves, for any number of nodes and callers, any lifetime of
requests, replica target and bound of clock, runs and faults:

- `NodeTypes`: `Spec => []TypeOK`;
- `RequestsExecuteOnce`: `Spec => []ExecutedOnce`. By `ClaimsOK`: a request that
  was executed, or is about to be, is claimed by its node until it has expired by
  the node's own last reading of the clock. A claim is dropped only by a reading
  at which the frame is not accepted any more, and readings do not run back;
- `ReportsAreTrue`: `Spec => []ReportedReplicasExist`. By `CallsOK` (a
  connection whose caller still waits carries the caller's current call, and
  there is one at most, so that an answer is never counted for another call or
  after its caller gave up) and `ClientsOK` (the nodes that a running program has
  counted hold the object).

Assumed is that every node has one endpoint in the caller's list, that a node
may run at least once and that `none` is no caller and no connection.

TLC confirmed each inductive invariant on the instance of its component's run
before it was proved, but for the uniqueness in `ChainsOK` and `TheHistory`, which
quantifies over all functions.

Only model-checked:

- all liveness (`ShortObjectsGetRepairs`, `OperationsEnd`, `CallsEnd`): fairness
  and ENABLED are beyond the prover;
- `KeptObjectsStay`, `RowsMatchFiles` and `QuotaHolds` are proved of one process,
  because they do not hold of several;
- nothing is claimed of `KitsRecoverWhole` after a second stop or on a device
  that replaces one, where it does not hold;
- the two properties of the runs that expect a violation, which are false.

## 6. Not modelled

Cryptography is perfect: signatures, encryption and hashes are represented by
what they guarantee. Wording, encodings and the coordinator's amounts of credit
are left out because no property here tells them apart. Also left out:

- two commands at once on one local vault: nothing locks `state.json`, and no
  document promises that it works;
- the exchange of request files of the node process (`main.rs` 825-896) and the
  one-way `send` and `accept` (`transport.rs` 202-267), which validate a frame
  as `call` and `accept_rpc` do and answer nothing;
- `delete_after` and `audit_object`, which no program sends;
- the commons workspace of the desktop application (`lib.rs` 203-311) and the
  configuration of a single store (438-473), each one write of one file;
- single signed records without a protocol: memories, grimoires, legacies,
  research records; the arithmetic of `physical_storage_cost`;
- file anchors of the audit log, registration and heartbeats of nodes,
  creating and counting proposals: single statements;
- user interfaces, site, verification commands and CI, which keep no protocol
  state.
