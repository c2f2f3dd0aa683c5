------------------------------ MODULE Library ------------------------------
(***************************************************************************)
(* Five machines side by side: the public record of the coordinator        *)
(* (AuditLedger), and the machines of the Rust libraries:                  *)
(* LocalControlPlane, InMemoryMesh and Commons, and the processes of the   *)
(* demo.  None reads the state of another, so that nothing is lost by      *)
(* letting one of them move in a behaviour and the others rest: "part"     *)
(* says which, and the numbers of their states are added, not multiplied.  *)
(***************************************************************************)
EXTENDS AuditLedger

CONSTANTS
  MeshNodes, FailureDomain, Space, Blob, Target, MaxPlacements,
  Signer, Founder, Box, Thing, PlacementId, Vault, Cid, Proposal, Nonce,
  Challenge, CreditKey, Amount, MaxCredit, Moment, Skew, ChallengeLife, MaxTrail,
  Whole, MaxAmount, Offer, Terms, Runtime, Approved, Operator, Trusted,
  Community, Limit, RecordLife, MaxTime, MaxRecords,
  DemoNodes, Pid, MaxCuts

VARIABLES part,
  active, blob, placements,
  members, nodes, objects, placed, pointers, proposals, ballots, voteCount,
  challenges, nonces, ledgers, trail, length,
  now, records, spell, manifest, execution, evidence, instruction, receipt,
  invocations, paid, bundle, migration, imported,
  table, pidRecord, folders, command, cuts

meshVars    == <<active, blob, placements>>
controlVars == <<members, nodes, objects, placed, pointers, proposals, ballots,
                 voteCount, challenges, nonces, ledgers, trail, length>>
commonsVars == <<now, records, spell, manifest, execution, evidence, instruction,
                 receipt, invocations, paid, bundle, migration, imported>>
demoVars    == <<table, pidRecord, folders, command, cuts>>
-----------------------------------------------------------------------------
Mesh == INSTANCE InMemoryMesh WITH Nodes <- MeshNodes, Object <- Blob

Control == INSTANCE LocalControlPlane WITH
  Member <- Signer, Node <- Box, Object <- Thing, Life <- ChallengeLife,
  MaxEvents <- MaxTrail

Market == INSTANCE Commons WITH Life <- RecordLife

Demo == INSTANCE DemoProcesses WITH
  Nodes <- DemoNodes, none <- null, record <- pidRecord

ASSUME MeshAssumption    == /\ Mesh!NodesAssumption
                            /\ Mesh!SpaceAssumption /\ Mesh!TargetAssumption
ASSUME ControlAssumption == /\ Control!FounderAssumption
                            /\ Control!MomentAssumption /\ Control!AmountAssumption
                            /\ Control!EventsAssumption /\ Control!NullAssumption
ASSUME MarketAssumption  == /\ Market!AmountAssumption
                            /\ Market!TrustAssumption /\ Market!LimitAssumption
ASSUME DemoAssumption    == Demo!CutAssumption /\ Demo!NamesAssumption
-----------------------------------------------------------------------------
PartInit ==
  /\ part \in {"ledger", "mesh", "control", "market", "demo"}
  /\ Init /\ Mesh!Init /\ Control!Init /\ Market!Init /\ Demo!Init

LedgerNext ==
  /\ part = "ledger" /\ Next
  /\ UNCHANGED <<part, meshVars, controlVars, commonsVars, demoVars>>

MeshNext ==
  /\ part = "mesh" /\ Mesh!Next
  /\ UNCHANGED <<part, vars, controlVars, commonsVars, demoVars>>

ControlNext ==
  /\ part = "control" /\ Control!Next
  /\ UNCHANGED <<part, vars, meshVars, commonsVars, demoVars>>

MarketNext ==
  /\ part = "market" /\ Market!Next
  /\ UNCHANGED <<part, vars, meshVars, controlVars, demoVars>>

DemoNext ==
  /\ part = "demo" /\ Demo!Next
  /\ UNCHANGED <<part, vars, meshVars, controlVars, commonsVars>>

PartNext == LedgerNext \/ MeshNext \/ ControlNext \/ MarketNext \/ DemoNext

PartSpec ==
  PartInit
    /\ [][PartNext]_<<part, vars, meshVars, controlVars, commonsVars, demoVars>>
-----------------------------------------------------------------------------
(***************************************************************************)
(* The tables, maps, lists and slots of the five machines keep their       *)
(* shape.                                                                  *)
(***************************************************************************)
PartsOK == TypeOK /\ Mesh!TypeOK /\ Control!TypeOK /\ Market!TypeOK
                   /\ Demo!TypeOK

(***************************************************************************)
(* InMemoryMesh: no outage is remembered for longer than it lasts.         *)
(***************************************************************************)
OutagesHideNothing == Mesh!OutagesHideNothing

(***************************************************************************)
(* LocalControlPlane: the trail tells all that was stored, and no more.    *)
(***************************************************************************)
TrailTellsAll == Control!TrailTellsAll

(***************************************************************************)
(* Commons: a receipt that verifies is worth what it says.                 *)
(***************************************************************************)
ReceiptsAreEarned == Market!ReceiptsAreEarned

(***************************************************************************)
(* DemoProcesses: the demo never runs twice, and down leaves nothing of it *)
(* running, unless an up ended before it had recorded what it started.     *)
(***************************************************************************)
NothingLeftBehind == Demo!NothingLeftBehind
=============================================================================
