---------------------------- MODULE InMemoryMesh ----------------------------
(***************************************************************************)
(* The mesh of the test kit, over storage nodes of crates/mesh-node: it    *)
(* replicates, restores, audits and repairs objects, and keeps a list of   *)
(* placements it never shortens.  Its callers hold it exclusively; in      *)
(* between, nodes go offline and come back, and blobs are damaged.         *)
(*                                                                         *)
(* A node's store is reduced to what it answers: an intact blob is         *)
(* returned, a damaged one is refused and overwritten by the next put, and *)
(* a put that needs space the node does not have fails.                    *)
(***************************************************************************)
EXTENDS Naturals, FiniteSets, SequencesExt

CONSTANTS Nodes,         \* the nodes, in the mesh's order
          FailureDomain, \* of each node
          Space,         \* how many objects each node has room for
          Object,
          Target,        \* how many replicas callers ask for
          MaxPlacements  \* bound: no call that could place more

NodesAssumption  == Nodes \in Seq(ToSet(Nodes))
SpaceAssumption  == Space \in [ToSet(Nodes) -> Nat]
TargetAssumption == Target \in Nat \ {0} /\ MaxPlacements \in Nat

Node == ToSet(Nodes)

VARIABLES
  active,    \* the nodes that are not offline
  blob,      \* what each node has of each object: "none", "intact", "damaged"
  placements \* the mesh's list

vars == <<active, blob, placements>>

Init ==
  /\ active = Node
  /\ blob = [n \in Node |-> [o \in Object |-> "none"]]
  /\ placements = <<>>
-----------------------------------------------------------------------------
(***************************************************************************)
(* StorageNode.                                                            *)
(***************************************************************************)
SetActive(n) ==
  /\ active' = IF n \in active THEN active \ {n} ELSE active \cup {n}
  /\ UNCHANGED <<blob, placements>>

Damage(n, o) ==
  /\ blob[n][o] = "intact"
  /\ blob' = [blob EXCEPT ![n][o] = "damaged"]
  /\ UNCHANGED <<active, placements>>

\* get returns the object; audit is true of it.
Serves(n, o) == n \in active /\ blob[n][o] = "intact"

\* put would succeed.  What is damaged is removed first and makes room.
HasRoom(n, o) ==
  Cardinality({p \in Object \ {o} : blob[n][p] # "none"}) < Space[n]

PutAll(ns, o) ==
  blob' = [n \in Node |-> IF n \in ns THEN [blob[n] EXCEPT ![o] = "intact"] ELSE blob[n]]
-----------------------------------------------------------------------------
(***************************************************************************)
(* InMemoryMesh.                                                           *)
(***************************************************************************)
PlacementOf(o, n) == [object |-> o, node |-> n, healthy |-> TRUE]

Place(list, ns, o) == list \o [i \in DOMAIN ns |-> PlacementOf(o, ns[i])]

\* Nodes are taken in order until there are enough or a put fails, and what
\* was placed before the failure stays.
Taken(ns, o, wanted) ==
  LET full == {i \in DOMAIN ns : ~HasRoom(ns[i], o)}
      upTo == Min({wanted, Len(ns)} \cup {i - 1 : i \in full})
  IN  SubSeq(ns, 1, upTo)

\* The nodes at some places of the mesh's list, in its order.
InOrder(places) ==
  LET place(k) == CHOOSE i \in places : Cardinality({j \in places : j <= i}) = k
  IN  [k \in 1 .. Cardinality(places) |-> Nodes[place(k)]]

\* The active nodes, one of each failure domain.
Independent ==
  LET up == {i \in DOMAIN Nodes : Nodes[i] \in active}
  IN  InOrder({i \in up : \A j \in up :
                 FailureDomain[Nodes[j]] = FailureDomain[Nodes[i]] => i <= j})

\* Answers the cid if Target nodes took the object, and an error otherwise.
Replicate(o) ==
  LET ns == Taken(Independent, o, Target)
  IN  /\ Len(placements) + Target <= MaxPlacements
      /\ PutAll(ToSet(ns), o)
      /\ placements' = Place(placements, ns, o)
      /\ UNCHANGED active

\* The placements restore would ask, and the first of them that answers.
Candidates(list, o) == {i \in DOMAIN list : list[i].object = o /\ list[i].healthy}
Answering(list, o)  == {i \in Candidates(list, o) : Serves(list[i].node, o)}

Restorable(list, o) == Answering(list, o) # {}

\* restore marks those that fail before the first that answers.
Tried(list, o) ==
  [i \in DOMAIN list |->
     IF i \in Candidates(list, o) /\ \A j \in Answering(list, o) : i < j
     THEN [list[i] EXCEPT !.healthy = FALSE]
     ELSE list[i]]

Restore(o) ==
  /\ placements' = Tried(placements, o)
  /\ UNCHANGED <<active, blob>>

\* Mutant: leaves alone what is already marked unhealthy.
AuditedHealthy(list, o) ==
  [i \in DOMAIN list |->
     IF i \in Candidates(list, o)
     THEN [list[i] EXCEPT !.healthy = Serves(list[i].node, o)]
     ELSE list[i]]

Audited(list, o) ==
  [i \in DOMAIN list |->
     IF list[i].object = o
     THEN [list[i] EXCEPT !.healthy = Serves(list[i].node, o)]
     ELSE list[i]]

AuditAll(o) ==
  /\ placements' = Audited(placements, o)
  /\ UNCHANGED <<active, blob>>

\* repair restores the object first.  It counts the placements that are then
\* marked healthy, and looks at neither their nodes nor failure domains.
Repair(o) ==
  LET list    == Tried(placements, o)
      healthy == Candidates(list, o)
      spare   == InOrder({k \in DOMAIN Nodes :
                            /\ Nodes[k] \in active
                            /\ \A i \in healthy : list[i].node # Nodes[k]})
      count   == Cardinality(healthy)
      ns      == IF count >= Target THEN <<>> ELSE Taken(spare, o, Target - count)
  IN  /\ Len(placements) + Target <= MaxPlacements
      /\ IF Restorable(placements, o)
         THEN PutAll(ToSet(ns), o) /\ placements' = Place(list, ns, o)
         ELSE placements' = list /\ UNCHANGED blob
      /\ UNCHANGED active
-----------------------------------------------------------------------------
Next ==
  \/ \E n \in Node : SetActive(n) \/ \E o \in Object : Damage(n, o)
  \/ \E o \in Object : Replicate(o) \/ Restore(o) \/ AuditAll(o) \/ Repair(o)

Spec == Init /\ [][Next]_vars
-----------------------------------------------------------------------------
(***************************************************************************)
(* Placements and blobs keep their shape.                                  *)
(***************************************************************************)
TypeOK ==
  /\ active \subseteq Node
  /\ blob \in [Node -> [Object -> {"none", "intact", "damaged"}]]
  /\ placements \in Seq([object : Object, node : Node, healthy : BOOLEAN])

(***************************************************************************)
(* No outage is remembered for longer than it lasts: once audit_all has    *)
(* looked again, restore finds every object of which an active node has an *)
(* intact copy, whatever restores and repairs met while nodes were away.   *)
(* A copy the mesh does not list would be lost to it for ever.             *)
(***************************************************************************)
OutagesHideNothing ==
  \A o \in Object :
    Restorable(Audited(placements, o), o) <=> \E n \in Node : Serves(n, o)
=============================================================================
