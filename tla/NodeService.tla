----------------------------- MODULE NodeService -----------------------------
(***************************************************************************)
(* Storage nodes that serve signed requests, and the programs that call    *)
(* them: the desktop application, `demo smoke' and `verify'.               *)
(*                                                                         *)
(* A node is one process that serves one connection at a time.  It reads   *)
(* the clock, waits for a connection, checks the frame against that        *)
(* reading, claims the request's identifier in a durable table, executes   *)
(* the request and answers it.  Any error before the claim ends the        *)
(* process.  Each start of a node binds a new endpoint, so a program that  *)
(* holds the endpoint of an earlier run reaches nobody.  A caller waits    *)
(* for its answer only so long and then asks the next node.                *)
(*                                                                         *)
(* The callers sign correctly and hold valid credentials; objects are put  *)
(* under their own identifiers and stay intact (ObjectStore has damage).   *)
(* No caller sends delete_after or audit_object.                           *)
(***************************************************************************)
EXTENDS Naturals, Sequences, FiniteSets, Bags

CONSTANTS Endpoints,          \* the nodes in the order in which callers try them
          Client, Object, none,
          Ttl,                \* the lifetime of a request
          Target,             \* replicas that a put must reach
          Programs,           \* bound: which program may be started as the i-th
          Roles,              \* the roles in the callers' credential
          MaxTime, MaxRuns, MaxFaults  \* bounds

Node == {Endpoints[i] : i \in DOMAIN Endpoints}
Operation == {"ping", "put", "get", "has", "replicate"}
Program == {"connect", "status", "put", "get", "has", "smoke", "repair"}

\* A signed request, and a connection that carries one to a node; the caller
\* is none once nobody waits for the answer.
Requests == [id : Nat \X Nat, op : Operation, object : Object \cup {none},
             issued : Nat, expires : Nat]
Connection == [frame : Requests, node : Node, caller : Client \cup {none}]

ASSUME BoundAssumption ==
  {Ttl, Target, MaxTime, MaxRuns, MaxFaults} \subseteq Nat /\ MaxRuns >= 1
ASSUME NoneAssumption == none \notin Client \cup Connection
\* Every node has an endpoint of its own.
ASSUME EndpointAssumption ==
  /\ Endpoints \in Seq(Node)
  /\ \A i, j \in DOMAIN Endpoints : Endpoints[i] = Endpoints[j] => i = j
ASSUME TargetAssumption == Target \in 1 .. Len(Endpoints)
ASSUME ProgramAssumption == Programs \in Seq(SUBSET Program)

VARIABLES
  clock,
  node,      \* where each node's process stands
  claims,    \* network-replay.sqlite3 of each node
  objects,   \* what each node's store holds
  wire,      \* connections that no node has taken yet
  client,    \* where each client stands
  profile,   \* local-mesh-profile.json: the run of each node that c connected to
  ops,       \* programs started
  faults,    \* kills, late or lost answers, frames presented again
  executed,  \* history: the frames each node executed, a bag
  done       \* history: objects of which a program reported enough replicas

vars == <<clock, node, claims, objects, wire, client, profile, ops, faults,
          executed, done>>

Idle == [program |-> "idle", object |-> none, dest |-> none, number |-> 0,
         began |-> 0, to |-> [n \in Node |-> 0], pos |-> 0, yes |-> {},
         failed |-> FALSE, waits |-> FALSE]

\* A node at the head of its loop has just read the clock.
Accepting(run) == [pc |-> "accepting", run |-> run, now |-> clock, conn |-> none]

Init ==
  /\ clock = 0
  /\ node = [n \in Node |-> Accepting(1)]
  /\ claims = [n \in Node |-> {}]
  /\ objects = [n \in Node |-> {}]
  /\ wire = {}
  /\ client = [c \in Client |-> Idle]
  /\ profile = [c \in Client |-> [n \in Node |-> 1]]
  /\ ops = 0 /\ faults = 0
  /\ executed = [n \in Node |-> EmptyBag]
  /\ done = {}

(***************************************************************************)
(* The calls of a program.                                                 *)
(***************************************************************************)
Others(d) ==
  LET i == CHOOSE i \in DOMAIN Endpoints : Endpoints[i] = d
  IN  SubSeq(Endpoints, 1, i - 1) \o SubSeq(Endpoints, i + 1, Len(Endpoints))
Each(op, nodes) == [i \in DOMAIN nodes |-> [op |-> op, node |-> nodes[i]]]

DesktopCalls(p) ==
  Each(IF p \in {"connect", "status"} THEN "ping" ELSE p, Endpoints)
SmokeCalls == Each("put", Endpoints) \o Each("get", Endpoints)
\* repair gets the object from the first node that has it.
RepairCalls(d) ==
  Append(Each("get", Others(d)), [op |-> "replicate", node |-> d])
Calls(k) == CASE k.program = "smoke"  -> SmokeCalls
              [] k.program = "repair" -> RepairCalls(k.dest)
              [] OTHER -> DesktopCalls(k.program)

Request(id, k, now) ==
  [id |-> id, op |-> Calls(k)[k.pos].op, object |-> k.object,
   issued |-> now, expires |-> now + Ttl]
\* demo smoke numbers its requests from one each time that it runs, and reads
\* the clock once.
SmokeFrame(k) == Request(<<0, k.pos>>, k, k.began)
FreshFrame(k) == Request(<<k.number, k.pos>>, k, clock)
Frame(k) == IF k.program = "smoke" THEN SmokeFrame(k) ELSE FreshFrame(k)

\* A get ends with the first answer, demo smoke with the first failure, and
\* repair goes from the first source that answers to its destination.
Follow(k, ok) ==
  LET last == Len(Calls(k))
  IN CASE k.program = "get" /\ ok -> last + 1
       [] k.program = "smoke" /\ ~ok -> last + 1
       [] k.program = "repair" /\ k.pos < last /\ ok -> last
       [] k.program = "repair" /\ k.pos = last - 1 /\ ~ok -> last + 1
       [] OTHER -> k.pos + 1

\* Mutant: every node that was asked counts.
AfterAnyAnswer(k, ok) ==
  [k EXCEPT !.pos = Follow(k, ok), !.waits = FALSE, !.failed = @ \/ ~ok,
            !.yes = @ \cup {Calls(k)[k.pos].node}]
After(k, ok) ==
  [k EXCEPT !.pos = Follow(k, ok), !.waits = FALSE, !.failed = @ \/ ~ok,
            !.yes = IF ok THEN @ \cup {Calls(k)[k.pos].node} ELSE @]

Enough(k) ==
  CASE k.program = "smoke" -> ~k.failed
    [] k.program \in {"put", "has"} -> Cardinality(k.yes) >= Target
    [] OTHER -> FALSE

\* Connecting succeeds with the first endpoint that answers, and keeps all.
SaveProfile(c, k) ==
  profile' = IF k.program = "connect" /\ k.yes # {}
             THEN [profile EXCEPT ![c] = k.to] ELSE profile

\* The client's call ends; its program ends with the last one.
Advance(c, ok) ==
  LET k == After(client[c], ok)
  IN IF k.pos <= Len(Calls(k))
     THEN /\ client' = [client EXCEPT ![c] = k]
          /\ UNCHANGED <<profile, done>>
     ELSE /\ client' = [client EXCEPT ![c] = Idle]
          /\ SaveProfile(c, k)
          /\ done' = IF Enough(k) THEN done \cup {k.object} ELSE done

Run(n) == node[n].run

\* connect and demo smoke read the endpoint files, the others the profile.
Begin(c, p, o, d) ==
  /\ client[c].program = "idle"
  /\ ops < Len(Programs) /\ p \in Programs[ops + 1]
  /\ (o = none) <=> (p \in {"connect", "status"})
  /\ (d = none) <=> (p # "repair")
  /\ ops' = ops + 1
  /\ client' = [client EXCEPT ![c] =
       [Idle EXCEPT !.program = p, !.object = o, !.dest = d, !.number = ops',
          !.began = clock, !.pos = 1,
          !.to = IF p \in {"connect", "smoke"} THEN [n \in Node |-> Run(n)]
                 ELSE profile[c]]]
  /\ UNCHANGED <<clock, node, claims, objects, wire, profile, faults,
                 executed, done>>

Waiting(c) == client[c].program # "idle" /\ client[c].waits
Callee(c) == Calls(client[c])[client[c].pos].node
Reachable(c) == /\ node[Callee(c)].pc # "down"
                /\ client[c].to[Callee(c)] = Run(Callee(c))

Send(c) ==
  /\ client[c].program # "idle" /\ ~Waiting(c) /\ Reachable(c)
  /\ wire' = wire \cup {[frame |-> Frame(client[c]), node |-> Callee(c),
                          caller |-> c]}
  /\ client' = [client EXCEPT ![c].waits = TRUE]
  /\ UNCHANGED <<clock, node, claims, objects, profile, ops, faults,
                 executed, done>>

Faulty == faults < MaxFaults /\ faults' = faults + 1

\* The endpoint is not there, the connection broke, or a node that is alive is
\* too slow: what was sent may then still reach it.
Taken(c) == {n \in Node : node[n].conn # none /\ node[n].conn.caller = c}
Sent(c) == {w \in wire : w.caller = c}
\* Mutant: a call has no timeout.
NoAnswerWithoutTimeout(c) ==
  /\ client[c].program # "idle" /\ ~Waiting(c) /\ ~Reachable(c)
  /\ Advance(c, FALSE)
  /\ UNCHANGED <<clock, node, claims, objects, wire, ops, faults, executed>>
NoAnswer(c) ==
  /\ client[c].program # "idle" /\ (Waiting(c) \/ ~Reachable(c))
  /\ IF Sent(c) = {} /\ Taken(c) = {} THEN UNCHANGED faults ELSE Faulty
  /\ Advance(c, FALSE)
  /\ wire' = (wire \ Sent(c)) \cup {[w EXCEPT !.caller = none] : w \in Sent(c)}
  /\ node' = [n \in Node |-> IF n \in Taken(c)
                             THEN [node[n] EXCEPT !.conn.caller = none]
                             ELSE node[n]]
  /\ UNCHANGED <<clock, claims, objects, ops, executed>>

\* A frame that a node executed is presented to it again.
Repeat(n, f) ==
  /\ BagIn(f, executed[n]) /\ node[n].pc # "down" /\ Faulty
  /\ wire' = wire \cup {[frame |-> f, node |-> n, caller |-> none]}
  /\ UNCHANGED <<clock, node, claims, objects, client, profile, ops,
                 executed, done>>

(***************************************************************************)
(* The nodes.                                                              *)
(***************************************************************************)
Permits(op) ==
  CASE op = "ping" -> {"member", "node"}
    [] op \in {"get", "has"} -> {"member", "node"}
    [] op \in {"put", "replicate"} -> {"node"}

Valid(f, now) ==
  /\ f.issued <= now + Ttl /\ f.expires >= now
  /\ Permits(f.op) \cap Roles # {}

\* Mutant: expired claims are removed by the clock of the moment.
UnexpiredByClock(n) == {r \in claims[n] : r.expires >= clock}
Unexpired(n) == {r \in claims[n] : r.expires >= node[n].now}
Claimed(n, f) == \E r \in Unexpired(n) : r.id = f.id
Accepts(n, f) == Valid(f, node[n].now) /\ ~Claimed(n, f)

\* Connections to a run of a node end with it.
Stop(n) ==
  /\ node' = [node EXCEPT ![n].pc = "down", ![n].conn = none]
  /\ wire' = {w \in wire : w.node # n}

\* Mutant: the answered connection is kept.
NextLoopKeepsConnection(n) ==
  node' = [node EXCEPT ![n].pc = "accepting", ![n].now = clock]
NextLoop(n) == node' = [node EXCEPT ![n] = Accepting(Run(n))]

\* validate_frame with the reading of the clock from before the accept.  A
\* replayed frame still commits the removal of expired claims.
Receive(n, w) ==
  /\ node[n].pc = "accepting" /\ w.node = n
  /\ IF Accepts(n, w.frame)
     THEN /\ claims' = [claims EXCEPT ![n] = Unexpired(n) \cup
                          {[id |-> w.frame.id, expires |-> w.frame.expires]}]
          /\ node' = [node EXCEPT ![n].pc = "claimed", ![n].conn = w]
          /\ wire' = wire \ {w}
     ELSE /\ claims' = IF Valid(w.frame, node[n].now)
                       THEN [claims EXCEPT ![n] = Unexpired(n)] ELSE claims
          /\ Stop(n)
  /\ UNCHANGED <<clock, objects, client, profile, ops, faults, executed, done>>

\* The caller left before its frame was read: reading fails, which ends the
\* node, or runs into its timeout, which does not.
ReadFails(n, w) ==
  /\ node[n].pc = "accepting" /\ w.node = n /\ w.caller = none
  /\ Stop(n) \/ (NextLoop(n) /\ wire' = wire \ {w})
  /\ UNCHANGED <<clock, claims, objects, client, profile, ops, faults,
                 executed, done>>

\* Nobody connects for a while.
AcceptTimeout(n) ==
  /\ node[n].pc = "accepting" /\ node[n].now # clock
  /\ NextLoop(n)
  /\ UNCHANGED <<clock, claims, objects, wire, client, profile, ops, faults,
                 executed, done>>

\* The store may refuse an object that it does not hold.
Puts(f) == f.op \in {"put", "replicate"}
Outcomes(n, f) ==
  LET held == f.object \in objects[n]
  IN IF Puts(f) THEN {held, TRUE} ELSE {held \/ f.op = "ping"}

\* The answer reaches a caller that still waits, or is lost.
Respond(c, ok) ==
  \/ c # none /\ Advance(c, ok) /\ UNCHANGED faults
  \/ c # none /\ Faulty /\ UNCHANGED <<client, profile, done>>
  \/ c = none /\ UNCHANGED <<client, profile, done, faults>>

Serve(n) ==
  /\ node[n].pc = "claimed"
  /\ NextLoop(n)
  /\ LET f == node[n].conn.frame
     IN /\ executed' = [executed EXCEPT ![n] = @ (+) SetToBag({f})]
        /\ \E ok \in Outcomes(n, f) :
             /\ objects' = [objects EXCEPT ![n] =
                              IF Puts(f) /\ ok THEN @ \cup {f.object} ELSE @]
             /\ Respond(node[n].conn.caller, ok)
  /\ UNCHANGED <<clock, claims, wire, ops>>

Crash(n) ==
  /\ node[n].pc # "down" /\ Faulty
  /\ Stop(n)
  /\ UNCHANGED <<clock, claims, objects, client, profile, ops, executed, done>>

Start(n) ==
  /\ node[n].pc = "down" /\ Run(n) < MaxRuns
  /\ node' = [node EXCEPT ![n] = Accepting(Run(n) + 1)]
  /\ UNCHANGED <<clock, claims, objects, wire, client, profile, ops, faults,
                 executed, done>>

\* A node waits for a connection for much less than Ttl before it reads the
\* clock again.
Tick ==
  /\ clock < MaxTime
  /\ \A n \in Node : node[n].pc = "accepting" => node[n].now = clock
  /\ clock' = clock + 1
  /\ UNCHANGED <<node, claims, objects, wire, client, profile, ops, faults,
                 executed, done>>

Next ==
  \/ Tick
  \/ \E c \in Client : Send(c) \/ NoAnswer(c)
  \/ \E c \in Client, p \in Program :
       \E o \in Object \cup {none}, d \in Node \cup {none} : Begin(c, p, o, d)
  \/ \E n \in Node : \/ AcceptTimeout(n) \/ Serve(n)
                     \/ Crash(n) \/ Start(n)
                     \/ \E w \in wire : Receive(n, w) \/ ReadFails(n, w)
                     \/ \E f \in BagToSet(executed[n]) : Repeat(n, f)

\* The time a caller waits is bounded, whatever the nodes do; a node that runs
\* takes connections and serves them.
Fairness ==
  /\ \A c \in Client : WF_vars(Send(c) \/ NoAnswer(c))
  /\ \A n \in Node :
       WF_vars(Serve(n) \/ \E w \in wire : Receive(n, w) \/ ReadFails(n, w))

Spec == Init /\ [][Next]_vars /\ Fairness

(***************************************************************************)
(* Properties.                                                             *)
(***************************************************************************)
TypeOK ==
  /\ clock \in 0 .. MaxTime
  /\ \A n \in Node : /\ node[n].pc \in {"down", "accepting", "claimed"}
                     /\ Run(n) \in 1 .. MaxRuns /\ node[n].now \in 0 .. clock
                     /\ (node[n].conn # none) <=> (node[n].pc = "claimed")
                     /\ IsABag(executed[n])
  /\ objects \in [Node -> SUBSET Object]
  /\ wire \subseteq Connection
  /\ \A c \in Client : client[c].program \in Program \cup {"idle"}
  /\ done \subseteq Object

\* No node executes one request twice, although it forgets the claims that
\* expired by the reading of the clock that it took before the connection
\* came, and although it crashes and starts again.
ExecutedOnce ==
  \A n \in Node : \A f \in BagToSet(executed[n]) : executed[n][f] = 1

\* An object that a program reported on enough nodes is on as many nodes,
\* whatever answers were late, lost or from an earlier run of a node.
ReportedReplicasExist ==
  \A o \in done : Cardinality({n \in Node : o \in objects[n]}) >= Target

\* A program comes to its end although nodes stop with its request taken.
CallsEnd ==
  \A c \in Client : client[c].program # "idle" ~> client[c].program = "idle"
=============================================================================
