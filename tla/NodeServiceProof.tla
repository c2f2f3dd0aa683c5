-------------------------- MODULE NodeServiceProof ---------------------------
(***************************************************************************)
(* Proofs about NodeService, for any number of nodes and callers: no node  *)
(* executes a request twice, whatever it forgets and however often it      *)
(* stops, and an object that a program reported on enough nodes is there.  *)
(***************************************************************************)
EXTENDS NodeService, FiniteSetTheorems, TLAPS

Claim == [id : Nat \X Nat, expires : Nat]

Call == [op : Operation, node : Node]

NodeState ==
  [pc : {"down", "accepting", "claimed"}, run : 1 .. MaxRuns, now : 0 .. MaxTime,
   conn : Connection \cup {none}]

ClientState ==
  [program : Program \cup {"idle"}, object : Object \cup {none},
   dest : Node \cup {none}, number : Nat, began : Nat, to : [Node -> Nat],
   pos : Nat, yes : SUBSET Node, failed : BOOLEAN, waits : BOOLEAN]

\* What is presented to nodes names an object if it is to store one.
Sound == {f \in Requests : Puts(f) => f.object \in Object}

TypesOK ==
  /\ clock \in 0 .. MaxTime
  /\ node \in [Node -> NodeState]
  /\ claims \in [Node -> SUBSET Claim]
  /\ objects \in [Node -> SUBSET Object]
  /\ wire \subseteq Connection
  /\ client \in [Client -> ClientState]
  /\ profile \in [Client -> [Node -> Nat]]
  /\ ops \in Nat
  /\ done \subseteq Object

(***************************************************************************)
(* A node's clock reading never runs ahead, and a connection that it took  *)
(* was for it.                                                             *)
(***************************************************************************)
NodesOK ==
  \A n \in Node : /\ node[n].now <= clock
                  /\ (node[n].conn # none) <=> (node[n].pc = "claimed")
                  /\ node[n].conn # none => node[n].conn.node = n

(***************************************************************************)
(* Each request a node executed, or is about to, counts once, and is       *)
(* claimed until it has expired by the node's own reading of the clock,    *)
(* after which it is not valid.                                            *)
(***************************************************************************)
Mark(f) == [id |-> f.id, expires |-> f.expires]

Handled(n) ==
  BagToSet(executed[n])
    \cup (IF node[n].pc = "claimed" THEN {node[n].conn.frame} ELSE {})

ClaimsOK ==
  /\ executed = [n \in Node |-> SetToBag(BagToSet(executed[n]))]
  /\ \A w \in wire : w.frame \in Sound
  /\ \A n \in Node :
       /\ Handled(n) \subseteq Sound
       /\ \A f \in Handled(n) : f.expires < node[n].now \/ Mark(f) \in claims[n]
       /\ node[n].pc = "claimed" => node[n].conn.frame \notin BagToSet(executed[n])

(***************************************************************************)
(* A program that runs has calls left, names an object if they are about   *)
(* one, and only counts nodes that hold it; demo smoke counts them all.    *)
(***************************************************************************)
Reporting == {"put", "has", "smoke"}

ProgramOK(k) ==
  /\ k.program \notin {"connect", "status"} => k.object \in Object
  /\ k.program = "repair" => k.dest \in Node

CountOK(k, held) ==
  /\ k.program \in Reporting => \A n \in k.yes : k.object \in held[n]
  /\ k.program = "smoke" /\ ~k.failed =>
       \A i \in 1 .. k.pos - 1 : Calls(k)[i].node \in k.yes

ClientOK(k, held) ==
  k.program # "idle" =>
    /\ ProgramOK(k) /\ k.pos \in 1 .. Len(Calls(k)) /\ CountOK(k, held)

ClientsOK == \A c \in Client : ClientOK(client[c], objects)

(***************************************************************************)
(* A connection whose caller waits carries the caller's current call, and  *)
(* a caller has one connection at most.                                    *)
(***************************************************************************)
Carries(w, k) ==
  /\ k.program # "idle" /\ k.waits
  /\ w.node = Calls(k)[k.pos].node
  /\ w.frame.op = Calls(k)[k.pos].op /\ w.frame.object = k.object

CallsOK ==
  /\ \A w \in wire : w.caller # none => Carries(w, client[w.caller])
  /\ \A n \in Node :
       node[n].conn # none /\ node[n].conn.caller # none =>
         Carries(node[n].conn, client[node[n].conn.caller])
  /\ \A v, w \in wire : v.caller # none /\ v.caller = w.caller => v = w
  /\ \A n \in Node, w \in wire :
       node[n].conn # none /\ w.caller # none => node[n].conn.caller # w.caller

IInv ==
  /\ TypesOK /\ NodesOK /\ ClaimsOK /\ ClientsOK /\ CallsOK
  /\ ReportedReplicasExist

-----------------------------------------------------------------------------
(***************************************************************************)
(* Endpoints and the calls of a program.                                   *)
(***************************************************************************)
LEMMA Nodes ==
  /\ Len(Endpoints) \in Nat /\ Len(Endpoints) >= 1 /\ DOMAIN Endpoints = 1 .. Len(Endpoints)
  /\ \A i \in 1 .. Len(Endpoints) : Endpoints[i] \in Node
  /\ IsFiniteSet(Node) /\ Cardinality(Node) = Len(Endpoints)
<1>1. /\ Len(Endpoints) \in Nat /\ Len(Endpoints) >= 1
      /\ DOMAIN Endpoints = 1 .. Len(Endpoints)
      /\ \A i \in 1 .. Len(Endpoints) : Endpoints[i] \in Node
  BY EndpointAssumption, TargetAssumption, BoundAssumption
<1> DEFINE ids == 1 .. Len(Endpoints)
<1>2. IsFiniteSet(ids) /\ Cardinality(ids) = Len(Endpoints)
  BY <1>1, FS_Interval
<1>3. [i \in ids |-> Endpoints[i]] \in Bijection(ids, Node)
  <2>1. Node = {Endpoints[i] : i \in ids}
    BY <1>1 DEF Node
  <2>2. \A i, j \in ids : Endpoints[i] = Endpoints[j] => i = j
    BY <1>1, EndpointAssumption
  <2> HIDE DEF ids
  <2> QED
    BY <2>1, <2>2 DEF Bijection, Injection, Surjection, IsInjective
<1>4. ExistsBijection(ids, Node)
  BY <1>3 DEF ExistsBijection
<1> QED
  BY <1>1, <1>2, <1>4, FS_Bijection

LEMMA OthersAreNodes ==
  ASSUME NEW d \in Node
  PROVE  Others(d) \in Seq(Node)
<1> DEFINE i == CHOOSE i \in DOMAIN Endpoints : Endpoints[i] = d
<1>1. i \in 1 .. Len(Endpoints)
  BY Nodes DEF Node
<1>2. Others(d) = SubSeq(Endpoints, 1, i - 1) \o SubSeq(Endpoints, i + 1, Len(Endpoints))
  BY DEF Others
<1> HIDE DEF i
<1>3. /\ SubSeq(Endpoints, 1, i - 1) \in Seq(Node)
      /\ SubSeq(Endpoints, i + 1, Len(Endpoints)) \in Seq(Node)
  BY <1>1, EndpointAssumption, Nodes
<1> QED
  BY <1>2, <1>3

LEMMA EachCall ==
  ASSUME NEW op \in Operation, NEW nodes \in Seq(Node)
  PROVE  /\ Each(op, nodes) \in Seq(Call) /\ Len(Each(op, nodes)) = Len(nodes)
         /\ \A i \in 1 .. Len(nodes) :
              Each(op, nodes)[i].op = op /\ Each(op, nodes)[i].node = nodes[i]
<1> DEFINE each == Each(op, nodes)
<1>1. /\ Len(nodes) \in Nat /\ DOMAIN nodes = 1 .. Len(nodes)
      /\ \A i \in 1 .. Len(nodes) : nodes[i] \in Node
  OBVIOUS
<1>2. each = [i \in 1 .. Len(nodes) |-> [op |-> op, node |-> nodes[i]]]
  BY <1>1 DEF Each
<1>3. \A i \in 1 .. Len(nodes) : [op |-> op, node |-> nodes[i]] \in Call
  BY <1>1 DEF Call
<1> HIDE DEF each
<1>4. /\ each \in [1 .. Len(nodes) -> Call]
      /\ \A i \in 1 .. Len(nodes) : each[i].op = op /\ each[i].node = nodes[i]
  BY <1>2, <1>3
<1>5. each \in Seq(Call) /\ Len(each) = Len(nodes)
  BY <1>1, <1>4
<1> QED
  BY <1>4, <1>5 DEF each

\* What a program calls, and whom.
LEMMA CallsOf ==
  ASSUME NEW k \in ClientState, k.program # "idle", ProgramOK(k)
  PROVE  /\ Calls(k) \in Seq(Call) /\ Len(Calls(k)) >= 1
         /\ \A i \in 1 .. Len(Calls(k)) :
              /\ Calls(k)[i].op # "ping" => k.object \in Object
              /\ k.program \in Reporting => Calls(k)[i].op \in {"put", "get", "has"}
         /\ k.program = "smoke" =>
              \A n \in Node : \E i \in 1 .. Len(Calls(k)) : Calls(k)[i].node = n
<1>1. Endpoints \in Seq(Node) /\ Node = {Endpoints[i] : i \in 1 .. Len(Endpoints)}
  BY Nodes, EndpointAssumption DEF Node
<1>2. k.program \in Program
  BY DEF ClientState
<1>3. CASE k.program = "smoke"
  <2>1. "put" \in Operation /\ "get" \in Operation
    BY DEF Operation
  <2> DEFINE put == Each("put", Endpoints)
             get == Each("get", Endpoints)
  <2>2. Calls(k) = put \o get
    BY <1>3 DEF Calls, SmokeCalls
  <2>3. /\ put \in Seq(Call) /\ get \in Seq(Call)
        /\ Len(put) = Len(Endpoints) /\ Len(get) = Len(Endpoints)
        /\ \A i \in 1 .. Len(Endpoints) :
             put[i].op = "put" /\ get[i].op = "get" /\ put[i].node = Endpoints[i]
    BY <1>1, <2>1, EachCall
  <2> HIDE DEF put, get
  <2>4. /\ Calls(k) \in Seq(Call) /\ Len(Calls(k)) = 2 * Len(Endpoints)
        /\ \A i \in 1 .. Len(Endpoints) : Calls(k)[i] = put[i]
        /\ \A i \in 1 .. Len(Calls(k)) : Calls(k)[i].op \in {"put", "get"}
    <3> DEFINE n == Len(Endpoints)
    <3>1. n \in Nat /\ Len(put) = n /\ Len(get) = n
      BY <2>3, Nodes
    <3> HIDE DEF n
    <3>2. /\ put \o get \in Seq(Call) /\ Len(put \o get) = n + n
          /\ \A i \in 1 .. n + n : (put \o get)[i] = IF i <= n THEN put[i] ELSE get[i - n]
      BY <2>3, <3>1
    <3>3. \A i \in 1 .. n + n : i \in 1 .. n \/ (~(i <= n) /\ i - n \in 1 .. n)
      BY <3>1
    <3>4. \A i \in 1 .. n : i <= n /\ i \in 1 .. n + n
      BY <3>1
    <3>5. \A i \in 1 .. n + n : (put \o get)[i].op \in {"put", "get"}
      BY <2>3, <3>2, <3>3, <3>4 DEF n
    <3> QED
      BY <2>2, <3>1, <3>2, <3>4, <3>5 DEF n
  <2>5. \A n \in Node : \E i \in 1 .. Len(Calls(k)) : Calls(k)[i].node = n
    <3> TAKE n \in Node
    <3>1. PICK i \in 1 .. Len(Endpoints) : Endpoints[i] = n
      BY <1>1
    <3>2. i \in 1 .. Len(Calls(k)) /\ Calls(k)[i].node = n
      BY <2>3, <2>4, <3>1, Nodes
    <3> QED
      BY <3>2
  <2>6. k.object \in Object
    BY <1>3 DEF ProgramOK
  <2> QED
    BY <2>4, <2>5, <2>6, Nodes
<1>4. CASE k.program = "repair"
  <2>1. "replicate" \in Operation /\ "get" \in Operation
    BY DEF Operation
  <2> DEFINE get  == Each("get", Others(k.dest))
             last == [op |-> "replicate", node |-> k.dest]
  <2>2. Calls(k) = Append(get, last)
    BY <1>4 DEF Calls, RepairCalls
  <2>3. last \in Call /\ last.op = "replicate"
    BY <1>4, <2>1 DEF ProgramOK, Call
  <2>4. get \in Seq(Call)
    BY <1>4, <2>1, EachCall, OthersAreNodes DEF ProgramOK
  <2> HIDE DEF get, last
  <2>5. k.object \in Object /\ k.program \notin Reporting
    BY <1>4 DEF ProgramOK, Reporting
  <2> QED
    BY <1>4, <2>2, <2>3, <2>4, <2>5
<1>5. CASE k.program \notin {"smoke", "repair"}
  <2> DEFINE op == IF k.program \in {"connect", "status"} THEN "ping" ELSE k.program
  <2>1. op \in Operation
    BY <1>2, <1>5 DEF Operation, Program
  <2>2. Calls(k) = Each(op, Endpoints)
    BY <1>5 DEF Calls, DesktopCalls
  <2>3. /\ op # "ping" => k.object \in Object
        /\ k.program \in Reporting => op \in {"put", "get", "has"}
    BY <1>2, <1>5 DEF ProgramOK, Reporting, Program
  <2> HIDE DEF op
  <2>4. /\ Calls(k) \in Seq(Call) /\ Len(Calls(k)) = Len(Endpoints)
        /\ \A i \in 1 .. Len(Endpoints) : Calls(k)[i].op = op
    BY <1>1, <2>1, <2>2, EachCall
  <2> QED
    BY <1>5, <2>3, <2>4, Nodes
<1> QED
  BY <1>3, <1>4, <1>5

LEMMA CallsOfProgram ==
  ASSUME NEW k, NEW l, k.program = l.program, k.dest = l.dest
  PROVE  Calls(k) = Calls(l)
BY DEF Calls

-----------------------------------------------------------------------------
(***************************************************************************)
(* A program after one of its calls.                                       *)
(***************************************************************************)
LEMMA FollowIsNat ==
  ASSUME NEW k \in ClientState, NEW ok \in BOOLEAN, Calls(k) \in Seq(Call),
         Len(Calls(k)) >= 1, k.pos \in 1 .. Len(Calls(k))
  PROVE  /\ Follow(k, ok) \in Nat /\ Follow(k, ok) >= 1
         /\ k.program = "smoke" =>
              Follow(k, ok) = IF ok THEN k.pos + 1 ELSE Len(Calls(k)) + 1
<1>1. Len(Calls(k)) \in Nat /\ k.pos \in Nat
  BY DEF ClientState
<1> DEFINE last == Len(Calls(k))
<1>2. Follow(k, ok) =
        CASE k.program = "get" /\ ok -> last + 1
          [] k.program = "smoke" /\ ~ok -> last + 1
          [] k.program = "repair" /\ k.pos < last /\ ok -> last
          [] k.program = "repair" /\ k.pos = last - 1 /\ ~ok -> last + 1
          [] OTHER -> k.pos + 1
  BY DEF Follow
<1> HIDE DEF last
<1>3. last \in Nat /\ last >= 1 /\ k.pos \in Nat /\ last = Len(Calls(k))
  BY <1>1 DEF last
<1> QED
  BY <1>2, <1>3

LEMMA AfterFields ==
  ASSUME NEW k \in ClientState, NEW ok \in BOOLEAN, NEW n \in Node,
         Follow(k, ok) \in Nat, n = Calls(k)[k.pos].node
  PROVE  LET a == After(k, ok)
         IN  /\ a \in ClientState
             /\ a.program = k.program /\ a.object = k.object /\ a.dest = k.dest
             /\ a.pos = Follow(k, ok) /\ a.yes = IF ok THEN k.yes \cup {n} ELSE k.yes
             /\ a.failed <=> k.failed \/ ~ok
             /\ a.waits = FALSE
<1> DEFINE pos    == Follow(k, ok)
           yes    == IF ok THEN k.yes \cup {n} ELSE k.yes
           failed == k.failed \/ ~ok
           a == [program |-> k.program, object |-> k.object, dest |-> k.dest,
                 number |-> k.number, began |-> k.began, to |-> k.to,
                 pos |-> pos, yes |-> yes, failed |-> failed, waits |-> FALSE]
<1>1. /\ k.program \in Program \cup {"idle"} /\ k.object \in Object \cup {none}
      /\ k.dest \in Node \cup {none} /\ k.number \in Nat /\ k.began \in Nat
      /\ k.to \in [Node -> Nat] /\ k.yes \in SUBSET Node /\ k.failed \in BOOLEAN
  BY DEF ClientState
<1>2. After(k, ok) =
        [k EXCEPT !.pos = pos, !.waits = FALSE, !.failed = @ \/ ~ok,
                  !.yes = IF ok THEN @ \cup {n} ELSE @]
  BY DEF After
<1>3. yes \in SUBSET Node /\ failed \in BOOLEAN /\ pos \in Nat
  BY <1>1
<1>4. After(k, ok) = a
  BY <1>2 DEF ClientState
<1> HIDE DEF pos, yes, failed
<1>5. a \in ClientState
  BY <1>1, <1>3 DEF ClientState
<1>6. /\ a.program = k.program /\ a.object = k.object /\ a.dest = k.dest
      /\ a.pos = pos /\ a.yes = yes /\ a.failed = failed /\ a.waits = FALSE
  OBVIOUS
<1> QED
  BY <1>4, <1>5, <1>6, Zenon DEF pos, yes, failed

Holders(held, o) == {n \in Node : o \in held[n]}

LEMMA HoldersCount ==
  ASSUME NEW held, NEW o, NEW nodes \in SUBSET Holders(held, o)
  PROVE  /\ Cardinality(nodes) \in Nat /\ Cardinality(Holders(held, o)) \in Nat
         /\ Cardinality(nodes) <= Cardinality(Holders(held, o))
<1>1. IsFiniteSet(Holders(held, o))
  BY Nodes, FS_Subset DEF Holders
<1> QED
  BY <1>1, FS_Subset, FS_CardinalityType

(***************************************************************************)
(* The program goes on with its next call, or has reported what is so.     *)
(***************************************************************************)
LEMMA AfterKeeps ==
  ASSUME NEW k \in ClientState, NEW held, NEW ok \in BOOLEAN,
         k.program # "idle", ClientOK(k, held),
         ok /\ k.program \in Reporting => k.object \in held[Calls(k)[k.pos].node]
  PROVE  LET a == After(k, ok)
         IN  /\ a \in ClientState /\ a.object = k.object /\ a.waits = FALSE
             /\ a.pos <= Len(Calls(a)) => ClientOK(a, held)
             /\ a.pos > Len(Calls(a)) /\ Enough(a) =>
                  /\ k.object \in Object
                  /\ Cardinality(Holders(held, k.object)) >= Target
<1> DEFINE a == After(k, ok)
<1>1. /\ ProgramOK(k) /\ k.pos \in 1 .. Len(Calls(k)) /\ CountOK(k, held)
  BY DEF ClientOK
<1>2. PICK calls : calls = Calls(k)
  OBVIOUS
<1>3. /\ calls \in Seq(Call) /\ Len(calls) \in Nat /\ Len(calls) >= 1
      /\ k.pos \in 1 .. Len(calls) /\ calls[k.pos].node \in Node
      /\ k.program = "smoke" => \A n \in Node : \E i \in 1 .. Len(calls) : calls[i].node = n
  <2>1. /\ calls \in Seq(Call) /\ Len(calls) >= 1
        /\ k.program = "smoke" => \A n \in Node : \E i \in 1 .. Len(calls) : calls[i].node = n
    BY <1>1, <1>2, CallsOf
  <2>2. k.pos \in 1 .. Len(calls) /\ Len(calls) \in Nat
    BY <1>1, <1>2, <2>1
  <2>3. calls[k.pos] \in Call
    BY <2>1, <2>2
  <2> QED
    BY <2>1, <2>2, <2>3 DEF Call
<1>4. /\ Follow(k, ok) \in Nat /\ Follow(k, ok) >= 1
      /\ k.program = "smoke" => Follow(k, ok) = IF ok THEN k.pos + 1 ELSE Len(calls) + 1
  BY <1>2, <1>3, FollowIsNat
<1> DEFINE n == calls[k.pos].node
<1>5. /\ a \in ClientState
      /\ a.program = k.program /\ a.object = k.object /\ a.dest = k.dest
      /\ a.pos = Follow(k, ok) /\ a.yes = IF ok THEN k.yes \cup {n} ELSE k.yes
      /\ a.failed <=> k.failed \/ ~ok
      /\ a.waits = FALSE
  BY <1>2, <1>3, <1>4, AfterFields
<1> HIDE DEF a
<1>6. Calls(a) = calls
  BY <1>2, <1>5, CallsOfProgram
<1>7. ProgramOK(a)
  BY <1>1, <1>5 DEF ProgramOK
<1>8. k.program \in Reporting => \A m \in a.yes : k.object \in held[m]
  BY <1>1, <1>2, <1>5 DEF CountOK
<1>9. k.program = "smoke" /\ ~a.failed =>
        /\ a.pos = k.pos + 1
        /\ \A i \in 1 .. k.pos : calls[i].node \in a.yes
  <2> SUFFICES ASSUME k.program = "smoke", ~a.failed
               PROVE  /\ a.pos = k.pos + 1
                      /\ \A i \in 1 .. k.pos : calls[i].node \in a.yes
    OBVIOUS
  <2>1. ok /\ ~k.failed
    BY <1>5
  <2>2. a.pos = k.pos + 1 /\ a.yes = k.yes \cup {n}
    BY <1>4, <1>5, <2>1
  <2>3. \A i \in 1 .. k.pos - 1 : calls[i].node \in k.yes
    BY <1>1, <1>2, <2>1 DEF CountOK
  <2>4. \A i \in 1 .. k.pos : i = k.pos \/ i \in 1 .. k.pos - 1
    BY <1>3
  <2> QED
    BY <2>2, <2>3, <2>4
<1>10. CountOK(a, held)
  <2>1. k.program = "smoke" /\ ~a.failed => \A i \in 1 .. a.pos - 1 : calls[i].node \in a.yes
    <3> SUFFICES ASSUME k.program = "smoke", ~a.failed
                 PROVE  \A i \in 1 .. a.pos - 1 : calls[i].node \in a.yes
      OBVIOUS
    <3>1. /\ a.pos = k.pos + 1
          /\ \A i \in 1 .. k.pos : calls[i].node \in a.yes
      BY <1>9, Zenon
    <3>2. a.pos - 1 = k.pos
      BY <1>3, <3>1
    <3> QED
      BY <3>1, <3>2
  <2> QED
    BY <1>5, <1>6, <1>8, <2>1 DEF CountOK
<1>11. a.pos <= Len(calls) => ClientOK(a, held)
  <2>1. a.pos <= Len(calls) => a.pos \in 1 .. Len(calls)
    BY <1>3, <1>4, <1>5
  <2> QED
    BY <1>6, <1>7, <1>10, <2>1 DEF ClientOK
<1>12. ASSUME a.pos > Len(calls), Enough(a)
       PROVE  /\ k.object \in Object
              /\ Cardinality(Holders(held, k.object)) >= Target
  <2>1. k.program \in Reporting
    BY <1>5, <1>12 DEF Enough, Reporting
  <2>2. k.object \in Object
    BY <1>1, <2>1 DEF ProgramOK, Reporting
  <2>3. a.yes \in SUBSET Holders(held, k.object)
    BY <1>5, <1>8, <2>1 DEF Holders, ClientState
  <2>4. Cardinality(a.yes) >= Target
    <3>1. CASE k.program = "smoke"
      <4>1. ~a.failed
        BY <1>5, <1>12, <3>1 DEF Enough
      <4>2. k.pos = Len(calls)
        BY <1>3, <1>9, <1>12, <3>1, <4>1
      <4>3. Node \subseteq a.yes
        BY <1>3, <1>9, <3>1, <4>1, <4>2
      <4>4. a.yes = Node
        BY <1>5, <4>3 DEF ClientState
      <4> QED
        BY <4>4, Nodes, TargetAssumption
    <3>2. CASE k.program # "smoke"
      BY <1>5, <1>12, <2>1, <3>2 DEF Enough, Reporting
    <3> QED
      BY <3>1, <3>2
  <2> QED
    BY <2>2, <2>3, <2>4, HoldersCount, BoundAssumption
<1> QED
  BY <1>5, <1>6, <1>11, <1>12 DEF a

-----------------------------------------------------------------------------
(***************************************************************************)
(* Objects never leave a node's store, so that what a program counts and   *)
(* what it reported stay true.                                             *)
(***************************************************************************)
LEMMA IdleIs ==
  /\ Idle \in ClientState /\ Idle.program = "idle" /\ Idle.waits = FALSE
  /\ \A held : ClientOK(Idle, held)
<1>1. Idle \in ClientState /\ Idle.program = "idle" /\ Idle.waits = FALSE
  BY DEF Idle, ClientState
<1> QED
  BY <1>1 DEF ClientOK

LEMMA ClientsStay ==
  ASSUME NEW k \in ClientState, NEW held, NEW more, ClientOK(k, held),
         \A n \in Node : held[n] \subseteq more[n]
  PROVE  ClientOK(k, more)
<1>1. k.yes \subseteq Node
  BY DEF ClientState
<1> QED
  BY <1>1 DEF ClientOK, CountOK

LEMMA ReportsStay ==
  ASSUME NEW more, ReportedReplicasExist, \A n \in Node : objects[n] \subseteq more[n]
  PROVE  \A o \in done : Cardinality(Holders(more, o)) >= Target
<1> SUFFICES ASSUME NEW o \in done
             PROVE  Cardinality(Holders(more, o)) >= Target
  OBVIOUS
<1>1. Holders(objects, o) \in SUBSET Holders(more, o)
  BY DEF Holders
<1>2. Cardinality(Holders(objects, o)) >= Target
  BY DEF ReportedReplicasExist, Holders
<1> QED
  BY <1>1, <1>2, HoldersCount, BoundAssumption

LEMMA AdvanceKeeps ==
  ASSUME TypesOK, ClientsOK, ReportedReplicasExist,
         NEW c \in Client, NEW ok \in BOOLEAN,
         client[c].program # "idle", Advance(c, ok),
         \A n \in Node : objects[n] \subseteq objects'[n],
         ok /\ client[c].program \in Reporting => client[c].object \in objects'[Callee(c)]
  PROVE  /\ client' \in [Client -> ClientState] /\ ClientsOK'
         /\ client'[c].waits = FALSE
         /\ \A d \in Client : d # c => client'[d] = client[d]
         /\ profile' \in [Client -> [Node -> Nat]]
         /\ done' \subseteq Object /\ ReportedReplicasExist'
<1>1. PICK held : held = objects'
  OBVIOUS
<1>2. PICK k : k = client[c]
  OBVIOUS
<1>3. /\ k \in ClientState /\ k.program # "idle"
      /\ client \in [Client -> ClientState] /\ profile \in [Client -> [Node -> Nat]]
      /\ done \subseteq Object
  BY <1>2 DEF TypesOK
<1>4. \A d \in Client : ClientOK(client[d], held)
  BY <1>1, <1>3, ClientsStay DEF ClientsOK
<1>5. \A o \in done : Cardinality(Holders(held, o)) >= Target
  BY <1>1, ReportsStay
<1>6. PICK a : a = After(k, ok)
  OBVIOUS
<1>7. /\ a \in ClientState /\ a.object = k.object /\ a.waits = FALSE
      /\ a.pos <= Len(Calls(a)) => ClientOK(a, held)
      /\ a.pos > Len(Calls(a)) /\ Enough(a) =>
           /\ k.object \in Object
           /\ Cardinality(Holders(held, k.object)) >= Target
  <2>1. ok /\ k.program \in Reporting => k.object \in held[Calls(k)[k.pos].node]
    BY <1>1, <1>2 DEF Callee
  <2>2. ClientOK(k, held)
    BY <1>2, <1>4
  <2> QED
    BY <1>3, <1>6, <2>1, <2>2, AfterKeeps
<1>8. a.to \in [Node -> Nat] /\ a.pos \in Nat
  BY <1>7 DEF ClientState
<1>9. \/ /\ a.pos <= Len(Calls(a))
         /\ client' = [client EXCEPT ![c] = a]
         /\ profile' = profile /\ done' = done
      \/ /\ ~(a.pos <= Len(Calls(a)))
         /\ client' = [client EXCEPT ![c] = Idle]
         /\ SaveProfile(c, a)
         /\ done' = IF Enough(a) THEN done \cup {a.object} ELSE done
  BY <1>2, <1>6, Zenon DEF Advance
<1>10. \E b \in ClientState : /\ client' = [client EXCEPT ![c] = b]
                              /\ b.waits = FALSE /\ ClientOK(b, held)
  BY <1>7, <1>9, IdleIs
<1>11. /\ client' \in [Client -> ClientState] /\ client'[c].waits = FALSE
       /\ \A d \in Client : d # c => client'[d] = client[d]
       /\ \A d \in Client : ClientOK(client'[d], held)
  BY <1>3, <1>4, <1>10
<1>12. profile' \in [Client -> [Node -> Nat]]
  BY <1>3, <1>8, <1>9 DEF SaveProfile
<1>13. \/ done' = done
       \/ /\ done' = done \cup {k.object} /\ k.object \in Object
          /\ Cardinality(Holders(held, k.object)) >= Target
  <2>1. CASE a.pos <= Len(Calls(a))
    BY <1>9, <2>1
  <2>2. CASE ~(a.pos <= Len(Calls(a)))
    <3>1. a.pos > Len(Calls(a))
      <4>1. k.program # "idle" /\ ProgramOK(k)
        BY <1>2, <1>3 DEF ClientsOK, ClientOK
      <4>2. a.program = k.program /\ a.dest = k.dest
        BY <1>3, <1>6 DEF After, ClientState
      <4>3. Calls(a) = Calls(k) /\ Calls(k) \in Seq(Call)
        BY <1>3, <4>1, <4>2, CallsOf, CallsOfProgram
      <4>4. Len(Calls(a)) \in Nat
        BY <4>3
      <4> QED
        BY <1>8, <2>2, <4>4
    <3>2. done' = IF Enough(a) THEN done \cup {a.object} ELSE done
      BY <1>9, <2>2
    <3> QED
      BY <1>7, <3>1, <3>2
  <2> QED
    BY <2>1, <2>2
<1>14. done' \subseteq Object /\ \A o \in done' : Cardinality(Holders(held, o)) >= Target
  BY <1>3, <1>5, <1>13
<1> QED
  BY <1>1, <1>11, <1>12, <1>14 DEF ClientsOK, ReportedReplicasExist, Holders

-----------------------------------------------------------------------------
(***************************************************************************)
(* Requests and nodes.                                                     *)
(***************************************************************************)
LEMMA ConnectionFields ==
  ASSUME NEW w \in Connection
  PROVE  /\ w.frame \in Requests /\ w.node \in Node /\ w.caller \in Client \cup {none}
         /\ w # none
BY NoneAssumption DEF Connection

LEMMA RequestFields ==
  ASSUME NEW f \in Requests
  PROVE  f.id \in Nat \X Nat /\ f.expires \in Nat /\ Mark(f) \in Claim
BY DEF Requests, Mark, Claim

LEMMA NodeFields ==
  ASSUME TypesOK, NodesOK, NEW n \in Node
  PROVE  /\ node[n] \in NodeState
         /\ node[n].pc \in {"down", "accepting", "claimed"}
         /\ node[n].run \in 1 .. MaxRuns /\ node[n].now \in Nat /\ clock \in Nat
         /\ node[n].now <= clock /\ clock <= MaxTime /\ MaxTime \in Nat
         /\ node[n].pc = "claimed" => /\ node[n].conn \in Connection
                                      /\ node[n].conn.node = n
         /\ node[n].pc # "claimed" => node[n].conn = none
BY BoundAssumption DEF TypesOK, NodesOK, NodeState

\* The node's process after it took a connection or let one go.
LEMMA NodeMade ==
  ASSUME NEW pc \in {"down", "accepting", "claimed"}, NEW run \in 1 .. MaxRuns,
         NEW now \in 0 .. MaxTime, NEW conn \in Connection \cup {none}
  PROVE  [pc |-> pc, run |-> run, now |-> now, conn |-> conn] \in NodeState
BY DEF NodeState

LEMMA StateSet ==
  ASSUME NEW s \in NodeState, NEW pc, NEW conn
  PROVE  [s EXCEPT !.pc = pc, !.conn = conn]
           = [pc |-> pc, run |-> s.run, now |-> s.now, conn |-> conn]
<1> DEFINE made == [pc |-> pc, run |-> s.run, now |-> s.now, conn |-> conn]
<1>1. PICK t : t = [s EXCEPT !.pc = pc, !.conn = conn]
  OBVIOUS
<1>2. t = made
  BY <1>1 DEF NodeState
<1> QED
  BY <1>1, <1>2, Zenon

LEMMA NodeSet ==
  ASSUME NEW state \in [Node -> NodeState], NEW n \in Node, NEW pc, NEW conn
  PROVE  [state EXCEPT ![n].pc = pc, ![n].conn = conn]
           = [state EXCEPT ![n] = [pc |-> pc, run |-> state[n].run,
                                   now |-> state[n].now, conn |-> conn]]
<1> DEFINE r    == [state[n] EXCEPT !.pc = pc, !.conn = conn]
           made == [pc |-> pc, run |-> state[n].run, now |-> state[n].now, conn |-> conn]
           set  == [state EXCEPT ![n].pc = pc, ![n].conn = conn]
<1>1. state[n] \in NodeState
  OBVIOUS
<1>2. r = made
  BY <1>1, StateSet, Zenon
<1>3. /\ set = [m \in Node |-> set[m]]
      /\ [state EXCEPT ![n] = made] = [m \in Node |-> [state EXCEPT ![n] = made][m]]
  OBVIOUS
<1>4. set[n] = r
  OBVIOUS
<1>5. \A m \in Node : m # n => set[m] = state[m] /\ [state EXCEPT ![n] = made][m] = state[m]
  OBVIOUS
<1>6. [state EXCEPT ![n] = made][n] = made
  OBVIOUS
<1> QED
  BY <1>2, <1>3, <1>4, <1>5, <1>6, Zenon

LEMMA SetNode ==
  ASSUME TypesOK, NEW n \in Node, NEW pc, NEW conn,
         node' = [node EXCEPT ![n].pc = pc, ![n].conn = conn]
  PROVE  node' = [node EXCEPT ![n] = [pc |-> pc, run |-> node[n].run,
                                      now |-> node[n].now, conn |-> conn]]
<1>1. node \in [Node -> NodeState]
  BY DEF TypesOK
<1>2. \A p, c : [node EXCEPT ![n].pc = p, ![n].conn = c]
        = [node EXCEPT ![n] = [pc |-> p, run |-> node[n].run,
                               now |-> node[n].now, conn |-> c]]
  BY <1>1, NodeSet, Zenon
<1> QED
  BY <1>2, Zenon

(***************************************************************************)
(* A node that holds no connection any more, with a later reading of its   *)
(* clock or the same, and perhaps without its expired claims.              *)
(***************************************************************************)
LEMMA FreedKeeps ==
  ASSUME IInv, NEW n \in Node, NEW free \in NodeState,
         free.conn = none, free.pc # "claimed",
         node[n].now <= free.now, free.now <= clock,
         node' = [node EXCEPT ![n] = free], wire' \subseteq wire,
         claims' \in {claims, [claims EXCEPT ![n] = Unexpired(n)]},
         UNCHANGED <<clock, objects, client, profile, ops, executed, done>>
  PROVE  IInv'
<1>1. TypesOK /\ NodesOK /\ ClaimsOK /\ ClientsOK /\ CallsOK /\ ReportedReplicasExist
  BY DEF IInv
<1>2. /\ node' \in [Node -> NodeState] /\ node'[n] = free
      /\ \A m \in Node : m # n => node'[m] = node[m]
  BY <1>1 DEF TypesOK
<1>3. /\ claims' \in [Node -> SUBSET Claim]
      /\ \A m \in Node : m # n => claims'[m] = claims[m]
      /\ \A r \in claims[n] : r.expires >= node[n].now => r \in claims'[n]
  BY <1>1 DEF TypesOK, Unexpired
<1>4. TypesOK'
  BY <1>1, <1>2, <1>3 DEF TypesOK
<1>5. NodesOK'
  BY <1>1, <1>2 DEF NodesOK
<1>6. ClaimsOK'
  <2>1. Handled(n)' = BagToSet(executed[n]) /\ Handled(n)' \subseteq Handled(n)
    BY <1>2 DEF Handled
  <2>2. \A f \in Handled(n)' : f.expires < node'[n].now \/ Mark(f) \in claims'[n]
    <3> TAKE f \in Handled(n)'
    <3>1. f \in Requests /\ (f.expires < node[n].now \/ Mark(f) \in claims[n])
      BY <1>1, <2>1 DEF ClaimsOK, Sound
    <3>2. /\ f.expires \in Nat /\ node[n].now \in Nat /\ free.now \in Nat
          /\ Mark(f).expires = f.expires
      BY <1>1, <3>1, RequestFields, NodeFields, BoundAssumption DEF Mark, NodeState
    <3>3. f.expires < node[n].now \/ f.expires >= node[n].now
      BY <3>2
    <3>4. f.expires < node[n].now => f.expires < free.now
      BY <3>2
    <3> QED
      BY <1>2, <1>3, <3>1, <3>2, <3>3, <3>4
  <2>3. \A m \in Node : m # n => Handled(m)' = Handled(m)
    BY <1>2 DEF Handled
  <2>4. Handled(n)' \subseteq Sound
    BY <1>1, <2>1 DEF ClaimsOK
  <2> QED
    BY <1>1, <1>2, <1>3, <2>2, <2>3, <2>4 DEF ClaimsOK
<1>7. ClientsOK' /\ ReportedReplicasExist'
  BY <1>1 DEF ClientsOK, ReportedReplicasExist
<1>8. CallsOK'
  <2>1. \A m \in Node : node'[m].conn = none \/ node'[m].conn = node[m].conn
    BY <1>2
  <2> QED
    BY <1>1, <2>1 DEF CallsOK
<1> QED
  BY <1>4, <1>5, <1>6, <1>7, <1>8 DEF IInv

\* A node at the head of its loop again, or started.
LEMMA AcceptingIs ==
  ASSUME IInv, NEW n \in Node, NEW run \in 1 .. MaxRuns
  PROVE  /\ Accepting(run) \in NodeState /\ Accepting(run).conn = none
         /\ Accepting(run).pc = "accepting"
         /\ node[n].now <= Accepting(run).now /\ Accepting(run).now <= clock
         /\ Accepting(run).now = clock
<1>1. /\ Accepting(run).conn = none /\ Accepting(run).pc = "accepting"
      /\ Accepting(run).now = clock
  BY DEF Accepting
<1>2. clock \in 0 .. MaxTime /\ node[n].now <= clock /\ clock \in Nat
  BY NodeFields DEF IInv, TypesOK
<1>3. Accepting(run) \in NodeState
  BY <1>2, NodeMade DEF Accepting
<1> QED
  BY <1>1, <1>2, <1>3

LEMMA StopKeeps ==
  ASSUME IInv, NEW n \in Node, Stop(n),
         claims' \in {claims, [claims EXCEPT ![n] = Unexpired(n)]},
         UNCHANGED <<clock, objects, client, profile, ops, executed, done>>
  PROVE  IInv'
<1> DEFINE free == [pc |-> "down", run |-> node[n].run, now |-> node[n].now, conn |-> none]
<1>1. TypesOK /\ NodesOK
  BY DEF IInv
<1>2. node' = [node EXCEPT ![n] = free]
  <2>1. node' = [node EXCEPT ![n].pc = "down", ![n].conn = none]
    BY Zenon DEF Stop
  <2> QED
    BY <1>1, <2>1, SetNode, Zenon
<1>3. free \in NodeState
  BY <1>1, NodeFields, NodeMade DEF NodeState
<1>4. free.conn = none /\ free.pc = "down" /\ free.now = node[n].now
  OBVIOUS
<1>5. node[n].now <= node[n].now /\ node[n].now <= clock
  BY <1>1, NodeFields
<1>6. wire' \subseteq wire
  BY DEF Stop
<1> HIDE DEF free
<1> QED
  BY <1>2, <1>3, <1>4, <1>5, <1>6, FreedKeeps

LEMMA LoopKeeps ==
  ASSUME IInv, NEW n \in Node, NEW run \in 1 .. MaxRuns,
         node' = [node EXCEPT ![n] = Accepting(run)], wire' \subseteq wire,
         claims' = claims,
         UNCHANGED <<clock, objects, client, profile, ops, executed, done>>
  PROVE  IInv'
BY AcceptingIs, FreedKeeps

-----------------------------------------------------------------------------
(***************************************************************************)
(* The programs.                                                           *)
(***************************************************************************)
LEMMA TickKeeps ==
  ASSUME IInv, Tick
  PROVE  IInv'
<1>1. TypesOK /\ NodesOK /\ ClaimsOK /\ ClientsOK /\ CallsOK /\ ReportedReplicasExist
  BY DEF IInv
<1>2. /\ clock < MaxTime /\ clock' = clock + 1 /\ clock \in 0 .. MaxTime
      /\ UNCHANGED <<node, claims, objects, wire, client, profile, ops, executed, done>>
  BY <1>1 DEF Tick, TypesOK
<1>3. TypesOK'
  BY <1>1, <1>2, BoundAssumption DEF TypesOK
<1>4. NodesOK'
  <2>1. \A n \in Node : node[n].now <= clock'
    BY <1>1, <1>2, NodeFields
  <2> QED
    BY <1>1, <1>2, <2>1 DEF NodesOK
<1>5. ClaimsOK'
  BY <1>1, <1>2 DEF ClaimsOK, Handled
<1>6. ClientsOK' /\ CallsOK' /\ ReportedReplicasExist'
  BY <1>1, <1>2 DEF ClientsOK, CallsOK, ReportedReplicasExist
<1> QED
  BY <1>3, <1>4, <1>5, <1>6 DEF IInv

\* A program that does not wait has no connection.
LEMMA NobodyCarries ==
  ASSUME CallsOK, NEW c \in Client, client[c].program = "idle" \/ ~client[c].waits
  PROVE  /\ \A w \in wire : w.caller # c
         /\ \A n \in Node : node[n].conn # none => node[n].conn.caller # c
BY NoneAssumption DEF CallsOK, Carries

\* Connections of the other callers do not change.
LEMMA CallsStay ==
  ASSUME TypesOK, CallsOK, NEW c \in Client,
         \A d \in Client : d # c => client'[d] = client[d],
         \A w \in wire' : w.caller # none => w \in wire /\ w.caller # c,
         \A n \in Node : node'[n].conn # none /\ node'[n].conn.caller # none =>
           node'[n].conn = node[n].conn /\ node'[n].conn.caller # c,
         \A n \in Node : node'[n].conn \in Connection \cup {none}
  PROVE  CallsOK'
<1>1. \A w \in Connection : w.caller # none => w.caller \in Client
  BY ConnectionFields
<1>2. \A w \in wire' : w.caller # none => Carries(w, client'[w.caller])
  <2> SUFFICES ASSUME NEW w \in wire', w.caller # none
               PROVE  Carries(w, client'[w.caller])
    OBVIOUS
  <2>1. w \in wire /\ w.caller \in Client /\ w.caller # c
    BY <1>1 DEF TypesOK
  <2>2. client'[w.caller] = client[w.caller]
    BY <2>1
  <2> QED
    BY <2>1, <2>2 DEF CallsOK
<1>3. \A n \in Node :
        node'[n].conn # none /\ node'[n].conn.caller # none =>
          Carries(node'[n].conn, client'[node'[n].conn.caller])
  <2> SUFFICES ASSUME NEW n \in Node, node'[n].conn # none, node'[n].conn.caller # none
               PROVE  Carries(node'[n].conn, client'[node'[n].conn.caller])
    OBVIOUS
  <2>1. PICK w : w = node'[n].conn
    OBVIOUS
  <2>2. w = node[n].conn /\ w # none /\ w.caller # none /\ w.caller \in Client /\ w.caller # c
    BY <1>1, <2>1
  <2>3. client'[w.caller] = client[w.caller] /\ Carries(w, client[w.caller])
    BY <2>2 DEF CallsOK
  <2> QED
    BY <2>1, <2>3
<1>4. \A v, w \in wire' : v.caller # none /\ v.caller = w.caller => v = w
  BY DEF CallsOK
<1>5. \A n \in Node, w \in wire' :
        node'[n].conn # none /\ w.caller # none => node'[n].conn.caller # w.caller
  BY DEF CallsOK
<1> QED
  BY <1>2, <1>3, <1>4, <1>5 DEF CallsOK

LEMMA BeginKeeps ==
  ASSUME IInv, NEW c \in Client, NEW p \in Program, NEW o \in Object \cup {none},
         NEW d \in Node \cup {none}, Begin(c, p, o, d)
  PROVE  IInv'
<1>1. TypesOK /\ NodesOK /\ ClaimsOK /\ ClientsOK /\ CallsOK /\ ReportedReplicasExist
  BY DEF IInv
<1>2. /\ client[c].program = "idle" /\ ops' = ops + 1
      /\ UNCHANGED <<clock, node, claims, objects, wire, profile, executed, done>>
  BY DEF Begin
<1>3. /\ o = none <=> p \in {"connect", "status"}
      /\ d = none <=> p # "repair"
  BY DEF Begin
<1> DEFINE to   == IF p \in {"connect", "smoke"} THEN [n \in Node |-> Run(n)] ELSE profile[c]
           next == [program |-> p, object |-> o, dest |-> d, number |-> ops',
                    began |-> clock, to |-> to, pos |-> 1, yes |-> {},
                    failed |-> FALSE, waits |-> FALSE]
<1>4. client' = [client EXCEPT ![c] = next]
  <2>1. PICK made : made = [Idle EXCEPT !.program = p, !.object = o, !.dest = d,
                              !.number = ops', !.began = clock, !.pos = 1, !.to = to]
    BY Zenon
  <2>2. client' = [client EXCEPT ![c] = made]
    BY <2>1, Zenon DEF Begin
  <2> HIDE DEF to
  <2>3. made = next
    BY <2>1 DEF Idle
  <2> HIDE DEF next
  <2> QED
    BY <2>2, <2>3, Zenon
<1>5. to \in [Node -> Nat]
  <2>1. \A n \in Node : Run(n) \in Nat
    BY <1>1, NodeFields, BoundAssumption DEF Run
  <2> QED
    BY <1>1, <2>1 DEF TypesOK
<1> HIDE DEF to
<1>6. next \in ClientState
  BY <1>1, <1>2, <1>5 DEF TypesOK, ClientState
<1>7. /\ next.program = p /\ next.object = o /\ next.dest = d /\ next.pos = 1
      /\ next.yes = {} /\ p # "idle"
  BY DEF Program
<1> HIDE DEF next
<1>8. ProgramOK(next)
  BY <1>3, <1>7 DEF ProgramOK
<1>9. ClientOK(next, objects)
  <2>1. Calls(next) \in Seq(Call) /\ Len(Calls(next)) >= 1
    BY <1>6, <1>7, <1>8, CallsOf
  <2>2. next.pos \in 1 .. Len(Calls(next))
    BY <1>7, <2>1
  <2>3. CountOK(next, objects)
    <3>1. 1 .. next.pos - 1 = {}
      BY <1>7
    <3> QED
      BY <1>7, <3>1 DEF CountOK
  <2> QED
    BY <1>8, <2>2, <2>3 DEF ClientOK
<1>10. /\ client' \in [Client -> ClientState] /\ client'[c] = next
       /\ \A e \in Client : e # c => client'[e] = client[e]
  BY <1>1, <1>4, <1>6 DEF TypesOK
<1>11. TypesOK'
  BY <1>1, <1>2, <1>10 DEF TypesOK
<1>12. NodesOK' /\ ClaimsOK' /\ ReportedReplicasExist'
  BY <1>1, <1>2 DEF NodesOK, ClaimsOK, Handled, ReportedReplicasExist
<1>13. ClientsOK'
  BY <1>1, <1>2, <1>9, <1>10 DEF ClientsOK
<1>14. CallsOK'
  <2>1. \A n \in Node : node'[n].conn \in Connection \cup {none}
    BY <1>1, <1>2 DEF TypesOK, NodeState
  <2> QED
    BY <1>1, <1>2, <1>10, <2>1, NobodyCarries, CallsStay
<1> QED
  BY <1>11, <1>12, <1>13, <1>14 DEF IInv

\* What a caller sends can be served.
LEMMA FrameIs ==
  ASSUME TypesOK, NEW k \in ClientState, k.program # "idle", ProgramOK(k),
         k.pos \in 1 .. Len(Calls(k))
  PROVE  /\ Frame(k) \in Sound /\ Calls(k)[k.pos].node \in Node
         /\ Frame(k).op = Calls(k)[k.pos].op /\ Frame(k).object = k.object
<1>1. /\ Calls(k)[k.pos] \in Call
      /\ Calls(k)[k.pos].op # "ping" => k.object \in Object
  BY CallsOf
<1> DEFINE op == Calls(k)[k.pos].op
<1>2. op \in Operation /\ Calls(k)[k.pos].node \in Node
  BY <1>1 DEF Call
<1>3. /\ k.pos \in Nat /\ k.number \in Nat /\ k.began \in Nat /\ k.object \in Object \cup {none}
      /\ clock \in Nat /\ Ttl \in Nat
  BY BoundAssumption DEF ClientState, TypesOK
<1>4. PICK id \in Nat \X Nat, now \in Nat :
        Frame(k) = [id |-> id, op |-> op, object |-> k.object,
                    issued |-> now, expires |-> now + Ttl]
  <2>1. <<0, k.pos>> \in Nat \X Nat /\ <<k.number, k.pos>> \in Nat \X Nat
    BY <1>3
  <2>2. CASE k.program = "smoke"
    <3>1. Frame(k) = [id |-> <<0, k.pos>>, op |-> op, object |-> k.object,
                      issued |-> k.began, expires |-> k.began + Ttl]
      BY <2>2, Zenon DEF Frame, SmokeFrame, Request
    <3> QED
      BY <1>3, <2>1, <3>1, Zenon
  <2>3. CASE k.program # "smoke"
    <3>1. Frame(k) = [id |-> <<k.number, k.pos>>, op |-> op, object |-> k.object,
                      issued |-> clock, expires |-> clock + Ttl]
      BY <2>3, Zenon DEF Frame, FreshFrame, Request
    <3> QED
      BY <1>3, <2>1, <3>1, Zenon
  <2> QED
    BY <2>2, <2>3
<1> HIDE DEF op
<1>5. Frame(k) \in Requests /\ Frame(k).op = op /\ Frame(k).object = k.object
  BY <1>2, <1>3, <1>4 DEF Requests
<1>6. Puts(Frame(k)) => Frame(k).object \in Object
  BY <1>1, <1>5 DEF Puts, op
<1> QED
  BY <1>2, <1>5, <1>6 DEF Sound, op

LEMMA WaitSet ==
  ASSUME NEW k \in ClientState, NEW waits \in BOOLEAN
  PROVE  LET l == [k EXCEPT !.waits = waits]
         IN  /\ l \in ClientState /\ l.waits = waits
             /\ l.program = k.program /\ l.object = k.object /\ l.dest = k.dest
             /\ l.pos = k.pos /\ l.yes = k.yes /\ l.failed = k.failed
BY DEF ClientState

LEMMA SendKeeps ==
  ASSUME IInv, NEW c \in Client, Send(c)
  PROVE  IInv'
<1>1. TypesOK /\ NodesOK /\ ClaimsOK /\ ClientsOK /\ CallsOK /\ ReportedReplicasExist
  BY DEF IInv
<1>2. PICK k : k = client[c]
  OBVIOUS
<1> DEFINE new == [frame |-> Frame(k), node |-> Callee(c), caller |-> c]
<1>3. /\ k.program # "idle" /\ ~k.waits
      /\ wire' = wire \cup {new} /\ client' = [client EXCEPT ![c].waits = TRUE]
      /\ UNCHANGED <<clock, node, claims, objects, profile, ops, executed, done>>
  BY <1>2, Zenon DEF Send, Waiting
<1>4. PICK l : l = [k EXCEPT !.waits = TRUE]
  OBVIOUS
<1>5. k \in ClientState /\ ClientOK(k, objects)
  BY <1>1, <1>2 DEF TypesOK, ClientsOK
<1>6. /\ l \in ClientState /\ l.waits /\ l.program = k.program /\ l.object = k.object
      /\ l.dest = k.dest /\ l.pos = k.pos /\ l.yes = k.yes /\ l.failed = k.failed
  BY <1>4, <1>5, WaitSet
<1>7. Calls(l) = Calls(k)
  BY <1>6, CallsOfProgram
<1>8. ClientOK(l, objects)
  BY <1>3, <1>5, <1>6, <1>7 DEF ClientOK, ProgramOK, CountOK
<1>9. /\ client' \in [Client -> ClientState] /\ client'[c] = l
      /\ \A d \in Client : d # c => client'[d] = client[d]
  BY <1>1, <1>2, <1>3, <1>4, <1>6 DEF TypesOK
<1>10. /\ Frame(k) \in Sound /\ Callee(c) \in Node
       /\ Frame(k).op = Calls(k)[k.pos].op /\ Frame(k).object = k.object
       /\ Callee(c) = Calls(k)[k.pos].node
  BY <1>1, <1>2, <1>3, <1>5, FrameIs DEF ClientOK, Callee
<1>11. /\ new \in Connection /\ new.frame = Frame(k) /\ new.node = Callee(c)
       /\ new.caller = c /\ c # none
  BY <1>10, NoneAssumption DEF Connection, Sound
<1> HIDE DEF new
<1>12. TypesOK'
  BY <1>1, <1>3, <1>9, <1>11 DEF TypesOK
<1>13. NodesOK' /\ ReportedReplicasExist' /\ ClientsOK'
  BY <1>1, <1>3, <1>8, <1>9 DEF NodesOK, ClientsOK, ReportedReplicasExist
<1>14. ClaimsOK'
  <2>1. \A w \in wire' : w.frame \in Sound
    BY <1>1, <1>3, <1>10, <1>11 DEF ClaimsOK
  <2> QED
    BY <1>1, <1>3, <2>1 DEF ClaimsOK, Handled
<1>15. CallsOK'
  <2>1. /\ \A w \in wire : w.caller # c
        /\ \A n \in Node : node[n].conn # none => node[n].conn.caller # c
    BY <1>1, <1>2, <1>3, NobodyCarries
  <2>2. Carries(new, l)
    BY <1>3, <1>6, <1>7, <1>10, <1>11 DEF Carries
  <2>3. \A w \in Connection : w.caller # none => w.caller \in Client
    BY ConnectionFields
  <2>4. \A w \in wire : w.caller # none => Carries(w, client'[w.caller])
    BY <1>1, <1>9, <2>1, <2>3 DEF CallsOK, TypesOK
  <2>5. \A n \in Node :
          node[n].conn # none /\ node[n].conn.caller # none =>
            Carries(node[n].conn, client'[node[n].conn.caller])
    <3> SUFFICES ASSUME NEW n \in Node, node[n].conn # none, node[n].conn.caller # none
                 PROVE  Carries(node[n].conn, client'[node[n].conn.caller])
      OBVIOUS
    <3>1. node[n].conn \in Connection
      BY <1>1 DEF TypesOK, NodeState
    <3>2. node[n].conn.caller \in Client /\ node[n].conn.caller # c
      BY <2>1, <2>3, <3>1
    <3>3. Carries(node[n].conn, client[node[n].conn.caller])
      BY <1>1 DEF CallsOK
    <3> QED
      BY <1>9, <3>2, <3>3
  <2> QED
    BY <1>1, <1>3, <1>9, <1>11, <2>1, <2>2, <2>4, <2>5 DEF CallsOK
<1> QED
  BY <1>12, <1>13, <1>14, <1>15 DEF IInv

\* A connection whose caller has left, on the wire or taken.
LEMMA Unheard ==
  ASSUME NEW w \in Connection
  PROVE  LET u == [w EXCEPT !.caller = none]
         IN  /\ u \in Connection /\ u # none /\ u.frame = w.frame /\ u.node = w.node
             /\ u.caller = none
<1> DEFINE u == [w EXCEPT !.caller = none]
<1>1. u \in Connection /\ u.frame = w.frame /\ u.node = w.node /\ u.caller = none
  BY DEF Connection
<1> HIDE DEF u
<1> QED
  BY <1>1, ConnectionFields DEF u

LEMMA UnheardNode ==
  ASSUME NEW s \in NodeState, s.conn \in Connection
  PROVE  LET t == [s EXCEPT !.conn.caller = none]
         IN  /\ t \in NodeState /\ t.pc = s.pc /\ t.run = s.run /\ t.now = s.now
             /\ t.conn = [s.conn EXCEPT !.caller = none]
<1> DEFINE u == [s.conn EXCEPT !.caller = none]
           t == [s EXCEPT !.conn.caller = none]
<1>1. t.pc = s.pc /\ t.run = s.run /\ t.now = s.now /\ t.conn = u
      /\ t = [pc |-> s.pc, run |-> s.run, now |-> s.now, conn |-> u]
  BY DEF NodeState
<1>2. u \in Connection
  BY Unheard
<1> HIDE DEF u, t
<1>3. t \in NodeState
  BY <1>1, <1>2 DEF NodeState
<1> QED
  BY <1>1, <1>3 DEF u, t

LEMMA NoAnswerKeeps ==
  ASSUME IInv, NEW c \in Client, NoAnswer(c)
  PROVE  IInv'
<1>1. TypesOK /\ NodesOK /\ ClaimsOK /\ ClientsOK /\ CallsOK /\ ReportedReplicasExist
  BY DEF IInv
<1>2. /\ client[c].program # "idle" /\ Advance(c, FALSE)
      /\ wire' = (wire \ Sent(c)) \cup {[w EXCEPT !.caller = none] : w \in Sent(c)}
      /\ node' = [n \in Node |-> IF n \in Taken(c)
                                 THEN [node[n] EXCEPT !.conn.caller = none]
                                 ELSE node[n]]
      /\ UNCHANGED <<clock, claims, objects, ops, executed>>
  BY Zenon DEF NoAnswer
<1>3. /\ client' \in [Client -> ClientState] /\ ClientsOK'
      /\ \A d \in Client : d # c => client'[d] = client[d]
      /\ profile' \in [Client -> [Node -> Nat]]
      /\ done' \subseteq Object /\ ReportedReplicasExist'
  BY <1>1, <1>2, AdvanceKeeps
<1>4. \A w \in wire' : /\ w \in Connection
                       /\ \E v \in wire : w.frame = v.frame
                       /\ w.caller # none => w \in wire /\ w.caller # c
  <2> SUFFICES ASSUME NEW w \in wire'
               PROVE  /\ w \in Connection
                      /\ \E v \in wire : w.frame = v.frame
                      /\ w.caller # none => w \in wire /\ w.caller # c
    OBVIOUS
  <2>1. CASE w \in wire \ Sent(c)
    BY <1>1, <2>1 DEF Sent, TypesOK
  <2>2. CASE \E v \in Sent(c) : w = [v EXCEPT !.caller = none]
    <3>1. PICK v \in Sent(c) : w = [v EXCEPT !.caller = none]
      BY <2>2
    <3>2. v \in wire /\ v \in Connection
      BY <1>1 DEF Sent, TypesOK
    <3> QED
      BY <3>1, <3>2, Unheard
  <2> QED
    BY <1>2, <2>1, <2>2
<1>5. \A n \in Node :
        /\ node'[n] \in NodeState
        /\ node'[n].pc = node[n].pc /\ node'[n].now = node[n].now
        /\ (node'[n].conn # none) <=> (node[n].conn # none)
        /\ node[n].conn # none => /\ node'[n].conn.frame = node[n].conn.frame
                                  /\ node'[n].conn.node = node[n].conn.node
        /\ node'[n].conn # none /\ node'[n].conn.caller # none =>
             node'[n].conn = node[n].conn /\ node'[n].conn.caller # c
  <2> TAKE n \in Node
  <2>1. node[n] \in NodeState /\ node[n].conn \in Connection \cup {none}
    BY <1>1 DEF TypesOK, NodeState
  <2>2. CASE n \in Taken(c)
    <3>1. PICK u : u = [node[n].conn EXCEPT !.caller = none]
      OBVIOUS
    <3>2. node[n].conn # none /\ node[n].conn \in Connection
      BY <2>1, <2>2 DEF Taken
    <3>3. u # none /\ u.frame = node[n].conn.frame /\ u.node = node[n].conn.node
          /\ u.caller = none
      BY <3>1, <3>2, Unheard
    <3>4. node'[n] = [node[n] EXCEPT !.conn.caller = none]
      BY <1>2, <2>2
    <3>5. /\ node'[n] \in NodeState /\ node'[n].pc = node[n].pc
          /\ node'[n].now = node[n].now /\ node'[n].conn = u
      BY <2>1, <3>1, <3>2, <3>4, UnheardNode
    <3> QED
      BY <3>2, <3>3, <3>5
  <2>3. CASE n \notin Taken(c)
    <3>1. node'[n] = node[n]
      BY <1>2, <2>3
    <3> QED
      BY <2>1, <2>3, <3>1 DEF Taken
  <2> QED
    BY <2>2, <2>3
<1>6. TypesOK'
  <2>1. node' \in [Node -> NodeState]
    BY <1>2, <1>5
  <2> QED
    BY <1>1, <1>2, <1>3, <1>4, <2>1 DEF TypesOK
<1>7. NodesOK'
  BY <1>1, <1>2, <1>5 DEF NodesOK
<1>8. ClaimsOK'
  <2>1. \A n \in Node : Handled(n)' = Handled(n)
    <3> TAKE n \in Node
    <3>1. node[n].pc = "claimed" => node'[n].conn.frame = node[n].conn.frame
      BY <1>1, <1>5 DEF NodesOK
    <3> QED
      BY <1>2, <1>5, <3>1 DEF Handled
  <2>2. \A n \in Node : node[n].pc = "claimed" => node'[n].conn.frame = node[n].conn.frame
    BY <1>1, <1>5 DEF NodesOK
  <2>3. \A w \in wire' : w.frame \in Sound
    BY <1>1, <1>4 DEF ClaimsOK
  <2> QED
    BY <1>1, <1>2, <1>5, <2>1, <2>2, <2>3 DEF ClaimsOK
<1>9. CallsOK'
  <2>1. \A n \in Node : node'[n].conn \in Connection \cup {none}
    BY <1>5 DEF NodeState
  <2>2. \A n \in Node : node'[n].conn # none /\ node'[n].conn.caller # none =>
          node'[n].conn = node[n].conn /\ node'[n].conn.caller # c
    BY <1>5
  <2> QED
    BY <1>1, <1>3, <1>4, <2>1, <2>2, CallsStay
<1> QED
  BY <1>3, <1>6, <1>7, <1>8, <1>9 DEF IInv

\* A frame presented again has no caller, and its claim is still to be tested.
LEMMA RepeatKeeps ==
  ASSUME IInv, NEW n \in Node, NEW f \in BagToSet(executed[n]), Repeat(n, f)
  PROVE  IInv'
<1>1. TypesOK /\ NodesOK /\ ClaimsOK /\ ClientsOK /\ CallsOK /\ ReportedReplicasExist
  BY DEF IInv
<1> DEFINE new == [frame |-> f, node |-> n, caller |-> none]
<1>2. /\ wire' = wire \cup {new}
      /\ UNCHANGED <<clock, node, claims, objects, client, profile, ops, executed, done>>
  BY DEF Repeat
<1>3. f \in Sound
  BY <1>1 DEF ClaimsOK, Handled
<1>4. new \in Connection /\ new.frame = f /\ new.caller = none
  BY <1>3 DEF Connection, Sound
<1> HIDE DEF new
<1>5. TypesOK'
  BY <1>1, <1>2, <1>4 DEF TypesOK
<1>6. NodesOK' /\ ClientsOK' /\ ReportedReplicasExist'
  BY <1>1, <1>2 DEF NodesOK, ClientsOK, ReportedReplicasExist
<1>7. ClaimsOK'
  BY <1>1, <1>2, <1>3, <1>4 DEF ClaimsOK, Handled
<1>8. CallsOK'
  BY <1>1, <1>2, <1>4 DEF CallsOK
<1> QED
  BY <1>5, <1>6, <1>7, <1>8 DEF IInv

-----------------------------------------------------------------------------
(***************************************************************************)
(* The nodes.                                                              *)
(***************************************************************************)
(***************************************************************************)
(* What a node accepts is no request that it executed: that one is claimed *)
(* or has expired.                                                         *)
(***************************************************************************)
LEMMA AcceptedIsNew ==
  ASSUME TypesOK, NodesOK, ClaimsOK, NEW n \in Node, NEW f \in Requests, Accepts(n, f)
  PROVE  f \notin Handled(n)
<1> SUFFICES ASSUME f \in Handled(n)
             PROVE  FALSE
  OBVIOUS
<1>1. f.expires >= node[n].now /\ ~Claimed(n, f)
  BY DEF Accepts, Valid
<1>2. f.expires \in Nat /\ node[n].now \in Nat
  BY RequestFields, NodeFields
<1>3. Mark(f) \in claims[n]
  BY <1>1, <1>2 DEF ClaimsOK
<1>4. Mark(f) \in Unexpired(n) /\ Mark(f).id = f.id
  BY <1>1, <1>3 DEF Unexpired, Mark
<1> QED
  BY <1>1, <1>4 DEF Claimed

LEMMA ReceiveKeeps ==
  ASSUME IInv, NEW n \in Node, NEW w \in wire, Receive(n, w)
  PROVE  IInv'
<1>1. TypesOK /\ NodesOK /\ ClaimsOK /\ ClientsOK /\ CallsOK /\ ReportedReplicasExist
  BY DEF IInv
<1>2. /\ node[n].pc = "accepting" /\ w.node = n
      /\ UNCHANGED <<clock, objects, client, profile, ops, executed, done>>
  BY Zenon DEF Receive
<1>3. CASE ~Accepts(n, w.frame)
  <2>1. claims' \in {claims, [claims EXCEPT ![n] = Unexpired(n)]} /\ Stop(n)
    BY <1>3 DEF Receive
  <2> QED
    BY <1>2, <2>1, StopKeeps
<1>4. CASE Accepts(n, w.frame)
  <2> DEFINE f    == w.frame
             free == [pc |-> "claimed", run |-> node[n].run, now |-> node[n].now, conn |-> w]
  <2>1. /\ claims' = [claims EXCEPT ![n] = Unexpired(n) \cup {Mark(f)}]
        /\ node' = [node EXCEPT ![n].pc = "claimed", ![n].conn = w]
        /\ wire' = wire \ {w}
    BY <1>4, Zenon DEF Receive, Mark
  <2>2. /\ w \in Connection /\ w # none /\ w.node = n /\ f \in Requests /\ f \in Sound
        /\ Mark(f) \in Claim
    BY <1>1, <1>2, ConnectionFields, RequestFields DEF TypesOK, ClaimsOK
  <2>3. node' = [node EXCEPT ![n] = free]
    BY <1>1, <2>1, SetNode, Zenon
  <2>4. free \in NodeState /\ free.pc = "claimed" /\ free.now = node[n].now /\ free.conn = w
    BY <1>1, <2>2, NodeFields DEF NodeState
  <2> HIDE DEF free
  <2>5. /\ node' \in [Node -> NodeState] /\ node'[n] = free
        /\ \A m \in Node : m # n => node'[m] = node[m]
    BY <1>1, <2>3, <2>4 DEF TypesOK
  <2>6. /\ claims' \in [Node -> SUBSET Claim] /\ Mark(f) \in claims'[n]
        /\ \A m \in Node : m # n => claims'[m] = claims[m]
        /\ \A r \in claims[n] : r.expires >= node[n].now => r \in claims'[n]
    BY <1>1, <2>1, <2>2 DEF TypesOK, Unexpired
  <2>7. TypesOK'
    BY <1>1, <1>2, <2>1, <2>5, <2>6 DEF TypesOK
  <2>8. NodesOK'
    BY <1>1, <1>2, <2>2, <2>4, <2>5 DEF NodesOK
  <2>9. ClaimsOK'
    <3>1. /\ Handled(n) = BagToSet(executed[n])
          /\ Handled(n)' = BagToSet(executed[n]) \cup {f}
      BY <1>2, <2>4, <2>5 DEF Handled
    <3>2. f \notin BagToSet(executed[n])
      BY <1>1, <1>4, <2>2, <3>1, AcceptedIsNew
    <3>3. \A g \in Handled(n)' : g.expires < node'[n].now \/ Mark(g) \in claims'[n]
      <4> TAKE g \in Handled(n)'
      <4>1. CASE g = f
        BY <2>6, <4>1
      <4>2. CASE g # f
        <5>1. g \in Handled(n) /\ g \in Requests
          BY <1>1, <3>1, <4>2 DEF ClaimsOK, Sound
        <5>2. g.expires < node[n].now \/ Mark(g) \in claims[n]
          BY <1>1, <5>1 DEF ClaimsOK
        <5>3. g.expires < node[n].now \/ g.expires >= node[n].now
          BY <1>1, <5>1, RequestFields, NodeFields
        <5>4. Mark(g).expires = g.expires
          BY DEF Mark
        <5> QED
          BY <2>4, <2>5, <2>6, <5>2, <5>3, <5>4
      <4> QED
        BY <4>1, <4>2
    <3>4. \A m \in Node : m # n => Handled(m)' = Handled(m)
      BY <1>2, <2>5 DEF Handled
    <3>5. Handled(n)' \subseteq Sound
      BY <1>1, <2>2, <3>1 DEF ClaimsOK
    <3> QED
      BY <1>1, <1>2, <2>1, <2>4, <2>5, <2>6, <3>2, <3>3, <3>4, <3>5 DEF ClaimsOK
  <2>10. ClientsOK' /\ ReportedReplicasExist'
    BY <1>1, <1>2 DEF ClientsOK, ReportedReplicasExist
  <2>11. CallsOK'
    <3>1. wire' \subseteq wire /\ w \notin wire' /\ client' = client
      BY <1>2, <2>1
    <3>2. \A m \in Node : m # n => node'[m].conn = node[m].conn
      BY <2>5
    <3>3. node'[n].conn = w
      BY <2>4, <2>5
    <3>4. \A m \in Node : node'[m].conn = node[m].conn \/ node'[m].conn = w
      BY <3>2, <3>3
    <3> QED
      BY <1>1, <3>1, <3>4 DEF CallsOK
  <2> QED
    BY <2>7, <2>8, <2>9, <2>10, <2>11 DEF IInv
<1> QED
  BY <1>3, <1>4

\* A node that lets its connection go and does not change otherwise.
LEMMA IdleStepKeeps ==
  ASSUME IInv, NEW n \in Node,
         \/ AcceptTimeout(n) \/ Crash(n) \/ Start(n)
         \/ \E w \in wire : ReadFails(n, w)
  PROVE  IInv'
<1>1. UNCHANGED <<clock, claims, objects, client, profile, ops, executed, done>>
  BY Zenon DEF AcceptTimeout, Crash, Start, ReadFails
<1>2. Run(n) \in 1 .. MaxRuns
  BY NodeFields DEF IInv, Run
<1>3. CASE Crash(n)
  BY <1>1, <1>3, StopKeeps DEF Crash
<1>4. CASE AcceptTimeout(n)
  BY <1>1, <1>2, <1>4, LoopKeeps DEF AcceptTimeout, NextLoop
<1>5. CASE Start(n)
  <2>1. Run(n) + 1 \in 1 .. MaxRuns
    BY <1>2, <1>5, BoundAssumption DEF Start
  <2> QED
    BY <1>1, <1>5, <2>1, LoopKeeps DEF Start
<1>6. CASE \E w \in wire : ReadFails(n, w)
  <2>1. PICK w \in wire : ReadFails(n, w)
    BY <1>6
  <2>2. Stop(n) \/ (NextLoop(n) /\ wire' = wire \ {w})
    BY <2>1 DEF ReadFails
  <2>3. CASE Stop(n)
    BY <1>1, <2>3, StopKeeps
  <2>4. CASE NextLoop(n) /\ wire' = wire \ {w}
    BY <1>1, <1>2, <2>4, LoopKeeps DEF NextLoop
  <2> QED
    BY <2>2, <2>3, <2>4
<1> QED
  BY <1>3, <1>4, <1>5, <1>6

LEMMA OneMore ==
  ASSUME NEW S, NEW f, f \notin S
  PROVE  SetToBag(S) (+) SetToBag({f}) = SetToBag(S \cup {f})
BY DEF SetToBag, (+)

LEMMA SetOfBag ==
  ASSUME NEW S
  PROVE  BagToSet(SetToBag(S)) = S
BY DEF BagToSet, SetToBag

\* The answer is the truth about the object, and the caller's call its own.
LEMMA ServeKeeps ==
  ASSUME IInv, NEW n \in Node, Serve(n)
  PROVE  IInv'
<1>1. TypesOK /\ NodesOK /\ ClaimsOK /\ ClientsOK /\ CallsOK /\ ReportedReplicasExist
  BY DEF IInv
<1>2. PICK w : w = node[n].conn
  OBVIOUS
<1>3. PICK f : f = w.frame
  OBVIOUS
<1>4. /\ node[n].pc = "claimed" /\ node' = [node EXCEPT ![n] = Accepting(Run(n))]
      /\ executed' = [executed EXCEPT ![n] = executed[n] (+) SetToBag({f})]
      /\ UNCHANGED <<clock, claims, wire, ops>>
  BY <1>2, <1>3, Zenon DEF Serve, NextLoop
<1>5. PICK ok \in Outcomes(n, f) :
        /\ objects' = [objects EXCEPT ![n] = IF Puts(f) /\ ok THEN objects[n] \cup {f.object}
                                                              ELSE objects[n]]
        /\ Respond(w.caller, ok)
  BY <1>2, <1>3, Zenon DEF Serve
<1>6. /\ w \in Connection /\ w # none /\ w.node = n
      /\ w.caller \in Client \cup {none} /\ f \in Sound
  <2>1. w \in Connection /\ w.node = n
    BY <1>1, <1>2, <1>4, NodeFields
  <2>2. f \in Handled(n)
    BY <1>2, <1>3, <1>4 DEF Handled
  <2> QED
    BY <1>1, <2>1, <2>2, ConnectionFields DEF ClaimsOK
<1>7. ok \in BOOLEAN
  <2> DEFINE held == f.object \in objects[n]
  <2>1. held \in BOOLEAN /\ TRUE \in BOOLEAN /\ (held \/ f.op = "ping") \in BOOLEAN
    OBVIOUS
  <2>2. ok = held \/ ok = TRUE \/ ok = (held \/ f.op = "ping")
    BY <1>5, Zenon DEF Outcomes
  <2> HIDE DEF held
  <2> QED
    BY <2>1, <2>2
<1>8. /\ objects' \in [Node -> SUBSET Object]
      /\ \A m \in Node : objects[m] \subseteq objects'[m]
      /\ ok /\ f.op # "ping" => f.object \in objects'[n]
  <2>1. /\ objects \in [Node -> SUBSET Object]
        /\ Puts(f) => f.object \in Object
    BY <1>1, <1>6 DEF TypesOK, Sound
  <2>2. ok /\ ~Puts(f) /\ f.op # "ping" => f.object \in objects[n]
    BY <1>5 DEF Outcomes
  <2> QED
    BY <1>5, <2>1, <2>2
<1>9. /\ node' \in [Node -> NodeState] /\ node'[n].conn = none /\ node'[n].pc = "accepting"
      /\ node[n].now <= node'[n].now /\ node'[n].now = clock
      /\ \A m \in Node : m # n => node'[m] = node[m]
  <2>1. Run(n) \in 1 .. MaxRuns
    BY <1>1, NodeFields DEF Run
  <2> QED
    BY <1>1, <1>4, <2>1, AcceptingIs DEF TypesOK
<1>10. NodesOK'
  <2>1. clock <= clock
    BY <1>1, NodeFields
  <2> QED
    BY <1>1, <1>4, <1>9, <2>1 DEF NodesOK
<1>11. ClaimsOK'
  <2> DEFINE S == BagToSet(executed[n])
  <2>1. /\ executed = [m \in Node |-> SetToBag(BagToSet(executed[m]))]
        /\ executed[n] = SetToBag(S) /\ f \notin S
    BY <1>1, <1>2, <1>3, <1>4 DEF ClaimsOK
  <2>2. executed[n] (+) SetToBag({f}) = SetToBag(S \cup {f})
    BY <2>1, OneMore, Zenon
  <2> HIDE DEF S
  <2>3. executed' = [executed EXCEPT ![n] = SetToBag(S \cup {f})]
    BY <1>4, <2>2, Zenon
  <2>4. /\ executed'[n] = SetToBag(S \cup {f}) /\ BagToSet(executed'[n]) = S \cup {f}
        /\ \A m \in Node : m # n => executed'[m] = executed[m]
    BY <2>1, <2>3, SetOfBag
  <2>5. executed' = [m \in Node |-> SetToBag(BagToSet(executed'[m]))]
    <3>1. \A m \in Node : executed'[m] = SetToBag(BagToSet(executed'[m]))
      BY <2>1, <2>4
    <3>2. executed' = [m \in Node |-> executed'[m]]
      BY <2>1, <2>3
    <3> QED
      BY <3>1, <3>2, Zenon
  <2>6. Handled(n)' = Handled(n)
    BY <1>2, <1>3, <1>4, <1>9, <2>4 DEF Handled, S
  <2>7. \A m \in Node : m # n => Handled(m)' = Handled(m)
    BY <1>9, <2>4 DEF Handled
  <2>8. \A g \in Handled(n) : g.expires < node'[n].now \/ Mark(g) \in claims'[n]
    <3> TAKE g \in Handled(n)
    <3>1. /\ g \in Requests /\ g.expires \in Nat
          /\ node[n].now \in Nat /\ node'[n].now \in Nat
      BY <1>1, <1>9, RequestFields, NodeFields DEF ClaimsOK, Sound
    <3>2. g.expires < node[n].now => g.expires < node'[n].now
      BY <1>9, <3>1
    <3> QED
      BY <1>1, <1>4, <3>2 DEF ClaimsOK
  <2> QED
    BY <1>1, <1>4, <1>9, <2>4, <2>5, <2>6, <2>7, <2>8 DEF ClaimsOK
<1>12. CASE client' = client /\ profile' = profile /\ done' = done
  <2>1. TypesOK'
    BY <1>1, <1>4, <1>8, <1>9, <1>12 DEF TypesOK
  <2>2. ClientsOK'
    BY <1>1, <1>8, <1>12, ClientsStay DEF ClientsOK, TypesOK
  <2>3. ReportedReplicasExist'
    <3>1. \A o \in done : Cardinality(Holders(objects', o)) >= Target
      <4>1. PICK more : more = objects'
        OBVIOUS
      <4>2. \A o \in done : Cardinality(Holders(more, o)) >= Target
        BY <1>1, <1>8, <4>1, ReportsStay
      <4> QED
        BY <4>1, <4>2
    <3> QED
      BY <1>12, <3>1 DEF ReportedReplicasExist, Holders
  <2>4. CallsOK'
    <3>1. \A m \in Node : node'[m].conn = none \/ node'[m].conn = node[m].conn
      BY <1>9
    <3> QED
      BY <1>1, <1>4, <1>12, <3>1 DEF CallsOK
  <2> QED
    BY <1>10, <1>11, <2>1, <2>2, <2>3, <2>4 DEF IInv
<1>13. CASE w.caller # none /\ Advance(w.caller, ok)
  <2>1. PICK c : c = w.caller
    OBVIOUS
  <2>2. c \in Client /\ Carries(w, client[c])
    BY <1>1, <1>2, <1>6, <1>13, <2>1 DEF CallsOK
  <2>3. ok /\ client[c].program \in Reporting => client[c].object \in objects'[Callee(c)]
    <3>1. /\ client[c] \in ClientState /\ client[c].program # "idle"
          /\ ProgramOK(client[c]) /\ client[c].pos \in 1 .. Len(Calls(client[c]))
      BY <1>1, <2>2 DEF TypesOK, ClientsOK, ClientOK, Carries
    <3>2. client[c].program \in Reporting =>
            Calls(client[c])[client[c].pos].op \in {"put", "get", "has"}
      BY <3>1, CallsOf
    <3>3. /\ n = Callee(c) /\ f.object = client[c].object
          /\ f.op = Calls(client[c])[client[c].pos].op
      BY <1>3, <1>6, <2>2 DEF Carries, Callee
    <3> QED
      BY <1>8, <3>2, <3>3
  <2>4. /\ client' \in [Client -> ClientState] /\ ClientsOK'
        /\ \A d \in Client : d # c => client'[d] = client[d]
        /\ profile' \in [Client -> [Node -> Nat]]
        /\ done' \subseteq Object /\ ReportedReplicasExist'
    BY <1>1, <1>7, <1>8, <1>13, <2>1, <2>2, <2>3, AdvanceKeeps DEF Carries
  <2>5. TypesOK'
    BY <1>1, <1>4, <1>8, <1>9, <2>4 DEF TypesOK
  <2>6. CallsOK'
    <3>1. \A v \in wire' : v.caller # none => v \in wire /\ v.caller # c
      BY <1>1, <1>2, <1>4, <1>6, <2>1 DEF CallsOK
    <3>2. \A m \in Node : node'[m].conn # none /\ node'[m].conn.caller # none =>
            node'[m].conn = node[m].conn /\ node'[m].conn.caller # c
      <4> SUFFICES ASSUME NEW m \in Node, node'[m].conn # none, node'[m].conn.caller # none
                   PROVE  node'[m].conn = node[m].conn /\ node'[m].conn.caller # c
        OBVIOUS
      <4>1. m # n /\ node'[m] = node[m]
        BY <1>9
      <4>2. node[m].conn.caller = c => Carries(node[m].conn, client[c])
        BY <1>1, <4>1 DEF CallsOK
      <4>3. node[m].conn.node = m
        BY <1>1, <4>1 DEF NodesOK
      <4> QED
        BY <1>6, <2>2, <4>1, <4>2, <4>3 DEF Carries
    <3>3. \A m \in Node : node'[m].conn \in Connection \cup {none}
      BY <1>9 DEF NodeState
    <3> QED
      BY <1>1, <2>2, <2>4, <3>1, <3>2, <3>3, CallsStay
  <2> QED
    BY <1>10, <1>11, <2>4, <2>5, <2>6 DEF IInv
<1> QED
  BY <1>5, <1>12, <1>13 DEF Respond

-----------------------------------------------------------------------------
(***************************************************************************)
(* The invariant holds in every state.                                     *)
(***************************************************************************)
LEMMA InitKeeps ==
  ASSUME Init
  PROVE  IInv
<1>1. /\ clock = 0 /\ node = [n \in Node |-> Accepting(1)]
      /\ claims = [n \in Node |-> {}] /\ objects = [n \in Node |-> {}] /\ wire = {}
      /\ client = [c \in Client |-> Idle]
      /\ profile = [c \in Client |-> [n \in Node |-> 1]]
      /\ ops = 0 /\ executed = [n \in Node |-> EmptyBag] /\ done = {}
  BY DEF Init
<1>2. /\ Accepting(1) \in NodeState /\ Accepting(1).conn = none
      /\ Accepting(1).pc = "accepting" /\ Accepting(1).now = 0
  BY <1>1, BoundAssumption DEF Accepting, NodeState
<1>3. TypesOK
  <2>1. profile \in [Client -> [Node -> Nat]]
    BY <1>1
  <2> QED
    BY <1>1, <1>2, <2>1, IdleIs, BoundAssumption DEF TypesOK
<1>4. NodesOK
  BY <1>1, <1>2 DEF NodesOK
<1>5. ClaimsOK
  <2>1. BagToSet(EmptyBag) = {} /\ SetToBag({}) = EmptyBag
    BY DEF BagToSet, EmptyBag, SetToBag
  <2>2. \A n \in Node : executed[n] = EmptyBag /\ Handled(n) = {}
    BY <1>1, <1>2, <2>1 DEF Handled
  <2>3. executed = [n \in Node |-> SetToBag(BagToSet(executed[n]))]
    BY <1>1, <2>1, <2>2
  <2> QED
    BY <1>1, <1>2, <2>2, <2>3 DEF ClaimsOK
<1>6. ClientsOK /\ CallsOK /\ ReportedReplicasExist
  BY <1>1, <1>2, IdleIs DEF ClientsOK, CallsOK, ReportedReplicasExist
<1> QED
  BY <1>3, <1>4, <1>5, <1>6 DEF IInv

LEMMA NextKeeps ==
  ASSUME IInv, [Next]_vars
  PROVE  IInv'
<1>1. CASE Tick
  BY <1>1, TickKeeps
<1>2. ASSUME NEW c \in Client, Send(c) \/ NoAnswer(c)
      PROVE  IInv'
  BY <1>2, SendKeeps, NoAnswerKeeps
<1>3. ASSUME NEW c \in Client, NEW p \in Program, NEW o \in Object \cup {none},
             NEW d \in Node \cup {none}, Begin(c, p, o, d)
      PROVE  IInv'
  BY <1>3, BeginKeeps
<1>4. ASSUME NEW n \in Node,
             \/ AcceptTimeout(n) \/ Serve(n) \/ Crash(n) \/ Start(n)
             \/ \E w \in wire : Receive(n, w) \/ ReadFails(n, w)
             \/ \E f \in BagToSet(executed[n]) : Repeat(n, f)
      PROVE  IInv'
  BY <1>4, IdleStepKeeps, ServeKeeps, ReceiveKeeps, RepeatKeeps
<1>5. CASE UNCHANGED vars
  <2>1. /\ TypesOK' /\ NodesOK' /\ ReportedReplicasExist'
    BY <1>5 DEF vars, IInv, TypesOK, NodesOK, ReportedReplicasExist
  <2>2. ClaimsOK'
    BY <1>5 DEF vars, IInv, ClaimsOK, Handled
  <2>3. ClientsOK' /\ CallsOK'
    BY <1>5 DEF vars, IInv, ClientsOK, CallsOK
  <2> QED
    BY <2>1, <2>2, <2>3 DEF IInv
<1> QED
  BY <1>1, <1>2, <1>3, <1>4, <1>5 DEF Next

LEMMA Invariance == Spec => []IInv
<1>1. IInv /\ [Next]_vars => IInv'
  BY NextKeeps
<1> QED
  BY <1>1, InitKeeps, PTL DEF Spec

(***************************************************************************)
(* Nodes, callers and connections keep their shape, and a node holds a     *)
(* connection exactly while it is about to execute its request.            *)
(***************************************************************************)
THEOREM NodeTypes == Spec => []TypeOK
<1>1. IInv => TypeOK
  <2> SUFFICES ASSUME IInv
               PROVE  TypeOK
    OBVIOUS
  <2>1. TypesOK /\ NodesOK /\ ClaimsOK
    BY DEF IInv
  <2>2. \A n \in Node : /\ node[n].pc \in {"down", "accepting", "claimed"}
                        /\ Run(n) \in 1 .. MaxRuns /\ node[n].now \in 0 .. clock
                        /\ (node[n].conn # none) <=> (node[n].pc = "claimed")
    BY <2>1, NodeFields DEF Run, NodesOK
  <2>3. \A n \in Node : IsABag(executed[n])
    <3> TAKE n \in Node
    <3>1. executed[n] = SetToBag(BagToSet(executed[n]))
      BY <2>1 DEF ClaimsOK
    <3> QED
      BY <3>1 DEF IsABag, SetToBag, BagToSet
  <2>4. \A c \in Client : client[c].program \in Program \cup {"idle"}
    BY <2>1 DEF TypesOK, ClientState
  <2> QED
    BY <2>1, <2>2, <2>3, <2>4 DEF TypeOK, TypesOK
<1> QED
  BY <1>1, Invariance, PTL

(***************************************************************************)
(* No node executes a request twice, however many callers there are and    *)
(* whatever frames are presented again: while a request is valid by the    *)
(* node's reading of the clock its claim is kept, across stops and starts. *)
(***************************************************************************)
THEOREM RequestsExecuteOnce == Spec => []ExecutedOnce
<1>1. IInv => ExecutedOnce
  BY DEF IInv, ClaimsOK, ExecutedOnce, SetToBag, BagToSet
<1> QED
  BY <1>1, Invariance, PTL

(***************************************************************************)
(* When a program reported enough replicas of an object, as many nodes     *)
(* hold it, whatever answers came late, were lost or never waited for.     *)
(***************************************************************************)
THEOREM ReportsAreTrue == Spec => []ReportedReplicasExist
<1>1. IInv => ReportedReplicasExist
  BY DEF IInv
<1> QED
  BY <1>1, Invariance, PTL
=============================================================================
