---------------------------- MODULE DemoProcesses ----------------------------
(***************************************************************************)
(* The processes of the local demo: `demo up' starts the worker and the    *)
(* nodes and records their process ids, `demo down' stops what is recorded *)
(* and removes the demo's folder.  Commands are run one at a time, and may *)
(* fail or be interrupted at any step.  Processes end on their own, and    *)
(* the system gives an id that is free to whatever starts next.            *)
(*                                                                         *)
(* A process that is told to stop has stopped.  Once up has recorded its   *)
(* processes it waits for them and seeds the control plane, which changes  *)
(* nothing here.                                                           *)
(***************************************************************************)
EXTENDS Naturals, SequencesExt

CONSTANTS Nodes,    \* the nodes' names, in the order in which they are started
          Pid,      \* process ids
          none,
          MaxCuts   \* bound: how often an up ends between a start and the record

CutAssumption == MaxCuts \in Nat

Node     == ToSet(Nodes)
Launched == <<"worker">> \o Nodes

\* The worker and the nodes have different names.
NamesAssumption ==
  /\ Nodes \in Seq(Node)
  /\ \A i, j \in DOMAIN Launched : Launched[i] = Launched[j] => i = j
  /\ ToSet(Launched) \cap {"other", none} = {} /\ none # "other"

Idle     == [do |-> "none", pids |-> <<>>]

VARIABLES
  table,    \* what runs under each process id
  record,   \* the process ids in processes.json, none without the file
  folders,  \* the nodes whose folder exists
  command,  \* what is being done, and the ids it has started or has yet to stop
  cuts      \* how often an up ended with processes that it had not recorded

vars == <<table, record, folders, command, cuts>>

Init ==
  /\ table = [p \in Pid |-> none]
  /\ record = <<>>
  /\ folders = {}
  /\ command = Idle
  /\ cuts = 0

Free(p)  == table[p] = none
Alive(p) == ~Free(p)
-----------------------------------------------------------------------------
(***************************************************************************)
(* demo up.                                                                *)
(***************************************************************************)
\* Mutant: the demo counts as running only while all of it does.
BeginUpUnlessAllAlive ==
  /\ command = Idle
  /\ record = <<>> \/ \E i \in DOMAIN record : Free(record[i])
  /\ command' = [do |-> "up", pids |-> <<>>]
  /\ UNCHANGED <<table, record, folders, cuts>>

BeginUp ==
  /\ command = Idle
  /\ \A i \in DOMAIN record : Free(record[i])
  /\ command' = [do |-> "up", pids |-> <<>>]
  /\ UNCHANGED <<table, record, folders, cuts>>

\* A process is started, and the command knows its id.
Start(p, next) ==
  /\ command.do = "up" /\ Len(command.pids) < Len(Launched)
  /\ Launched[Len(command.pids) + 1] = next
  /\ Free(p)
  /\ table' = [table EXCEPT ![p] = next]
  /\ command' = [command EXCEPT !.pids = Append(@, p)]

LaunchWorker(p) ==
  /\ Start(p, "worker")
  /\ UNCHANGED <<record, folders, cuts>>

LaunchNode(p, n) ==
  /\ Start(p, n)
  /\ folders' = folders \cup {n}
  /\ UNCHANGED <<record, cuts>>

SaveRecord ==
  /\ command.do = "up" /\ Len(command.pids) = Len(Launched)
  /\ record' = command.pids
  /\ command' = Idle
  /\ UNCHANGED <<table, folders, cuts>>

\* The migrations or a start fail, or the user interrupts the command: what
\* was started goes on.
EndUp ==
  /\ command.do = "up"
  /\ IF command.pids = <<>> THEN UNCHANGED cuts
                            ELSE cuts < MaxCuts /\ cuts' = cuts + 1
  /\ command' = Idle
  /\ UNCHANGED <<table, record, folders>>
-----------------------------------------------------------------------------
(***************************************************************************)
(* demo down.                                                              *)
(***************************************************************************)
BeginDown ==
  /\ command = Idle
  /\ command' = [do |-> "down", pids |-> record]
  /\ UNCHANGED <<table, record, folders, cuts>>

\* stop_process: whatever runs under the id now.
StopNext ==
  /\ command.do = "down" /\ command.pids # <<>>
  /\ table' = [table EXCEPT ![Head(command.pids)] = none]
  /\ command' = [command EXCEPT !.pids = Tail(@)]
  /\ UNCHANGED <<record, folders, cuts>>

\* remove_dir_all, in any order.
RemoveEntry ==
  /\ command.do = "down" /\ command.pids = <<>>
  /\ \/ \E n \in folders : folders' = folders \ {n} /\ UNCHANGED record
     \/ record # <<>> /\ record' = <<>> /\ UNCHANGED folders
  /\ UNCHANGED <<table, command, cuts>>

\* All is removed, or the command fails or is interrupted.
EndDown ==
  /\ command.do = "down"
  /\ command' = Idle
  /\ UNCHANGED <<table, record, folders, cuts>>
-----------------------------------------------------------------------------
(***************************************************************************)
(* Processes that end, the ones whose folder is gone among them, and       *)
(* others that start.                                                      *)
(***************************************************************************)
End(p) ==
  /\ Alive(p)
  /\ table' = [table EXCEPT ![p] = none]
  /\ UNCHANGED <<record, folders, command, cuts>>

StartOther(p) ==
  /\ Free(p)
  /\ table' = [table EXCEPT ![p] = "other"]
  /\ UNCHANGED <<record, folders, command, cuts>>

Next ==
  \/ BeginUp \/ SaveRecord \/ EndUp
  \/ BeginDown \/ StopNext \/ RemoveEntry \/ EndDown
  \/ \E p \in Pid : \/ LaunchWorker(p) \/ End(p) \/ StartOther(p)
                    \/ \E n \in Node : LaunchNode(p, n)

Spec == Init /\ [][Next]_vars
-----------------------------------------------------------------------------
(***************************************************************************)
(* Process ids are those of the system, and are recorded all or none.      *)
(***************************************************************************)
TypeOK ==
  /\ table \in [Pid -> ToSet(Launched) \cup {"other", none}]
  /\ ToSet(record) \subseteq Pid /\ Len(record) \in {0, Len(Launched)}
  /\ folders \subseteq Node
  /\ command.do \in {"none", "up", "down"} /\ ToSet(command.pids) \subseteq Pid
  /\ cuts \in 0 .. MaxCuts

Ours(p) == table[p] \in ToSet(Launched)

(***************************************************************************)
(* As long as no up has ended with processes that it had not recorded, no  *)
(* two processes serve one node's folder, and when the record is gone so   *)
(* are all processes of the demo: whichever of them ended before, whatever *)
(* got their ids since, and however often a down stopped half way.         *)
(***************************************************************************)
NothingLeftBehind ==
  cuts = 0 =>
    /\ \A p, q \in Pid : Ours(p) /\ table[p] = table[q] => p = q
    /\ command.do # "up" /\ record = <<>> => \A p \in Pid : ~Ours(p)
=============================================================================
