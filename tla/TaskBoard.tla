----------------------------- MODULE TaskBoard -----------------------------
(***************************************************************************)
(* The coordinator's storage audits and repairs: maintenance runs put      *)
(* tasks on a board, node owners accept, complete or fail them, and a      *)
(* completed task earns credit or a placement.  Maintenance and request    *)
(* handlers interleave at every database round trip.                       *)
(*                                                                         *)
(* Time is counted in hours, so that a task's period (the hour in its id)  *)
(* is the time at which its maintenance run began.  The audit chain is     *)
(* CatalogPointer's matter; here its unique index only makes a batch fail  *)
(* when some other handler was faster.                                     *)
(***************************************************************************)
EXTENDS Naturals, FiniteSets

CONSTANTS Node, Object, Domain, Handler, Runner, null,
          FailureDomain,  \* the failure domain of each node
          ReplicaTarget,  \* the replica_target of each object
          CertExpires,    \* when each node's certificate expires
          TaskHours,      \* how long a task stays open (6 in the code)
          MaxHour         \* bound: the clock stops here

Hour == 0..MaxHour

\* A task id: audit:period:object:node or repair:period:object:node.
TaskId == [kind : {"audit_object", "repair_object"},
           period : Hour, object : Object, node : Node]

TaskRequest  == [action : {"accept", "complete", "fail"}, task : TaskId]
PlaceRequest == [action : {"place"}, object : Object, node : Node]

ASSUME DomainAssumption == FailureDomain \in [Node -> Domain]
ASSUME TargetAssumption == ReplicaTarget \in [Object -> Nat]
ASSUME CertAssumption   == CertExpires \in [Node -> Nat]
ASSUME HourAssumption   == MaxHour \in Nat /\ TaskHours \in Nat
ASSUME NullAssumption   == null \notin TaskRequest \cup PlaceRequest

VARIABLES
  hour,       \* now
  nodeStatus, \* nodes.status
  placement,  \* placements.status of (object, node), or "none" without a row
  task,       \* node_tasks.status, or "none" without a row
  credit,     \* the number of credit_entries a task has earned
  trail,      \* the audit events of tasks: who ended how
  handler,    \* the request each handler has checked and not yet stored
  runner      \* where each maintenance run stands

vars == <<hour, nodeStatus, placement, task, credit, trail, handler, runner>>

Idle == [step |-> "idle", period |-> 0, todo |-> {}]

Init ==
  /\ hour = 0
  /\ nodeStatus = [n \in Node |-> "active"]
  /\ placement = [o \in Object |-> [n \in Node |-> "none"]]
  /\ task = [t \in TaskId |-> "none"]
  /\ credit = [t \in TaskId |-> 0]
  /\ trail = {}
  /\ handler = [h \in Handler |-> null]
  /\ runner = [m \in Runner |-> Idle]
-----------------------------------------------------------------------------
(***************************************************************************)
(* Time, and the two single-statement changes of rows.                     *)
(***************************************************************************)
Tick ==
  /\ hour < MaxHour
  /\ hour' = hour + 1
  /\ UNCHANGED <<nodeStatus, placement, task, credit, trail, handler, runner>>

\* POST /v1/nodes/:nodeId/disable, by an admin.
DisableNode(n) ==
  /\ nodeStatus[n] = "active"
  /\ nodeStatus' = [nodeStatus EXCEPT ![n] = "disabled"]
  /\ UNCHANGED <<hour, placement, task, credit, trail, handler, runner>>

\* POST /v1/placements/:placementId/failed, by any member of the community.
FailPlacement(o, n) ==
  /\ placement[o][n] = "healthy"
  /\ placement' = [placement EXCEPT ![o][n] = "failed"]
  /\ UNCHANGED <<hour, nodeStatus, task, credit, trail, handler, runner>>
-----------------------------------------------------------------------------
(***************************************************************************)
(* Requests: a handler checks its request against what it has selected,    *)
(* and stores its changes in a later round trip.                           *)
(***************************************************************************)
CertValid(n) == hour < CertExpires[n]

SelectNode(h) ==
  /\ handler[h] = null
  /\ \E o \in Object, n \in Node :
       /\ nodeStatus[n] = "active" /\ CertValid(n)
       /\ handler' = [handler EXCEPT ![h] =
                        [action |-> "place", object |-> o, node |-> n]]
  /\ UNCHANGED <<hour, nodeStatus, placement, task, credit, trail, runner>>

\* UNIQUE(object_cid, node_id): a second row for the pair is a conflict.
InsertPlacement(h) ==
  /\ handler[h] \in PlaceRequest
  /\ placement' = [placement EXCEPT ![handler[h].object][handler[h].node] =
                     IF @ = "none" THEN "healthy" ELSE @]
  /\ handler' = [handler EXCEPT ![h] = null]
  /\ UNCHANGED <<hour, nodeStatus, task, credit, trail, runner>>

RequiredStatus(action) == IF action = "accept" THEN "pending" ELSE "accepted"

\* Mutant: stores the requested action itself.
ResultIsAction(action) == action

ResultStatus(action) ==
  CASE action = "accept"   -> "accepted"
    [] action = "complete" -> "completed"
    [] action = "fail"     -> "failed"

\* The task is open, its node's certificate is valid, and (to complete it)
\* the request carries a proof signed by the node.  The node's status is not
\* looked at.
SelectTask(h) ==
  /\ handler[h] = null
  /\ \E request \in TaskRequest :
       /\ task[request.task] = RequiredStatus(request.action)
       /\ hour <= request.task.period + TaskHours
       /\ CertValid(request.task.node)
       /\ handler' = [handler EXCEPT ![h] = request]
  /\ UNCHANGED <<hour, nodeStatus, placement, task, credit, trail, runner>>

\* Mutant: the UPDATE without AND status = ?.
MoveAnyTask(t, action) == task' = [task EXCEPT ![t] = ResultStatus(action)]

\* UPDATE node_tasks ... WHERE status = requiredStatus.
MoveTask(t, action) ==
  task' = [task EXCEPT ![t] =
             IF @ = RequiredStatus(action) THEN ResultStatus(action) ELSE @]

\* Mutant: a plain INSERT under a random key.
EarnAlways(t, action) ==
  credit' = IF action = "complete" /\ t.kind = "audit_object"
            THEN [credit EXCEPT ![t] = @ + 1]
            ELSE credit

\* INSERT OR IGNORE by idempotency key.
EarnCredit(t, action) ==
  credit' = IF action = "complete" /\ t.kind = "audit_object"
            THEN [credit EXCEPT ![t] = IF @ = 0 THEN 1 ELSE @]
            ELSE credit

\* INSERT ... ON CONFLICT DO UPDATE SET status = 'healthy'.
StoreReplica(t, action) ==
  placement' = IF action = "complete" /\ t.kind = "repair_object"
               THEN [placement EXCEPT ![t.object][t.node] = "healthy"]
               ELSE placement

\* Mutant: audits only completions.
RecordCompletion(t, action) ==
  trail' = IF action = "complete"
           THEN trail \cup {[task |-> t, status |-> "completed"]}
           ELSE trail

RecordEvent(t, action) ==
  trail' = IF action = "accept"
           THEN trail
           ELSE trail \cup {[task |-> t, status |-> ResultStatus(action)]}

\* One batch.  Whether its UPDATE found the required status only decides the
\* answer: the other statements are committed with it either way.
CommitTask(h) ==
  /\ handler[h] \in TaskRequest
  /\ LET t      == handler[h].task
         action == handler[h].action
     IN  /\ MoveTask(t, action)
         /\ EarnCredit(t, action)
         /\ StoreReplica(t, action)
         /\ RecordEvent(t, action)
  /\ handler' = [handler EXCEPT ![h] = null]
  /\ UNCHANGED <<hour, nodeStatus, runner>>

\* The audit row's place in the chain was taken: the batch is rolled back.
BatchThrows(h) ==
  /\ handler[h] \in TaskRequest
  /\ handler[h].action # "accept"
  /\ handler' = [handler EXCEPT ![h] = null]
  /\ UNCHANGED <<hour, nodeStatus, placement, task, credit, trail, runner>>
-----------------------------------------------------------------------------
(***************************************************************************)
(* runMaintenance, by the cron trigger or the internal route.  It selects  *)
(* once and inserts row by row; any statement may fail and end the run.    *)
(***************************************************************************)
Healthy(o) == {n \in Node : placement[o][n] = "healthy"}

\* Mutant: asks every active node, whatever it stores.
AuditEveryNode == {row \in Object \X Node : nodeStatus[row[2]] = "active"}

AuditRows ==
  {row \in Object \X Node : /\ placement[row[1]][row[2]] = "healthy"
                            /\ nodeStatus[row[2]] = "active"}

SelectAudits(m) ==
  /\ runner[m].step = "idle"
  /\ runner' = [runner EXCEPT ![m] =
                  [step |-> "audits", period |-> hour, todo |-> AuditRows]]
  /\ UNCHANGED <<hour, nodeStatus, placement, task, credit, trail, handler>>

\* INSERT OR IGNORE INTO node_tasks.
InsertTask(m, step, kind) ==
  /\ runner[m].step = step
  /\ \E row \in runner[m].todo :
       /\ LET t == [kind |-> kind, period |-> runner[m].period,
                    object |-> row[1], node |-> row[2]]
          IN  task' = [task EXCEPT ![t] = IF @ = "none" THEN "pending" ELSE @]
       /\ runner' = [runner EXCEPT ![m].todo = @ \ {row}]
  /\ UNCHANGED <<hour, nodeStatus, placement, credit, trail, handler>>

InsertAuditTask(m) == InsertTask(m, "audits", "audit_object")

RepairCandidates(o) ==
  {n \in Node :
     /\ Cardinality(Healthy(o)) < ReplicaTarget[o]
     /\ nodeStatus[n] = "active"
     /\ placement[o][n] = "none"
     /\ \A p \in Healthy(o) : FailureDomain[p] # FailureDomain[n]}

\* GROUP BY keeps one of an object's candidates; SQL does not say which.
SelectRepairs(m) ==
  /\ runner[m].step = "audits"
  /\ runner[m].todo = {}
  /\ \E pick \in [{o \in Object : RepairCandidates(o) # {}} -> Node] :
       /\ \A o \in DOMAIN pick : pick[o] \in RepairCandidates(o)
       /\ runner' = [runner EXCEPT
            ![m].step = "repairs",
            ![m].todo = {<<o, pick[o]>> : o \in DOMAIN pick}]
  /\ UNCHANGED <<hour, nodeStatus, placement, task, credit, trail, handler>>

\* Mutant: inserts the repairs under the audits' kind.
InsertRepairAsAudit(m) == InsertTask(m, "repairs", "audit_object")

InsertRepairTask(m) == InsertTask(m, "repairs", "repair_object")

\* The run anchors the previous day's events (AuditAnchor's matter) and ends.
FinishRun(m) ==
  /\ runner[m].step = "repairs"
  /\ runner[m].todo = {}
  /\ runner' = [runner EXCEPT ![m] = Idle]
  /\ UNCHANGED <<hour, nodeStatus, placement, task, credit, trail, handler>>

\* A statement throws: what was inserted stays, the rest of the run is lost.
AbortRun(m) ==
  /\ runner[m].step # "idle"
  /\ runner' = [runner EXCEPT ![m] = Idle]
  /\ UNCHANGED <<hour, nodeStatus, placement, task, credit, trail, handler>>
-----------------------------------------------------------------------------
Next ==
  \/ Tick
  \/ \E n \in Node : DisableNode(n)
  \/ \E o \in Object, n \in Node : FailPlacement(o, n)
  \/ \E h \in Handler : \/ SelectNode(h) \/ InsertPlacement(h)
                        \/ SelectTask(h) \/ CommitTask(h) \/ BatchThrows(h)
  \/ \E m \in Runner : \/ SelectAudits(m) \/ InsertAuditTask(m)
                       \/ SelectRepairs(m) \/ InsertRepairTask(m)
                       \/ FinishRun(m) \/ AbortRun(m)

Spec == Init /\ [][Next]_vars

(***************************************************************************)
(* The cron trigger starts run after run, and a statement that keeps being *)
(* tried succeeds sometimes: aborted runs do not keep every later run from *)
(* making the same step.  Nothing obliges clients or administrators.       *)
(***************************************************************************)
Fairness ==
  \A m \in Runner : /\ WF_vars(SelectAudits(m))
                    /\ SF_vars(InsertAuditTask(m))
                    /\ SF_vars(SelectRepairs(m))
                    /\ SF_vars(InsertRepairTask(m))
                    /\ WF_vars(FinishRun(m))

FairSpec == Spec /\ Fairness
-----------------------------------------------------------------------------
Settled(t) == task[t] \in {"completed", "failed"}

(***************************************************************************)
(* Every variable keeps the shape of its table column, local variables     *)
(* or loop state.                                                          *)
(***************************************************************************)
TypeOK ==
  /\ hour \in Hour
  /\ nodeStatus \in [Node -> {"active", "disabled"}]
  /\ placement \in [Object -> [Node -> {"none", "healthy", "failed"}]]
  /\ task \in [TaskId -> {"none", "pending", "accepted", "completed", "failed"}]
  /\ credit \in [TaskId -> Nat]
  /\ trail \subseteq [task : TaskId, status : {"completed", "failed"}]
  /\ handler \in [Handler -> TaskRequest \cup PlaceRequest \cup {null}]
  /\ runner \in [Runner -> [step : {"idle", "audits", "repairs"},
                            period : Hour,
                            todo : SUBSET (Object \X Node)]]

(***************************************************************************)
(* A task only moves from pending to accepted to completed or failed, and  *)
(* is put on the board once: no handler acting on an old read, and no      *)
(* maintenance run repeating a period, moves it back or settles it twice.  *)
(***************************************************************************)
TaskLifecycle ==
  [][\A t \in TaskId :
       \/ task'[t] = task[t]
       \/ task[t] = "none" /\ task'[t] = "pending"
       \/ task[t] = "pending" /\ task'[t] = "accepted"
       \/ task[t] = "accepted" /\ task'[t] \in {"completed", "failed"}]_vars

(***************************************************************************)
(* How a task ended is in the audit trail, and the trail has events of     *)
(* settled tasks only.                                                     *)
(***************************************************************************)
SettledTasksAreRecorded ==
  \A t \in TaskId :
    /\ Settled(t) => [task |-> t, status |-> task[t]] \in trail
    /\ (\E e \in trail : e.task = t) => Settled(t)

(***************************************************************************)
(* A completed audit has earned its credit, exactly once however many      *)
(* handlers completed it, and nothing but a settled audit earns credit.    *)
(***************************************************************************)
CompletedAuditsPaidOnce ==
  \A t \in TaskId :
    /\ credit[t] <= 1
    /\ t.kind = "audit_object" /\ task[t] = "completed" => credit[t] = 1
    /\ credit[t] # 0 => t.kind = "audit_object" /\ Settled(t)

(***************************************************************************)
(* The board audits what was placed: a node is asked, and later paid, only *)
(* for objects it has a placement row of, and a completed repair has left  *)
(* one.                                                                    *)
(***************************************************************************)
TasksFollowPlacements ==
  \A t \in TaskId :
    \/ t.kind = "audit_object" /\ task[t] # "none"
    \/ t.kind = "repair_object" /\ task[t] = "completed"
    => placement[t.object][t.node] # "none"

(***************************************************************************)
(* A failed audit earns nothing: credit needs a successful audit.          *)
(***************************************************************************)
FailedAuditsEarnNothing ==
  \A t \in TaskId : task[t] = "failed" => credit[t] = 0

(***************************************************************************)
(* An object short of replicas gets a repair task as long as a candidate   *)
(* remains, although runs are aborted and the placements change between a  *)
(* run's selection and its insertions.                                     *)
(***************************************************************************)
ShortObjectsGetRepairs ==
  \A o \in Object :
    RepairCandidates(o) # {}
      ~> \/ RepairCandidates(o) = {}
         \/ \E t \in TaskId : /\ t.kind = "repair_object" /\ t.object = o
                              /\ task[t] # "none"
=============================================================================
