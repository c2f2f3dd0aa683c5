--------------------------- MODULE TaskBoardProof ---------------------------
(***************************************************************************)
(* Proofs about TaskBoard, for every set of nodes, objects, handlers and   *)
(* maintenance runs: the types, the life of a task, its audit trail, its   *)
(* credit, and that tasks follow placements.                               *)
(***************************************************************************)
EXTENDS TaskBoard, TLAPS

(***************************************************************************)
(* What a handler has read of its task cannot be undone before it stores   *)
(* its changes: an accepted task stays accepted until it is settled.       *)
(***************************************************************************)
ReadsStayTrue ==
  \A h \in Handler :
    /\ handler[h] \in TaskRequest
    /\ handler[h].action # "accept"
    => task[handler[h].task] \in {"accepted", "completed", "failed"}

(***************************************************************************)
(* What a run has selected to audit was placed, and no placement row is    *)
(* ever removed.                                                           *)
(***************************************************************************)
SelectionsStayPlaced ==
  \A m \in Runner :
    runner[m].step = "audits" =>
      \A row \in runner[m].todo : placement[row[1]][row[2]] # "none"

IInv == /\ TypeOK
        /\ ReadsStayTrue
        /\ SelectionsStayPlaced
        /\ SettledTasksAreRecorded
        /\ CompletedAuditsPaidOnce
        /\ TasksFollowPlacements

(***************************************************************************)
(* One step of a task's life, or none.                                     *)
(***************************************************************************)
TaskStep ==
  \A t \in TaskId :
    \/ task'[t] = task[t]
    \/ task[t] = "none" /\ task'[t] = "pending"
    \/ task[t] = "pending" /\ task'[t] = "accepted"
    \/ task[t] = "accepted" /\ task'[t] \in {"completed", "failed"}

(***************************************************************************)
(* Rows of placements are never removed.                                   *)
(***************************************************************************)
PlacementsStay ==
  \A o \in Object, n \in Node :
    placement[o][n] # "none" => placement'[o][n] # "none"

-----------------------------------------------------------------------------
(***************************************************************************)
(* Every state of the initial database is typed, and no table has rows.    *)
(***************************************************************************)
LEMMA InitEstablishes == Init => IInv
<1> SUFFICES ASSUME Init PROVE IInv
  OBVIOUS
<1> USE DEF Init
<1>1. TypeOK
  BY HourAssumption DEF TypeOK, Hour, Idle
<1>2. ReadsStayTrue
  BY NullAssumption DEF ReadsStayTrue
<1>3. SelectionsStayPlaced
  BY DEF SelectionsStayPlaced, Idle
<1>4. SettledTasksAreRecorded
  BY DEF SettledTasksAreRecorded, Settled
<1>5. CompletedAuditsPaidOnce
  BY DEF CompletedAuditsPaidOnce, Settled
<1>6. TasksFollowPlacements
  BY DEF TasksFollowPlacements
<1> QED
  BY <1>1, <1>2, <1>3, <1>4, <1>5, <1>6 DEF IInv

(***************************************************************************)
(* The actions that leave tasks, trail and credit alone keep the invariant *)
(* when placements are not removed, handlers and runs know no more than    *)
(* they have read, and types are kept.                                     *)
(***************************************************************************)
LEMMA FrameKeeps ==
  ASSUME IInv, TypeOK', ReadsStayTrue', SelectionsStayPlaced',
         PlacementsStay, UNCHANGED <<task, credit, trail>>
  PROVE  IInv'
<1>1. SettledTasksAreRecorded'
  BY DEF IInv, SettledTasksAreRecorded, Settled
<1>2. CompletedAuditsPaidOnce'
  BY DEF IInv, CompletedAuditsPaidOnce, Settled
<1>3. TasksFollowPlacements'
  BY DEF IInv, TasksFollowPlacements, PlacementsStay, TaskId
<1> QED
  BY <1>1, <1>2, <1>3 DEF IInv

-----------------------------------------------------------------------------
(***************************************************************************)
(* Each action keeps the invariant and takes every task one step at most.  *)
(***************************************************************************)
LEMMA TickKeeps ==
  ASSUME IInv, Tick
  PROVE  IInv' /\ TaskStep
<1> USE DEF Tick, IInv
<1>1. TypeOK'
  BY HourAssumption DEF TypeOK, Hour
<1>2. ReadsStayTrue'
  BY DEF ReadsStayTrue
<1>3. SelectionsStayPlaced'
  BY DEF SelectionsStayPlaced
<1>4. PlacementsStay
  BY DEF PlacementsStay
<1> QED
  BY <1>1, <1>2, <1>3, <1>4, FrameKeeps DEF TaskStep

LEMMA DisableNodeKeeps ==
  ASSUME IInv, NEW n \in Node, DisableNode(n)
  PROVE  IInv' /\ TaskStep
<1> USE DEF DisableNode, IInv
<1>1. TypeOK'
  BY DEF TypeOK
<1>2. ReadsStayTrue'
  BY DEF ReadsStayTrue
<1>3. SelectionsStayPlaced'
  BY DEF SelectionsStayPlaced
<1>4. PlacementsStay
  BY DEF PlacementsStay
<1> QED
  BY <1>1, <1>2, <1>3, <1>4, FrameKeeps DEF TaskStep

LEMMA FailPlacementKeeps ==
  ASSUME IInv, NEW o \in Object, NEW n \in Node, FailPlacement(o, n)
  PROVE  IInv' /\ TaskStep
<1> USE DEF FailPlacement, IInv
<1>1. TypeOK'
  BY DEF TypeOK
<1>2. ReadsStayTrue'
  BY DEF ReadsStayTrue
<1>3. PlacementsStay
  BY DEF PlacementsStay, TypeOK
<1>4. SelectionsStayPlaced'
  BY <1>3 DEF SelectionsStayPlaced, PlacementsStay, TypeOK
<1> QED
  BY <1>1, <1>2, <1>3, <1>4, FrameKeeps DEF TaskStep

(***************************************************************************)
(* A request that asks for a placement is not one that settles a task.     *)
(***************************************************************************)
LEMMA RequestsDiffer ==
  /\ null \notin TaskRequest
  /\ \A request \in PlaceRequest : request \notin TaskRequest
BY NullAssumption DEF TaskRequest, PlaceRequest

LEMMA SelectNodeKeeps ==
  ASSUME IInv, NEW h \in Handler, SelectNode(h)
  PROVE  IInv' /\ TaskStep
<1> USE DEF IInv
<1>1. PICK request \in PlaceRequest : handler' = [handler EXCEPT ![h] = request]
  BY DEF SelectNode, PlaceRequest
<1>2. UNCHANGED <<hour, nodeStatus, placement, task, credit, trail, runner>>
  BY DEF SelectNode
<1>3. TypeOK'
  BY <1>1, <1>2 DEF TypeOK
<1>4. ReadsStayTrue'
  BY <1>1, <1>2, RequestsDiffer DEF ReadsStayTrue, TypeOK
<1>5. SelectionsStayPlaced'
  BY <1>2 DEF SelectionsStayPlaced
<1>6. PlacementsStay
  BY <1>2 DEF PlacementsStay
<1> QED
  BY <1>2, <1>3, <1>4, <1>5, <1>6, FrameKeeps DEF TaskStep

LEMMA InsertPlacementKeeps ==
  ASSUME IInv, NEW h \in Handler, InsertPlacement(h)
  PROVE  IInv' /\ TaskStep
<1> USE DEF InsertPlacement, IInv
<1>1. /\ handler[h].object \in Object
      /\ handler[h].node \in Node
  BY DEF PlaceRequest
<1>2. TypeOK'
  BY <1>1 DEF TypeOK
<1>3. ReadsStayTrue'
  BY RequestsDiffer DEF ReadsStayTrue, TypeOK
<1>4. PlacementsStay
  BY <1>1 DEF PlacementsStay, TypeOK
<1>5. SelectionsStayPlaced'
  BY <1>4 DEF SelectionsStayPlaced, PlacementsStay, TypeOK
<1> QED
  BY <1>2, <1>3, <1>4, <1>5, FrameKeeps DEF TaskStep

LEMMA SelectTaskKeeps ==
  ASSUME IInv, NEW h \in Handler, SelectTask(h)
  PROVE  IInv' /\ TaskStep
<1> USE DEF IInv
<1>1. PICK request \in TaskRequest :
        /\ task[request.task] = RequiredStatus(request.action)
        /\ handler' = [handler EXCEPT ![h] = request]
  BY DEF SelectTask
<1>2. UNCHANGED <<hour, nodeStatus, placement, task, credit, trail, runner>>
  BY DEF SelectTask
<1>3. TypeOK'
  BY <1>1, <1>2 DEF TypeOK
<1>4. ReadsStayTrue'
  BY <1>1, <1>2 DEF ReadsStayTrue, TypeOK, RequiredStatus
<1>5. SelectionsStayPlaced'
  BY <1>2 DEF SelectionsStayPlaced
<1>6. PlacementsStay
  BY <1>2 DEF PlacementsStay
<1> QED
  BY <1>2, <1>3, <1>4, <1>5, <1>6, FrameKeeps DEF TaskStep

LEMMA BatchThrowsKeeps ==
  ASSUME IInv, NEW h \in Handler, BatchThrows(h)
  PROVE  IInv' /\ TaskStep
<1> USE DEF BatchThrows, IInv
<1>1. TypeOK'
  BY DEF TypeOK
<1>2. ReadsStayTrue'
  BY RequestsDiffer DEF ReadsStayTrue, TypeOK
<1>3. SelectionsStayPlaced'
  BY DEF SelectionsStayPlaced
<1>4. PlacementsStay
  BY DEF PlacementsStay
<1> QED
  BY <1>1, <1>2, <1>3, <1>4, FrameKeeps DEF TaskStep

(***************************************************************************)
(* A batch stores the change of a task, its credit, its replica and its    *)
(* event.  Because the task had the required status when the handler read  *)
(* it, it is settled after the batch, whoever else has settled it before.  *)
(***************************************************************************)
LEMMA CommitTaskKeeps ==
  ASSUME IInv, NEW h \in Handler, CommitTask(h)
  PROVE  IInv' /\ TaskStep
<1> DEFINE t == handler[h].task
           action == handler[h].action
<1> USE DEF IInv
<1>1. /\ t \in TaskId
      /\ action \in {"accept", "complete", "fail"}
      /\ t.object \in Object
      /\ t.node \in Node
      /\ t.kind \in {"audit_object", "repair_object"}
  BY DEF CommitTask, TaskRequest, TaskId
<1>2. /\ MoveTask(t, action) /\ EarnCredit(t, action)
      /\ StoreReplica(t, action) /\ RecordEvent(t, action)
      /\ handler' = [handler EXCEPT ![h] = null]
      /\ UNCHANGED <<hour, nodeStatus, runner>>
  BY DEF CommitTask
<1>3. action # "accept" => task[t] \in {"accepted", "completed", "failed"}
  BY DEF CommitTask, ReadsStayTrue
<1> HIDE DEF t, action
<1>4. task' = [task EXCEPT ![t] = task'[t]]
  BY <1>1, <1>2 DEF MoveTask, TypeOK
<1>5. /\ action = "accept" =>
           task'[t] = IF task[t] = "pending" THEN "accepted" ELSE task[t]
      /\ action = "complete" =>
           task'[t] = IF task[t] = "accepted" THEN "completed" ELSE task[t]
      /\ action = "fail" =>
           task'[t] = IF task[t] = "accepted" THEN "failed" ELSE task[t]
  BY <1>1, <1>2 DEF MoveTask, TypeOK, RequiredStatus, ResultStatus
<1>6. TaskStep
  BY <1>1, <1>4, <1>5 DEF TaskStep, TypeOK
<1>7. PlacementsStay
  BY <1>1, <1>2 DEF PlacementsStay, StoreReplica, TypeOK
<1>8. TypeOK'
  <2>1. task' \in [TaskId -> {"none", "pending", "accepted", "completed", "failed"}]
    BY <1>1, <1>4, <1>5 DEF TypeOK
  <2>2. credit' \in [TaskId -> Nat]
    BY <1>1, <1>2 DEF TypeOK, EarnCredit
  <2>3. placement' \in [Object -> [Node -> {"none", "healthy", "failed"}]]
    BY <1>1, <1>2 DEF TypeOK, StoreReplica
  <2>4. trail' \subseteq [task : TaskId, status : {"completed", "failed"}]
    BY <1>1, <1>2 DEF TypeOK, RecordEvent, ResultStatus
  <2>5. handler' \in [Handler -> TaskRequest \cup PlaceRequest \cup {null}]
    BY <1>2 DEF TypeOK
  <2> QED
    BY <1>2, <2>1, <2>2, <2>3, <2>4, <2>5 DEF TypeOK
<1>9. ReadsStayTrue'
  BY <1>1, <1>2, <1>6, RequestsDiffer DEF ReadsStayTrue, TaskStep, TypeOK, TaskRequest
<1>10. SelectionsStayPlaced'
  BY <1>2, <1>7 DEF SelectionsStayPlaced, PlacementsStay, TypeOK
<1>11. SettledTasksAreRecorded'
  <2> SUFFICES ASSUME NEW u \in TaskId
               PROVE  /\ Settled(u)' => [task |-> u, status |-> task'[u]] \in trail'
                      /\ (\E e \in trail' : e.task = u) => Settled(u)'
    BY DEF SettledTasksAreRecorded
  <2>1. trail \subseteq trail'
    BY <1>2 DEF RecordEvent
  <2>2. CASE u # t
    <3>1. task'[u] = task[u]
      BY <1>1, <1>4, <2>2 DEF TypeOK
    <3>2. \A e \in trail' : e.task = u => e \in trail
      BY <1>1, <1>2, <2>2 DEF RecordEvent
    <3> QED
      BY <2>1, <3>1, <3>2 DEF SettledTasksAreRecorded, Settled
  <2>3. CASE u = t /\ action = "accept"
    BY <1>1, <1>2, <1>5, <2>3 DEF SettledTasksAreRecorded, Settled, RecordEvent
  <2>4. CASE u = t /\ action # "accept"
    <3>1. Settled(u)'
      BY <1>1, <1>3, <1>5, <2>4 DEF Settled
    <3>2. [task |-> u, status |-> task'[u]] \in trail'
      BY <1>1, <1>2, <1>3, <1>5, <2>1, <2>4
      DEF SettledTasksAreRecorded, Settled, RecordEvent, ResultStatus
    <3> QED
      BY <3>1, <3>2
  <2> QED
    BY <2>2, <2>3, <2>4
<1>12. CompletedAuditsPaidOnce'
  <2> SUFFICES ASSUME NEW u \in TaskId
               PROVE  /\ credit'[u] <= 1
                      /\ u.kind = "audit_object" /\ task'[u] = "completed"
                           => credit'[u] = 1
                      /\ credit'[u] # 0 => u.kind = "audit_object" /\ Settled(u)'
    BY DEF CompletedAuditsPaidOnce
  <2>1. CASE u # t
    <3>1. task'[u] = task[u] /\ credit'[u] = credit[u]
      BY <1>1, <1>2, <1>4, <2>1 DEF TypeOK, EarnCredit
    <3> QED
      BY <3>1 DEF CompletedAuditsPaidOnce, Settled
  <2>2. CASE u = t /\ action = "complete" /\ t.kind = "audit_object"
    <3>1. credit[t] \in Nat /\ credit[t] <= 1
      BY <1>1 DEF TypeOK, CompletedAuditsPaidOnce
    <3>2. credit'[t] = IF credit[t] = 0 THEN 1 ELSE credit[t]
      BY <1>1, <1>2, <2>2 DEF TypeOK, EarnCredit
    <3>3. credit'[u] = 1
      BY <2>2, <3>1, <3>2
    <3>4. Settled(u)'
      BY <1>1, <1>3, <1>5, <2>2 DEF Settled
    <3> QED
      BY <2>2, <3>3, <3>4
  <2>3. CASE u = t /\ ~(action = "complete" /\ t.kind = "audit_object")
    <3>1. credit'[u] = credit[u]
      BY <1>1, <1>2, <2>3 DEF EarnCredit
    <3> QED
      BY <1>1, <1>3, <1>5, <2>3, <3>1 DEF CompletedAuditsPaidOnce, Settled
  <2> QED
    BY <2>1, <2>2, <2>3
<1>13. TasksFollowPlacements'
  <2> SUFFICES ASSUME NEW u \in TaskId,
                      \/ u.kind = "audit_object" /\ task'[u] # "none"
                      \/ u.kind = "repair_object" /\ task'[u] = "completed"
               PROVE  placement'[u.object][u.node] # "none"
    BY DEF TasksFollowPlacements
  <2>1. u.object \in Object /\ u.node \in Node
    BY DEF TaskId
  <2>2. CASE /\ u = t /\ u.kind = "repair_object"
             /\ action = "complete"
    BY <1>1, <1>2, <2>1, <2>2 DEF StoreReplica, TypeOK
  <2>3. CASE ~ (/\ u = t /\ u.kind = "repair_object"
                /\ action = "complete")
    <3>1. \/ u.kind = "audit_object" /\ task[u] # "none"
          \/ u.kind = "repair_object" /\ task[u] = "completed"
      BY <1>1, <1>4, <1>5, <2>3 DEF TypeOK
    <3> QED
      BY <1>7, <2>1, <3>1 DEF TasksFollowPlacements, PlacementsStay
  <2> QED
    BY <2>2, <2>3
<1> QED
  BY <1>6, <1>8, <1>9, <1>10, <1>11, <1>12, <1>13

-----------------------------------------------------------------------------
(***************************************************************************)
(* Maintenance runs.                                                       *)
(***************************************************************************)
LEMMA SelectAuditsKeeps ==
  ASSUME IInv, NEW m \in Runner, SelectAudits(m)
  PROVE  IInv' /\ TaskStep
<1> USE DEF SelectAudits, IInv
<1>1. AuditRows \subseteq Object \X Node
  BY DEF AuditRows
<1>2. TypeOK'
  BY <1>1 DEF TypeOK
<1>3. ReadsStayTrue'
  BY DEF ReadsStayTrue
<1>4. \A row \in AuditRows : placement[row[1]][row[2]] # "none"
  BY DEF AuditRows
<1>5. SelectionsStayPlaced'
  BY <1>4 DEF SelectionsStayPlaced, TypeOK
<1>6. PlacementsStay
  BY DEF PlacementsStay
<1> QED
  BY <1>2, <1>3, <1>5, <1>6, FrameKeeps DEF TaskStep

(***************************************************************************)
(* An inserted task is new or was there already: INSERT OR IGNORE.  An     *)
(* audit is of an object placed on the node.                               *)
(***************************************************************************)
LEMMA InsertTaskKeeps ==
  ASSUME IInv, NEW m \in Runner,
         NEW step \in {"audits", "repairs"},
         NEW kind \in {"audit_object", "repair_object"},
         kind = "audit_object" => step = "audits",
         InsertTask(m, step, kind)
  PROVE  IInv' /\ TaskStep
<1> USE DEF IInv
<1>1. PICK row \in runner[m].todo :
        LET t == [kind |-> kind, period |-> runner[m].period,
                  object |-> row[1], node |-> row[2]]
        IN  /\ task' = [task EXCEPT ![t] = IF @ = "none" THEN "pending" ELSE @]
            /\ runner' = [runner EXCEPT ![m].todo = @ \ {row}]
  BY DEF InsertTask
<1> DEFINE t == [kind |-> kind, period |-> runner[m].period,
                 object |-> row[1], node |-> row[2]]
<1>2. /\ runner[m].step = step
      /\ UNCHANGED <<hour, nodeStatus, placement, credit, trail, handler>>
  BY DEF InsertTask
<1>3. /\ runner[m].period \in Hour
      /\ row[1] \in Object /\ row[2] \in Node
  BY DEF TypeOK
<1>4. t \in TaskId
  BY <1>3 DEF TaskId
<1>5. /\ t.kind = kind /\ t.object = row[1] /\ t.node = row[2]
      /\ task' = [task EXCEPT ![t] = IF task[t] = "none" THEN "pending" ELSE task[t]]
  BY <1>1
<1> HIDE DEF t
<1>6. TaskStep
  BY <1>4, <1>5 DEF TaskStep, TypeOK
<1>7. TypeOK'
  <2>1. task' \in [TaskId -> {"none", "pending", "accepted", "completed", "failed"}]
    BY <1>4, <1>5 DEF TypeOK
  <2>2. runner' \in [Runner -> [step : {"idle", "audits", "repairs"},
                               period : Hour, todo : SUBSET (Object \X Node)]]
    BY <1>1 DEF TypeOK
  <2> QED
    BY <1>2, <2>1, <2>2 DEF TypeOK
<1>8. ReadsStayTrue'
  BY <1>2, <1>6 DEF ReadsStayTrue, TaskStep, TypeOK, TaskRequest
<1>9. SelectionsStayPlaced'
  BY <1>1, <1>2 DEF SelectionsStayPlaced, TypeOK
<1>10. \A u \in TaskId : /\ Settled(u)' <=> Settled(u)
                         /\ Settled(u) => task'[u] = task[u]
                         /\ task'[u] = "completed" => task[u] = "completed"
  BY <1>4, <1>5 DEF Settled, TypeOK
<1>11. SettledTasksAreRecorded'
  BY <1>2, <1>10 DEF SettledTasksAreRecorded
<1>12. CompletedAuditsPaidOnce'
  BY <1>2, <1>10 DEF CompletedAuditsPaidOnce
<1>13. TasksFollowPlacements'
  <2> SUFFICES ASSUME NEW u \in TaskId,
                      \/ u.kind = "audit_object" /\ task'[u] # "none"
                      \/ u.kind = "repair_object" /\ task'[u] = "completed"
               PROVE  placement[u.object][u.node] # "none"
    BY <1>2 DEF TasksFollowPlacements
  <2>1. CASE u.kind = "audit_object" /\ task[u] = "none"
    <3>1. u = t
      BY <1>4, <1>5, <2>1 DEF TypeOK
    <3> QED
      BY <1>2, <1>5, <2>1, <3>1 DEF SelectionsStayPlaced
  <2>2. CASE ~(u.kind = "audit_object" /\ task[u] = "none")
    BY <1>10, <2>2 DEF TasksFollowPlacements
  <2> QED
    BY <2>1, <2>2
<1> QED
  BY <1>6, <1>7, <1>8, <1>9, <1>11, <1>12, <1>13

LEMMA SelectRepairsKeeps ==
  ASSUME IInv, NEW m \in Runner, SelectRepairs(m)
  PROVE  IInv' /\ TaskStep
<1> USE DEF IInv
<1>1. PICK pick \in [{o \in Object : RepairCandidates(o) # {}} -> Node] :
        runner' = [runner EXCEPT
                     ![m].step = "repairs",
                     ![m].todo = {<<o, pick[o]>> : o \in DOMAIN pick}]
  BY DEF SelectRepairs
<1> DEFINE picked == {<<o, pick[o]>> : o \in DOMAIN pick}
<1>2. picked \in SUBSET (Object \X Node)
  OBVIOUS
<1>3. runner' = [runner EXCEPT ![m].step = "repairs", ![m].todo = picked]
  BY <1>1
<1>4. UNCHANGED <<hour, nodeStatus, placement, task, credit, trail, handler>>
  BY DEF SelectRepairs
<1> HIDE DEF picked
<1>5. runner' \in [Runner -> [step : {"idle", "audits", "repairs"},
                             period : Hour, todo : SUBSET (Object \X Node)]]
  <2>1. runner \in [Runner -> [step : {"idle", "audits", "repairs"},
                              period : Hour, todo : SUBSET (Object \X Node)]]
    BY DEF TypeOK
  <2> HIDE DEF IInv
  <2> QED
    BY <1>2, <1>3, <2>1
<1>6. TypeOK'
  BY <1>4, <1>5 DEF TypeOK
<1>7. ReadsStayTrue'
  BY <1>4 DEF ReadsStayTrue
<1>8. SelectionsStayPlaced'
  BY <1>3, <1>4 DEF SelectionsStayPlaced, TypeOK
<1>9. PlacementsStay
  BY <1>4 DEF PlacementsStay
<1> QED
  BY <1>4, <1>6, <1>7, <1>8, <1>9, FrameKeeps DEF TaskStep

(***************************************************************************)
(* A run that ends or is aborted forgets what it selected.                 *)
(***************************************************************************)
LEMMA EndRunKeeps ==
  ASSUME IInv, NEW m \in Runner, FinishRun(m) \/ AbortRun(m)
  PROVE  IInv' /\ TaskStep
<1> USE DEF FinishRun, AbortRun, IInv
<1>1. /\ runner' = [runner EXCEPT ![m] = Idle]
      /\ UNCHANGED <<hour, nodeStatus, placement, task, credit, trail, handler>>
  OBVIOUS
<1>2. TypeOK'
  BY <1>1, HourAssumption DEF TypeOK, Idle, Hour
<1>3. ReadsStayTrue'
  BY <1>1 DEF ReadsStayTrue
<1>4. SelectionsStayPlaced'
  BY <1>1 DEF SelectionsStayPlaced, TypeOK, Idle
<1>5. PlacementsStay
  BY <1>1 DEF PlacementsStay
<1> QED
  BY <1>1, <1>2, <1>3, <1>4, <1>5, FrameKeeps DEF TaskStep

LEMMA NextKeeps ==
  ASSUME IInv, [Next]_vars
  PROVE  IInv' /\ TaskStep
<1>1. CASE UNCHANGED vars
  BY <1>1 DEF vars, IInv, TypeOK, ReadsStayTrue, SelectionsStayPlaced,
     SettledTasksAreRecorded, CompletedAuditsPaidOnce, TasksFollowPlacements,
     Settled, TaskStep
<1>2. ASSUME NEW m \in Runner, InsertAuditTask(m)
      PROVE  IInv' /\ TaskStep
  BY <1>2, InsertTaskKeeps DEF InsertAuditTask
<1>3. ASSUME NEW m \in Runner, InsertRepairTask(m)
      PROVE  IInv' /\ TaskStep
  BY <1>3, InsertTaskKeeps DEF InsertRepairTask
<1> QED
  BY <1>1, <1>2, <1>3, TickKeeps, DisableNodeKeeps, FailPlacementKeeps,
     SelectNodeKeeps, InsertPlacementKeeps, SelectTaskKeeps, CommitTaskKeeps,
     BatchThrowsKeeps, SelectAuditsKeeps, SelectRepairsKeeps, EndRunKeeps
  DEF Next

-----------------------------------------------------------------------------
(***************************************************************************)
(* IInv is invariant.                                                      *)
(***************************************************************************)
LEMMA Invariance == Spec => []IInv
<1>1. Init => IInv
  BY InitEstablishes
<1>2. IInv /\ [Next]_vars => IInv'
  BY NextKeeps
<1> QED
  BY <1>1, <1>2, PTL DEF Spec

(***************************************************************************)
(* Tables, handlers and runs are always well-typed.                        *)
(***************************************************************************)
THEOREM TypeCorrect == Spec => []TypeOK
<1>1. IInv => TypeOK
  BY DEF IInv
<1> QED
  BY <1>1, Invariance, PTL

(***************************************************************************)
(* The audit trail tells of every settled task how it ended, and of no     *)
(* other task that it ended.                                               *)
(***************************************************************************)
THEOREM Recorded == Spec => []SettledTasksAreRecorded
<1>1. IInv => SettledTasksAreRecorded
  BY DEF IInv
<1> QED
  BY <1>1, Invariance, PTL

(***************************************************************************)
(* A completed audit is paid once, and nothing is paid for anything else   *)
(* than a settled audit.                                                   *)
(***************************************************************************)
THEOREM PaidOnce == Spec => []CompletedAuditsPaidOnce
<1>1. IInv => CompletedAuditsPaidOnce
  BY DEF IInv
<1> QED
  BY <1>1, Invariance, PTL

(***************************************************************************)
(* Nodes are asked only for what was placed on them.                       *)
(***************************************************************************)
THEOREM FollowPlacements == Spec => []TasksFollowPlacements
<1>1. IInv => TasksFollowPlacements
  BY DEF IInv
<1> QED
  BY <1>1, Invariance, PTL

(***************************************************************************)
(* No step moves a task back or settles it twice.                          *)
(***************************************************************************)
THEOREM Lifecycle == Spec => TaskLifecycle
<1>1. IInv /\ [Next]_vars => [TaskStep]_vars
  BY NextKeeps
<1>2. [TaskStep]_vars
      => [\A t \in TaskId :
            \/ task'[t] = task[t]
            \/ task[t] = "none" /\ task'[t] = "pending"
            \/ task[t] = "pending" /\ task'[t] = "accepted"
            \/ task[t] = "accepted" /\ task'[t] \in {"completed", "failed"}]_vars
  BY DEF TaskStep
<1> QED
  BY <1>1, <1>2, Invariance, PTL DEF Spec, TaskLifecycle
=============================================================================
