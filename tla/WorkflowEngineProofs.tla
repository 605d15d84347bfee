------------------------ MODULE WorkflowEngineProofs ------------------------
(***************************************************************************)
(* The safety of the workflow lifecycle for every number of rows, names,   *)
(* tenants, callers and faults.                                            *)
(***************************************************************************)
EXTENDS WorkflowEngine, FiniteSetTheorems, TLAPS

(* A caller about to insert was asked for a row. *)
CallersAsked ==
    \A c \in Creator :
        cPc[c] = "insert" => /\ cReq[c].name \in Name
                             /\ cReq[c].user \in User

BoardTypes ==
    /\ stage    \in [Task -> {"absent", "open", "ended"}]
    /\ origin   \in [Task -> Workflow \cup {None}]

EngineInv ==
    /\ EngineTypeOK
    /\ BoardTypes
    /\ CallersAsked
    /\ ActiveUnique
    /\ OneTaskPerWorkflow
    /\ TasksMatchWorkflows
    /\ WorkerOwnsItsRow

LEMMA EngineInitInv == EngineInit => EngineInv
<1> SUFFICES ASSUME EngineInit PROVE EngineInv
  OBVIOUS
<1>1. EngineTypeOK
  BY EngineAssumption
     DEF EngineInit, EngineTypeOK, NoKey, NoRequest, RequestType, IdempotentStatus
<1>2. BoardTypes
  BY DEF EngineInit, BoardInit, BoardTypes
<1>3. CallersAsked
  BY DEF EngineInit, CallersAsked
<1>4. ActiveUnique
  BY DEF EngineInit, ActiveUnique, ActiveStatus
<1>5. OneTaskPerWorkflow /\ TasksMatchWorkflows
  BY NoneAssumption
     DEF EngineInit, BoardInit, OneTaskPerWorkflow, TasksMatchWorkflows, HasTask
<1>6. WorkerOwnsItsRow
  BY NoneAssumption DEF EngineInit, BoardInit, WorkerOwnsItsRow, HasTask, InHand
<1>7. QED
  BY <1>1, <1>2, <1>3, <1>4, <1>5, <1>6 DEF EngineInv

-----------------------------------------------------------------------------
(* Steps that touch neither the rows, nor the tasks, nor the worker. *)
LEMMA CallerOnlyInv ==
    ASSUME EngineInv, EngineTypeOK', CallersAsked',
           UNCHANGED <<wfStatus, wfKey, held, wPc, wBatch, wCur, stage, origin>>
    PROVE  EngineInv'
BY DEF EngineInv, BoardTypes, ActiveUnique, OneTaskPerWorkflow,
       TasksMatchWorkflows, WorkerOwnsItsRow, HasTask, InHand

LEMMA CheckExistsInv ==
    ASSUME EngineInv, NEW c \in Creator, NEW r \in Request, CheckExists(c, r)
    PROVE  EngineInv'
<1>1. /\ r \in RequestType
      /\ [NoRequest EXCEPT !.drop = r.drop] \in RequestType
      /\ NoRequest \in RequestType
  BY DEF Request, RequestType, NoRequest
<1>2. /\ r.user \in User
      /\ r.name \in Name \cup {None}
  BY DEF Request, RequestType
<1>3. EngineTypeOK /\ CallersAsked
  BY DEF EngineInv
<1>4. cReq' \in [Creator -> RequestType] /\ cPc' \in [Creator -> {"idle", "insert", "cancel"}]
  BY <1>1, <1>3 DEF CheckExists, CallerMovesOn, EngineTypeOK
<1>5. EngineTypeOK'
  BY <1>3, <1>4 DEF CheckExists, EngineTypeOK, rowVars, workerVars
<1>6. CallersAsked'
  BY <1>2, <1>3 DEF CheckExists, CallerMovesOn, EngineTypeOK, CallersAsked
<1>7. QED
  BY <1>5, <1>6, CallerOnlyInv DEF CheckExists, rowVars, workerVars, boardVars

LEMMA InsertRefusedInv ==
    ASSUME EngineInv, NEW c \in Creator, InsertRefused(c)
    PROVE  EngineInv'
<1>1. EngineTypeOK /\ CallersAsked
  BY DEF EngineInv
<1>2. /\ [NoRequest EXCEPT !.drop = cReq[c].drop] \in RequestType
      /\ NoRequest \in RequestType
  BY <1>1 DEF EngineTypeOK, RequestType, NoRequest
<1>3. EngineTypeOK'
  BY <1>1, <1>2 DEF InsertRefused, CallerMovesOn, EngineTypeOK, rowVars, workerVars
<1>4. CallersAsked'
  BY <1>1 DEF InsertRefused, CallerMovesOn, EngineTypeOK, CallersAsked
<1>5. QED
  BY <1>3, <1>4, CallerOnlyInv DEF InsertRefused, rowVars, workerVars, boardVars

LEMMA CallerCrashInv ==
    ASSUME EngineInv, NEW c \in Creator, CallerCrash(c)
    PROVE  EngineInv'
<1>1. EngineTypeOK /\ CallersAsked
  BY DEF EngineInv
<1>2. EngineTypeOK'
  BY <1>1 DEF CallerCrash, EngineTypeOK, rowVars, workerVars, NoRequest, RequestType
<1>3. CallersAsked'
  BY <1>1 DEF CallerCrash, EngineTypeOK, CallersAsked
<1>4. QED
  BY <1>2, <1>3, CallerOnlyInv DEF CallerCrash, rowVars, workerVars, boardVars

LEMMA InsertWorkflowInv ==
    ASSUME EngineInv, NEW c \in Creator, NEW w \in Workflow,
           InsertWorkflow(c, w)
    PROVE  EngineInv'
<1>1. EngineTypeOK /\ BoardTypes /\ CallersAsked
  BY DEF EngineInv
<1>2. EngineTypeOK'
  <2>1. [user |-> cReq[c].user, name |-> cReq[c].name] \in Key
    BY <1>1 DEF InsertWorkflow, CallersAsked, Key
  <2>2. cReq[c] \in RequestType /\ cReq[c].held \in BOOLEAN
    BY <1>1 DEF EngineTypeOK, RequestType
  <2>3. [NoRequest EXCEPT !.drop = cReq[c].drop] \in RequestType /\ NoRequest \in RequestType
    BY <2>2 DEF RequestType, NoRequest
  <2>4. /\ cPc' \in [Creator -> {"idle", "insert", "cancel"}]
        /\ cReq' \in [Creator -> RequestType]
    BY <1>1, <2>3 DEF InsertWorkflow, CallerMovesOn, EngineTypeOK
  <2>5. /\ wfStatus' \in [Workflow -> {"absent", "cancelled"} \cup IdempotentStatus]
        /\ wfKey' \in [Workflow -> Key \cup {NoKey}]
        /\ held' \in [Workflow -> BOOLEAN]
        /\ wfDue' \in [Workflow -> BOOLEAN]
    BY <1>1, <2>1, <2>2
       DEF InsertWorkflow, SetStatus, EngineTypeOK, IdempotentStatus
  <2>6. QED
    BY <1>1, <2>4, <2>5 DEF InsertWorkflow, EngineTypeOK, workerVars
<1>3. BoardTypes' /\ CallersAsked'
  BY <1>1
     DEF InsertWorkflow, BoardTypes, CallersAsked, CallerMovesOn, EngineTypeOK,
         boardVars
<1>4. ActiveUnique'
  BY <1>1
     DEF EngineInv, InsertWorkflow, ActiveUnique, KeyTaken, SetStatus,
         EngineTypeOK
<1>5. OneTaskPerWorkflow'
  BY <1>1 DEF EngineInv, InsertWorkflow, OneTaskPerWorkflow, boardVars
<1>6. TasksMatchWorkflows'
  BY <1>1, NoneAssumption
     DEF EngineInv, InsertWorkflow, TasksMatchWorkflows, HasTask, SetStatus,
         boardVars
<1>7. WorkerOwnsItsRow'
  <2>1. wPc' = wPc /\ wBatch' = wBatch /\ wCur' = wCur /\ origin' = origin /\ stage' = stage
    BY DEF InsertWorkflow, workerVars, boardVars
  <2>2. /\ wfStatus[w] = "absent"
        /\ wfStatus' = [wfStatus EXCEPT ![w] = "scheduled"]
        /\ \A v \in Workflow \ {w} : wfKey'[v] = wfKey[v] /\ held'[v] = held[v]
    BY <1>1 DEF InsertWorkflow, SetStatus, CallersAsked, EngineTypeOK
  <2>3. ~HasTask(w) /\ ~InHand(w)
    BY <2>2 DEF EngineInv, WorkerOwnsItsRow
  <2>4. QED
    BY <1>1, <2>1, <2>2, <2>3
       DEF EngineInv, WorkerOwnsItsRow, HasTask, InHand, EngineTypeOK
<1>8. QED
  BY <1>2, <1>3, <1>4, <1>5, <1>6, <1>7 DEF EngineInv

LEMMA CancelWorkflowsInv ==
    ASSUME EngineInv, NEW c \in Creator, CancelWorkflows(c)
    PROVE  EngineInv'
<1>1. EngineTypeOK /\ BoardTypes /\ CallersAsked
  BY DEF EngineInv
<1>2. EngineTypeOK'
  BY <1>1 DEF CancelWorkflows, EngineTypeOK, NoRequest, RequestType, workerVars
<1>3. BoardTypes' /\ CallersAsked'
  BY <1>1 DEF CancelWorkflows, BoardTypes, CallersAsked, boardVars
<1>4. ActiveUnique'
  BY <1>1 DEF EngineInv, CancelWorkflows, ActiveUnique
<1>5. OneTaskPerWorkflow'
  BY <1>1 DEF EngineInv, CancelWorkflows, OneTaskPerWorkflow, boardVars
<1>6. TasksMatchWorkflows'
  BY <1>1, NoneAssumption
     DEF EngineInv, CancelWorkflows, TasksMatchWorkflows, HasTask, boardVars
<1>7. WorkerOwnsItsRow'
  BY <1>1, NoneAssumption
     DEF EngineInv, CancelWorkflows, WorkerOwnsItsRow, HasTask, InHand,
         boardVars, workerVars
<1>8. QED
  BY <1>2, <1>3, <1>4, <1>5, <1>6, <1>7 DEF EngineInv

LEMMA WorkerPollInv ==
    ASSUME EngineInv, WorkerPoll
    PROVE  EngineInv'
<1>1. EngineTypeOK /\ BoardTypes /\ CallersAsked
  BY DEF EngineInv
<1>2. EngineTypeOK'
  BY <1>1 DEF WorkerPoll, EngineTypeOK, rowVars, callerVars, PendingWorkflows
<1>3. BoardTypes' /\ CallersAsked'
  BY <1>1 DEF WorkerPoll, BoardTypes, CallersAsked, callerVars, boardVars
<1>4. ActiveUnique'
  BY <1>1 DEF EngineInv, WorkerPoll, ActiveUnique, rowVars
<1>5. OneTaskPerWorkflow'
  BY <1>1 DEF EngineInv, WorkerPoll, OneTaskPerWorkflow, boardVars
<1>6. TasksMatchWorkflows'
  BY <1>1, NoneAssumption
     DEF EngineInv, WorkerPoll, TasksMatchWorkflows, HasTask, boardVars,
         rowVars
<1>7. WorkerOwnsItsRow'
  BY <1>1, NoneAssumption
     DEF EngineInv, WorkerPoll, WorkerOwnsItsRow, HasTask, InHand, boardVars,
         rowVars, PendingWorkflows
<1>8. QED
  BY <1>2, <1>3, <1>4, <1>5, <1>6, <1>7 DEF EngineInv

LEMMA WorkerEndPollInv ==
    ASSUME EngineInv, WorkerEndPoll
    PROVE  EngineInv'
<1>1. EngineTypeOK /\ BoardTypes /\ CallersAsked
  BY DEF EngineInv
<1>2. EngineTypeOK'
  BY <1>1 DEF WorkerEndPoll, EngineTypeOK, rowVars, callerVars
<1>3. BoardTypes' /\ CallersAsked'
  BY <1>1 DEF WorkerEndPoll, BoardTypes, CallersAsked, callerVars, boardVars
<1>4. ActiveUnique'
  BY <1>1 DEF EngineInv, WorkerEndPoll, ActiveUnique, rowVars
<1>5. OneTaskPerWorkflow'
  BY <1>1 DEF EngineInv, WorkerEndPoll, OneTaskPerWorkflow, boardVars
<1>6. TasksMatchWorkflows'
  BY <1>1, NoneAssumption
     DEF EngineInv, WorkerEndPoll, TasksMatchWorkflows, HasTask, boardVars,
         rowVars
<1>7. WorkerOwnsItsRow'
  BY <1>1, NoneAssumption
     DEF EngineInv, WorkerEndPoll, WorkerOwnsItsRow, HasTask, InHand,
         boardVars, rowVars
<1>8. QED
  BY <1>2, <1>3, <1>4, <1>5, <1>6, <1>7 DEF EngineInv

LEMMA RejectWorkflowInv ==
    ASSUME EngineInv, RejectWorkflow
    PROVE  EngineInv'
<1>1. EngineTypeOK /\ BoardTypes /\ CallersAsked
  BY DEF EngineInv
<1>2. EngineTypeOK'
  BY <1>1 DEF RejectWorkflow, EngineTypeOK, SetStatus, callerVars
<1>3. BoardTypes' /\ CallersAsked'
  BY <1>1 DEF RejectWorkflow, BoardTypes, CallersAsked, callerVars, boardVars
<1>4. ActiveUnique'
  BY <1>1 DEF EngineInv, RejectWorkflow, ActiveUnique, ActiveStatus, SetStatus
<1>5. OneTaskPerWorkflow'
  BY <1>1 DEF EngineInv, RejectWorkflow, OneTaskPerWorkflow, boardVars
<1>6. TasksMatchWorkflows'
  BY <1>1, NoneAssumption
     DEF EngineInv, RejectWorkflow, TasksMatchWorkflows, HasTask, SetStatus,
         boardVars
<1>7. WorkerOwnsItsRow'
  BY <1>1, NoneAssumption
     DEF EngineInv, RejectWorkflow, WorkerOwnsItsRow, HasTask, InHand,
         SetStatus, EngineTypeOK, boardVars
<1>8. QED
  BY <1>2, <1>3, <1>4, <1>5, <1>6, <1>7 DEF EngineInv

LEMMA StartWorkflowInv ==
    ASSUME EngineInv, StartWorkflow
    PROVE  EngineInv'
<1>1. EngineTypeOK /\ BoardTypes /\ CallersAsked
  BY DEF EngineInv
<1>2. EngineTypeOK'
  BY <1>1
     DEF StartWorkflow, EngineTypeOK, SetStatus, IdempotentStatus, callerVars
<1>3. BoardTypes' /\ CallersAsked'
  BY <1>1 DEF StartWorkflow, BoardTypes, CallersAsked, callerVars, boardVars
<1>4. ActiveUnique'
  BY <1>1
     DEF EngineInv, StartWorkflow, ActiveUnique, KeyTaken, SetStatus,
         EngineTypeOK
<1>5. OneTaskPerWorkflow'
  BY <1>1 DEF EngineInv, StartWorkflow, OneTaskPerWorkflow, boardVars
<1>6. TasksMatchWorkflows'
  BY <1>1, NoneAssumption
     DEF EngineInv, StartWorkflow, TasksMatchWorkflows, HasTask, SetStatus,
         EngineTypeOK, boardVars
<1>7. WorkerOwnsItsRow'
  BY <1>1, NoneAssumption
     DEF EngineInv, StartWorkflow, WorkerOwnsItsRow, HasTask, InHand,
         SetStatus, EngineTypeOK, boardVars
<1>8. QED
  BY <1>2, <1>3, <1>4, <1>5, <1>6, <1>7 DEF EngineInv

LEMMA TaskRaisesInv ==
    ASSUME EngineInv, TaskRaises
    PROVE  EngineInv'
<1>1. EngineTypeOK /\ BoardTypes /\ CallersAsked
  BY DEF EngineInv
<1>2. EngineTypeOK'
  BY <1>1 DEF TaskRaises, EngineTypeOK, rowVars, callerVars
<1>3. BoardTypes' /\ CallersAsked'
  BY <1>1
     DEF TaskRaises, BoardTypes, CallersAsked, EngineTypeOK, callerVars,
         boardVars, Insert
<1>4. ActiveUnique'
  BY <1>1 DEF EngineInv, TaskRaises, ActiveUnique, rowVars
<1>5. OneTaskPerWorkflow'
  BY <1>1
     DEF EngineInv, TaskRaises, OneTaskPerWorkflow, boardVars, BoardTypes,
         WorkerOwnsItsRow, HasTask, Insert
<1>6. TasksMatchWorkflows'
  BY <1>1, NoneAssumption
     DEF EngineInv, TaskRaises, TasksMatchWorkflows, WorkerOwnsItsRow, HasTask,
         BoardTypes, boardVars, rowVars, Insert
<1>7. WorkerOwnsItsRow'
  BY <1>1, NoneAssumption
     DEF EngineInv, TaskRaises, WorkerOwnsItsRow, HasTask, InHand, BoardTypes,
         boardVars, rowVars, Insert
<1>8. QED
  BY <1>2, <1>3, <1>4, <1>5, <1>6, <1>7 DEF EngineInv

LEMMA FinishWorkflowInv ==
    ASSUME EngineInv, FinishWorkflow
    PROVE  EngineInv'
<1>1. EngineTypeOK /\ BoardTypes /\ CallersAsked
  BY DEF EngineInv
<1>2. EngineTypeOK'
  BY <1>1
     DEF FinishWorkflow, EngineTypeOK, SetStatus, IdempotentStatus, callerVars
<1>3. BoardTypes' /\ CallersAsked'
  BY <1>1 DEF FinishWorkflow, BoardTypes, CallersAsked, callerVars, boardVars
<1>4. ActiveUnique'
  BY <1>1
     DEF EngineInv, FinishWorkflow, ActiveUnique, ActiveStatus, SetStatus,
         EngineTypeOK
<1>5. OneTaskPerWorkflow'
  BY <1>1 DEF EngineInv, FinishWorkflow, OneTaskPerWorkflow, boardVars
<1>6. TasksMatchWorkflows'
  BY <1>1, NoneAssumption
     DEF EngineInv, FinishWorkflow, TasksMatchWorkflows, WorkerOwnsItsRow,
         HasTask, SetStatus, EngineTypeOK, boardVars
<1>7. WorkerOwnsItsRow'
  BY <1>1, NoneAssumption
     DEF EngineInv, FinishWorkflow, WorkerOwnsItsRow, HasTask, InHand,
         SetStatus, EngineTypeOK, boardVars
<1>8. QED
  BY <1>2, <1>3, <1>4, <1>5, <1>6, <1>7 DEF EngineInv

LEMMA WorkerRefusedInv ==
    ASSUME EngineInv, WorkerRefused
    PROVE  EngineInv'
<1>1. EngineTypeOK /\ BoardTypes /\ CallersAsked
  BY DEF EngineInv
<1>2. EngineTypeOK'
  BY <1>1, EngineAssumption
     DEF WorkerRefused, EngineTypeOK, rowVars, callerVars
<1>3. BoardTypes' /\ CallersAsked'
  BY <1>1 DEF WorkerRefused, BoardTypes, CallersAsked, callerVars, boardVars
<1>4. ActiveUnique'
  BY <1>1 DEF EngineInv, WorkerRefused, ActiveUnique, rowVars
<1>5. OneTaskPerWorkflow'
  BY <1>1 DEF EngineInv, WorkerRefused, OneTaskPerWorkflow, boardVars
<1>6. TasksMatchWorkflows'
  BY <1>1, NoneAssumption
     DEF EngineInv, WorkerRefused, TasksMatchWorkflows, HasTask, boardVars,
         rowVars
<1>7. WorkerOwnsItsRow'
  BY <1>1, NoneAssumption
     DEF EngineInv, WorkerRefused, WorkerOwnsItsRow, HasTask, InHand,
         EngineTypeOK, boardVars, rowVars
<1>8. QED
  BY <1>2, <1>3, <1>4, <1>5, <1>6, <1>7 DEF EngineInv

LEMMA WorkerCrashInv ==
    ASSUME EngineInv, WorkerCrash
    PROVE  EngineInv'
<1>1. EngineTypeOK /\ BoardTypes /\ CallersAsked
  BY DEF EngineInv
<1>2. EngineTypeOK'
  BY <1>1, EngineAssumption DEF WorkerCrash, EngineTypeOK, rowVars, callerVars
<1>3. BoardTypes' /\ CallersAsked'
  BY <1>1 DEF WorkerCrash, BoardTypes, CallersAsked, callerVars, boardVars
<1>4. ActiveUnique'
  BY <1>1 DEF EngineInv, WorkerCrash, ActiveUnique, rowVars
<1>5. OneTaskPerWorkflow'
  BY <1>1 DEF EngineInv, WorkerCrash, OneTaskPerWorkflow, boardVars
<1>6. TasksMatchWorkflows'
  BY <1>1, NoneAssumption
     DEF EngineInv, WorkerCrash, TasksMatchWorkflows, HasTask, boardVars,
         rowVars
<1>7. WorkerOwnsItsRow'
  BY <1>1, NoneAssumption
     DEF EngineInv, WorkerCrash, WorkerOwnsItsRow, HasTask, InHand, boardVars,
         rowVars
<1>8. QED
  BY <1>2, <1>3, <1>4, <1>5, <1>6, <1>7 DEF EngineInv

LEMMA ValidateInv ==
    ASSUME EngineInv, NEW w \in Workflow, Validate(w)
    PROVE  EngineInv'
<1>1. EngineTypeOK /\ BoardTypes /\ CallersAsked
  BY DEF EngineInv
<1>2. EngineTypeOK'
  BY <1>1 DEF Validate, EngineTypeOK, rowVars, callerVars
<1>3. BoardTypes' /\ CallersAsked'
  BY <1>1 DEF Validate, BoardTypes, CallersAsked, callerVars, boardVars
<1>4. ActiveUnique'
  BY <1>1 DEF EngineInv, Validate, ActiveUnique, rowVars
<1>5. OneTaskPerWorkflow'
  BY <1>1 DEF EngineInv, Validate, OneTaskPerWorkflow, boardVars
<1>6. TasksMatchWorkflows'
  BY <1>1, NoneAssumption
     DEF EngineInv, Validate, TasksMatchWorkflows, HasTask, boardVars, rowVars
<1>7. WorkerOwnsItsRow'
  BY <1>1, NoneAssumption
     DEF EngineInv, Validate, WorkerOwnsItsRow, HasTask, InHand, boardVars,
         rowVars, Valid
<1>8. QED
  BY <1>2, <1>3, <1>4, <1>5, <1>6, <1>7 DEF EngineInv

LEMMA CreateAiTaskInv ==
    ASSUME EngineInv, NEW t \in Task, CreateAiTask(t)
    PROVE  EngineInv'
<1>1. EngineTypeOK /\ BoardTypes /\ CallersAsked
  BY DEF EngineInv
<1>2. EngineTypeOK'
  BY <1>1 DEF CreateAiTask, EngineTypeOK, rowVars, callerVars
<1>3. BoardTypes' /\ CallersAsked'
  BY <1>1
     DEF CreateAiTask, BoardTypes, CallersAsked, EngineTypeOK, callerVars,
         Insert
<1>4. ActiveUnique'
  BY <1>1 DEF EngineInv, CreateAiTask, ActiveUnique, rowVars
<1>5. OneTaskPerWorkflow'
  BY <1>1
     DEF EngineInv, CreateAiTask, OneTaskPerWorkflow, BoardTypes,
         WorkerOwnsItsRow, HasTask, Insert
<1>6. TasksMatchWorkflows'
  BY <1>1, NoneAssumption
     DEF EngineInv, CreateAiTask, TasksMatchWorkflows, WorkerOwnsItsRow,
         HasTask, rowVars, Insert
<1>7. WorkerOwnsItsRow'
  BY <1>1, NoneAssumption
     DEF EngineInv, CreateAiTask, WorkerOwnsItsRow, HasTask, InHand,
         BoardTypes, rowVars, Insert
<1>8. QED
  BY <1>2, <1>3, <1>4, <1>5, <1>6, <1>7 DEF EngineInv

LEMMA BoardStepInv ==
    ASSUME EngineInv, BoardStep /\ UNCHANGED engineVars
    PROVE  EngineInv'
<1>1. EngineTypeOK /\ BoardTypes /\ CallersAsked
  BY DEF EngineInv
<1>2. PICK t \in Task :
         /\ origin' = origin
         /\ stage[t] = "open"
         /\ stage' = stage \/ stage' = [stage EXCEPT ![t] = "ended"]
  BY DEF BoardStep, Attempt, End
<1>3. EngineTypeOK' /\ CallersAsked'
  BY <1>1 DEF engineVars, rowVars, callerVars, workerVars, EngineTypeOK, CallersAsked
<1>4. BoardTypes'
  BY <1>1, <1>2 DEF BoardTypes
<1>5. ActiveUnique' /\ OneTaskPerWorkflow' /\ TasksMatchWorkflows'
  BY <1>1, <1>2
     DEF EngineInv, engineVars, rowVars, ActiveUnique, OneTaskPerWorkflow,
         TasksMatchWorkflows, HasTask
<1>6. WorkerOwnsItsRow'
  BY <1>1, <1>2
     DEF EngineInv, engineVars, rowVars, workerVars, WorkerOwnsItsRow, HasTask,
         InHand, BoardTypes
<1>7. QED
  BY <1>3, <1>4, <1>5, <1>6 DEF EngineInv

(* Every step of the engine preserves the invariant. *)
LEMMA EngineStepInv ==
    ASSUME EngineInv, [EngineNext]_allVars
    PROVE  EngineInv'
<1>1. ASSUME NEW c \in Creator, CallerStep(c)
      PROVE  EngineInv'
  BY <1>1, CheckExistsInv, InsertWorkflowInv, InsertRefusedInv,
     CancelWorkflowsInv, CallerCrashInv
     DEF CallerStep
<1>2. CASE WorkerStep
  BY <1>2, WorkerPollInv, WorkerEndPollInv, ValidateInv, RejectWorkflowInv,
     StartWorkflowInv, CreateAiTaskInv, TaskRaisesInv, FinishWorkflowInv
     DEF WorkerStep
<1>3. CASE WorkerRefused \/ WorkerCrash
  BY <1>3, WorkerRefusedInv, WorkerCrashInv
<1>4. ASSUME NEW w \in Workflow, FallsDue(w)
      PROVE  EngineInv'
  <2>1. EngineTypeOK' /\ CallersAsked'
    BY <1>4 DEF FallsDue, EngineInv, EngineTypeOK, CallersAsked, callerVars, workerVars
  <2>2. QED
    BY <1>4, <2>1, CallerOnlyInv DEF FallsDue, workerVars, boardVars
<1>5. ASSUME NEW n \in Critical, EntityChanges(n)
      PROVE  EngineInv'
  <2>1. EngineTypeOK' /\ CallersAsked'
    BY <1>5 DEF EntityChanges, EngineInv, EngineTypeOK, CallersAsked, rowVars,
                callerVars, workerVars
  <2>2. QED
    BY <1>5, <2>1, CallerOnlyInv DEF EntityChanges, rowVars, workerVars, boardVars
<1>6. CASE UNCHANGED allVars
  <2>1. EngineTypeOK' /\ CallersAsked'
    BY <1>6 DEF allVars, engineVars, EngineInv, EngineTypeOK, CallersAsked,
                rowVars, callerVars, workerVars
  <2>2. QED
    BY <1>6, <2>1, CallerOnlyInv
       DEF allVars, engineVars, rowVars, workerVars, boardVars
<1>7. QED
  BY <1>1, <1>2, <1>3, <1>4, <1>5, <1>6, BoardStepInv DEF EngineNext

-----------------------------------------------------------------------------
(* The inductive invariant holds in every reachable state. *)
THEOREM EngineInvariance == EngineSpec => []EngineInv
<1>1. EngineInv /\ [EngineNext]_allVars => EngineInv'
  BY EngineStepInv
<1>2. QED
  BY <1>1, EngineInitInv, PTL DEF EngineSpec

(* Rows, callers and worker keep their types. *)
THEOREM EngineTypeCorrect == EngineSpec => []EngineTypeOK
BY EngineInvariance, PTL DEF EngineInv

(* Races of create_workflow, cancellations and revivals by the worker      *)
(* never leave two active rows with one key.                               *)
THEOREM ActiveUniqueHolds == EngineSpec => []ActiveUnique
BY EngineInvariance, PTL DEF EngineInv

(* create_ai_task is reached at most once for a row, over any number of    *)
(* polls, crashes, refused writes and cancellations.                       *)
THEOREM OneTaskPerWorkflowHolds == EngineSpec => []OneTaskPerWorkflow
BY EngineInvariance, PTL DEF EngineInv

(* A task belongs to a started row, never to one awaiting approval, and a  *)
(* completed row has one.                                                  *)
THEOREM TasksMatchWorkflowsHolds == EngineSpec => []TasksMatchWorkflows
BY EngineInvariance, PTL DEF EngineInv

(* Both together: what the runs check of a workflow's tasks.               *)
THEOREM TasksOfWorkflowsHolds == EngineSpec => []TasksOfWorkflows
BY EngineInvariance, PTL DEF EngineInv, TasksOfWorkflows

(* The worker does to a row only what it has not yet done. *)
THEOREM WorkerOwnsItsRowHolds == EngineSpec => []WorkerOwnsItsRow
BY EngineInvariance, PTL DEF EngineInv

(* A cancellation outside the worker's hands is final. *)
THEOREM CancelledStaysHolds == EngineSpec => CancelledStays
<1>1. EngineInv /\ [EngineNext]_allVars
        => [\A w \in Workflow :
              wfStatus[w] = "cancelled" /\ ~InHand(w)
                => /\ wfStatus'[w] = "cancelled"
                   /\ ~InHand(w)'
                   /\ HasTask(w)' => HasTask(w)]_allVars
  <2> SUFFICES ASSUME EngineInv, EngineNext, NEW w \in Workflow,
                      wfStatus[w] = "cancelled", ~InHand(w)
               PROVE  wfStatus'[w] = "cancelled" /\ ~InHand(w)' /\ (HasTask(w)' => HasTask(w))
    OBVIOUS
  <2>1. /\ w \notin wBatch /\ w # wCur /\ w # None
        /\ wfStatus \in [Workflow -> {"absent", "cancelled"} \cup IdempotentStatus]
        /\ origin \in [Task -> Workflow \cup {None}]
        /\ wPc \in {"idle", "loop"} <=> wCur = None
        /\ wCur \in Workflow \cup {None}
    BY NoneAssumption DEF EngineInv, EngineTypeOK, BoardTypes, InHand, WorkerOwnsItsRow
  <2>2. ASSUME NEW c \in Creator, CallerStep(c)
        PROVE  wfStatus'[w] = "cancelled" /\ ~InHand(w)' /\ (HasTask(w)' => HasTask(w))
    BY <2>1, <2>2
       DEF CallerStep, CheckExists, InsertWorkflow, InsertRefused, CancelWorkflows,
           CallerCrash,
           SetStatus, ActiveStatus, rowVars, workerVars, boardVars, InHand, HasTask
  <2>3. CASE WorkerStep
    BY <2>1, <2>3
       DEF WorkerStep, WorkerPoll, WorkerEndPoll, Validate, RejectWorkflow,
           StartWorkflow, CreateAiTask, TaskRaises, FinishWorkflow,
           PendingWorkflows, Insert, SetStatus, rowVars, boardVars, InHand, HasTask
  <2>4. CASE WorkerRefused \/ WorkerCrash
    BY <2>1, <2>4 DEF WorkerRefused, WorkerCrash, rowVars, boardVars, InHand, HasTask
  <2>5. ASSUME NEW v \in Workflow, FallsDue(v)
        PROVE  wfStatus'[w] = "cancelled" /\ ~InHand(w)' /\ (HasTask(w)' => HasTask(w))
    BY <2>1, <2>5 DEF FallsDue, workerVars, boardVars, InHand, HasTask
  <2>6. ASSUME NEW n \in Critical, EntityChanges(n)
        PROVE  wfStatus'[w] = "cancelled" /\ ~InHand(w)' /\ (HasTask(w)' => HasTask(w))
    BY <2>1, <2>6 DEF EntityChanges, rowVars, workerVars, boardVars, InHand, HasTask
  <2>7. CASE BoardStep /\ UNCHANGED engineVars
    BY <2>1, <2>7
       DEF BoardStep, Attempt, End, engineVars, rowVars, workerVars, InHand, HasTask
  <2>8. QED
    BY <2>2, <2>3, <2>4, <2>5, <2>6, <2>7 DEF EngineNext
<1>2. QED
  BY <1>1, EngineInvariance, PTL DEF EngineSpec, CancelledStays

-----------------------------------------------------------------------------
AbandonedRows == {w \in Workflow : Abandoned(w)}

(* A step abandons nothing unless it is a fault, which abandons at most    *)
(* the row the worker holds.                                               *)
LEMMA AbandonedStep ==
    ASSUME EngineInv, [EngineNext]_allVars
    PROVE  \/ AbandonedRows' \subseteq AbandonedRows /\ wFaults' = wFaults
           \/ AbandonedRows' \subseteq AbandonedRows \cup {wCur} /\ wFaults' = wFaults + 1
<1> USE DEF AbandonedRows, Abandoned
<1>1. /\ wfStatus \in [Workflow -> {"absent", "cancelled"} \cup IdempotentStatus]
      /\ wPc \in {"idle", "loop"} <=> wCur = None
      /\ wCur \in Workflow \cup {None}
      /\ \A w \in wBatch : wfStatus[w] \in {"scheduled", "cancelled"}
      /\ wPc \in {"reject", "start"} => wfStatus[wCur] \in {"scheduled", "cancelled"}
  BY NoneAssumption DEF EngineInv, EngineTypeOK, WorkerOwnsItsRow
<1>2. ASSUME NEW c \in Creator, CallerStep(c)
      PROVE  AbandonedRows' \subseteq AbandonedRows /\ wFaults' = wFaults
  BY <1>1, <1>2
     DEF CallerStep, CheckExists, InsertWorkflow, InsertRefused, CancelWorkflows,
           CallerCrash,
         SetStatus, rowVars, workerVars
<1>3. CASE WorkerStep
  <2>1. CASE WorkerPoll \/ WorkerEndPoll \/ \E w \in Workflow : Validate(w)
    BY <1>1, <2>1, NoneAssumption DEF WorkerPoll, WorkerEndPoll, Validate, rowVars
  <2>2. CASE RejectWorkflow \/ FinishWorkflow
    BY <1>1, <2>2 DEF RejectWorkflow, FinishWorkflow, SetStatus
  <2>3. CASE StartWorkflow
    BY <1>1, <2>3 DEF StartWorkflow, SetStatus
  <2>4. CASE TaskRaises \/ \E t \in Task : CreateAiTask(t)
    BY <1>1, <2>4 DEF CreateAiTask, TaskRaises, rowVars
  <2>5. QED
    BY <1>3, <2>1, <2>2, <2>3, <2>4 DEF WorkerStep
<1>4. CASE WorkerRefused \/ WorkerCrash
  BY <1>1, <1>4 DEF WorkerRefused, WorkerCrash, rowVars
<1>5. CASE \/ \E w \in Workflow : FallsDue(w)
           \/ \E n \in Critical : EntityChanges(n)
           \/ BoardStep /\ UNCHANGED engineVars
           \/ UNCHANGED allVars
  BY <1>5 DEF FallsDue, EntityChanges, engineVars, allVars, rowVars, workerVars
<1>6. QED
  BY <1>2, <1>3, <1>4, <1>5 DEF EngineNext

(* The rows left running for ever are at most as many as the worker's      *)
(* crashes and refused writes.                                             *)
THEOREM AbandonedByFaultHolds == EngineSpec => []AbandonedByFault
<1> DEFINE Counted == IsFiniteSet(AbandonedRows) /\ Cardinality(AbandonedRows) <= wFaults
<1>1. EngineInit => Counted
  <2> SUFFICES ASSUME EngineInit PROVE Counted
    OBVIOUS
  <2>1. AbandonedRows = {} /\ wFaults = 0
    BY DEF EngineInit, AbandonedRows, Abandoned
  <2>2. QED
    BY <2>1, FS_EmptySet
<1>2. EngineInv /\ Counted /\ [EngineNext]_allVars => Counted'
  <2> SUFFICES ASSUME EngineInv, Counted, [EngineNext]_allVars PROVE Counted'
    OBVIOUS
  <2>1. wFaults \in Nat
    BY EngineAssumption DEF EngineInv, EngineTypeOK
  <2>2. Cardinality(AbandonedRows) \in Nat
    BY FS_CardinalityType
  <2>3. CASE AbandonedRows' \subseteq AbandonedRows /\ wFaults' = wFaults
    <3>1. /\ IsFiniteSet(AbandonedRows')
          /\ Cardinality(AbandonedRows') <= Cardinality(AbandonedRows)
          /\ Cardinality(AbandonedRows') \in Nat
      BY <2>3, FS_Subset, FS_CardinalityType
    <3>2. QED
      BY <2>1, <2>2, <2>3, <3>1
  <2>4. CASE AbandonedRows' \subseteq AbandonedRows \cup {wCur} /\ wFaults' = wFaults + 1
    <3>1. /\ IsFiniteSet(AbandonedRows \cup {wCur})
          /\ Cardinality(AbandonedRows \cup {wCur}) <= Cardinality(AbandonedRows) + 1
          /\ Cardinality(AbandonedRows \cup {wCur}) \in Nat
      <4>1. IsFiniteSet(AbandonedRows)
        OBVIOUS
      <4>2. /\ IsFiniteSet(AbandonedRows \cup {wCur})
            /\ Cardinality(AbandonedRows \cup {wCur})
                  = IF wCur \in AbandonedRows THEN Cardinality(AbandonedRows)
                    ELSE Cardinality(AbandonedRows) + 1
        BY <4>1, FS_AddElement
      <4>3. QED
        BY <2>2, <4>2
    <3>2. /\ IsFiniteSet(AbandonedRows')
          /\ Cardinality(AbandonedRows') <= Cardinality(AbandonedRows \cup {wCur})
          /\ Cardinality(AbandonedRows') \in Nat
      BY <2>4, <3>1, FS_Subset, FS_CardinalityType
    <3>3. QED
      BY <2>1, <2>2, <2>4, <3>1, <3>2
  <2>5. QED
    BY <2>3, <2>4, AbandonedStep
<1>3. Counted => AbandonedByFault
  BY DEF AbandonedByFault, AbandonedRows
<1>4. QED
  BY <1>1, <1>2, <1>3, EngineInvariance, PTL DEF EngineSpec
=============================================================================
