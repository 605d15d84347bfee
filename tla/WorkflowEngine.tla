--------------------------- MODULE WorkflowEngine ---------------------------
(***************************************************************************)
(* The workflow lifecycle: the table workflow_instances, the processes     *)
(* that create and cancel rows (workflow_service.py called by              *)
(* action_engine.py and planner_runtime.py), and the worker that runs them *)
(* (workflow_worker.py), on top of the task table's promise (TaskBoard).   *)
(*                                                                         *)
(* The rows are those of one entity: every query names the entity, so rows *)
(* of two entities never meet.  A row is identified by its id and keyed by *)
(* its tenant and workflow name.  Each SQL transaction is one step; what a *)
(* caller does between two transactions interleaves with everything else.  *)
(*                                                                         *)
(* Abstractions: a scheduled_at in the past is a flag; the plan metadata   *)
(* is reduced to "held" (requires_approval and not approved); the store or *)
(* item a critical workflow re-reads is a flag per name; logs and the      *)
(* best-effort campaign launch are left out.                               *)
(***************************************************************************)
EXTENDS TaskBoard, FiniteSets

CONSTANTS
    Name,        \* workflow names
    Critical,    \* CRITICAL_WORKFLOW_NAMES
    User,        \* tenants
    Creator,     \* processes that create and cancel: the listener, the API
    MaxFaults    \* bound: worker crashes and refused writes

ASSUME EngineAssumption ==
    /\ Critical \subseteq Name
    /\ MaxFaults \in Nat
    /\ None \notin Name \cup User

VARIABLES
    \* the columns of workflow_instances
    wfStatus,    \* status, or "absent" for a row not inserted yet
    wfKey,       \* user_id and workflow_name
    held,        \* metadata: requires_approval without approved
    wfDue,       \* scheduled_at has passed
    \* the callers of create_workflow and cancel_workflows
    cPc,         \* next transaction of the caller
    cReq,        \* what the caller was asked to do
    \* the worker
    wPc,         \* where execute_workflow stands
    wBatch,      \* rows of the current poll not visited yet
    wCur,        \* the row it executes
    \* environment and history
    entityOk,    \* the entity still warrants the critical workflow
    wFaults      \* how many faults the worker met

rowVars    == <<wfStatus, wfKey, held, wfDue>>
callerVars == <<cPc, cReq>>
workerVars == <<wPc, wBatch, wCur>>
engineVars == <<rowVars, callerVars, workerVars, entityOk, wFaults>>
allVars    == <<engineVars, boardVars>>

-----------------------------------------------------------------------------
ActiveStatus     == {"scheduled", "running"}
IdempotentStatus == {"scheduled", "running", "completed"}

Key == [user : User, name : Name]

(* What a caller is asked: create a row (name), then cancel rows (drop).   *)
(* A schedule may ask for any name to be held, a critical one too; no      *)
(* caller of cancel_workflows leaves its name out.                         *)
RequestType ==
    [user : User \cup {None}, name : Name \cup {None}, held : BOOLEAN, drop : Name \cup {None}]

Request ==
    {r \in RequestType :
        /\ r.user # None
        /\ r.name # None \/ r.drop # None}

NoKey     == [user |-> None, name |-> None]
NoRequest == [user |-> None, name |-> None, held |-> FALSE, drop |-> None]

(* workflow_exists: any tenant's row of the name counts. *)
WorkflowExists(n) ==
    \E w \in Workflow : wfStatus[w] \in IdempotentStatus /\ wfKey[w].name = n

(* Slip: an index over scheduled rows only. *)
KeyTakenByScheduled(k, w) ==
    \E v \in Workflow \ {w} : wfStatus[v] = "scheduled" /\ wfKey[v] = k

(* idx_workflow_active_unique: another active row has the key. *)
KeyTaken(k, w) ==
    \E v \in Workflow \ {w} : wfStatus[v] \in ActiveStatus /\ wfKey[v] = k

(* Slips: a poll that also takes rows back. *)
PendingOrRunning   == {w \in Workflow : wfStatus[w] \in ActiveStatus}
PendingOrCancelled == {w \in Workflow : wfStatus[w] \in {"scheduled", "cancelled"}}

(* get_pending_workflows. *)
PendingWorkflows == {w \in Workflow : wfStatus[w] = "scheduled"}

(* validate_workflow: a critical name re-reads its entity and never looks  *)
(* at the approval, any other name looks only at the approval.             *)
Valid(w) ==
    IF wfKey[w].name \in Critical THEN entityOk[wfKey[w].name] ELSE ~held[w]

SetStatus(w, s) == wfStatus' = [wfStatus EXCEPT ![w] = s]

-----------------------------------------------------------------------------
EngineInit ==
    /\ BoardInit
    /\ wfStatus = [w \in Workflow |-> "absent"]
    /\ wfKey    = [w \in Workflow |-> NoKey]
    /\ held     = [w \in Workflow |-> FALSE]
    /\ wfDue    = [w \in Workflow |-> FALSE]
    /\ cPc      = [c \in Creator |-> "idle"]
    /\ cReq     = [c \in Creator |-> NoRequest]
    /\ wPc      = "idle"
    /\ wBatch   = {}
    /\ wCur     = None
    /\ entityOk \in [Critical -> BOOLEAN]
    /\ wFaults  = 0

(* Where a caller goes once its creation is settled. *)
CallerMovesOn(c, r) ==
    IF r.drop = None
    THEN cPc' = [cPc EXCEPT ![c] = "idle"] /\ cReq' = [cReq EXCEPT ![c] = NoRequest]
    ELSE /\ cPc' = [cPc EXCEPT ![c] = "cancel"]
         /\ cReq' = [cReq EXCEPT ![c] = [NoRequest EXCEPT !.drop = r.drop]]

(* create_workflow's check, a transaction of its own. *)
CheckExists(c, r) ==
    /\ cPc[c] = "idle"
    /\ IF r.name = None \/ WorkflowExists(r.name)
       THEN CallerMovesOn(c, r)
       ELSE cPc' = [cPc EXCEPT ![c] = "insert"] /\ cReq' = [cReq EXCEPT ![c] = r]
    /\ UNCHANGED <<rowVars, workerVars, entityOk, wFaults, boardVars>>

(* create_workflow's insert. *)
InsertWorkflow(c, w) ==
    LET r == cReq[c]
        k == [user |-> r.user, name |-> r.name]
    IN  /\ cPc[c] = "insert"
        /\ wfStatus[w] = "absent"
        /\ ~KeyTaken(k, w)
        /\ SetStatus(w, "scheduled")
        /\ wfKey' = [wfKey EXCEPT ![w] = k]
        /\ held' = [held EXCEPT ![w] = r.held]
        /\ \E d \in BOOLEAN : wfDue' = [wfDue EXCEPT ![w] = d]
        /\ CallerMovesOn(c, r)
        /\ UNCHANGED <<workerVars, entityOk, wFaults, boardVars>>

(* The index refuses the insert (IntegrityError): another caller won. *)
InsertRefused(c) ==
    /\ cPc[c] = "insert"
    /\ KeyTaken([user |-> cReq[c].user, name |-> cReq[c].name], None)
    /\ CallerMovesOn(c, cReq[c])
    /\ UNCHANGED <<rowVars, workerVars, entityOk, wFaults, boardVars>>

(* cancel_workflows: one update over every tenant's active rows of a name. *)
CancelWorkflows(c) ==
    /\ cPc[c] = "cancel"
    /\ wfStatus' = [w \in Workflow |->
                      IF wfStatus[w] \in ActiveStatus /\ wfKey[w].name = cReq[c].drop
                      THEN "cancelled" ELSE wfStatus[w]]
    /\ cPc' = [cPc EXCEPT ![c] = "idle"]
    /\ cReq' = [cReq EXCEPT ![c] = NoRequest]
    /\ UNCHANGED <<wfKey, held, wfDue, workerVars, entityOk, wFaults, boardVars>>

(* A caller dies between two of its transactions. *)
CallerCrash(c) ==
    /\ cPc[c] # "idle"
    /\ cPc' = [cPc EXCEPT ![c] = "idle"]
    /\ cReq' = [cReq EXCEPT ![c] = NoRequest]
    /\ UNCHANGED <<rowVars, workerVars, entityOk, wFaults, boardVars>>

-----------------------------------------------------------------------------
WorkerPoll ==
    /\ wPc = "idle"
    /\ PendingWorkflows # {}
    /\ wPc' = "loop"
    /\ wBatch' = PendingWorkflows
    /\ UNCHANGED <<rowVars, callerVars, wCur, entityOk, wFaults, boardVars>>

WorkerEndPoll ==
    /\ wPc = "loop"
    /\ wBatch = {}
    /\ wPc' = "idle"
    /\ UNCHANGED <<rowVars, callerVars, wBatch, wCur, entityOk, wFaults, boardVars>>

(* should_run and validate_workflow.  They use the row as it was read at   *)
(* the poll, whose status nobody looks at again.                           *)
Validate(w) ==
    /\ wPc = "loop"
    /\ w \in wBatch
    /\ wBatch' = wBatch \ {w}
    /\ IF ~wfDue[w] THEN wPc' = "loop" /\ wCur' = None
       ELSE /\ wCur' = w
            /\ wPc' = IF Valid(w) THEN "start" ELSE "reject"
    /\ UNCHANGED <<rowVars, callerVars, entityOk, wFaults, boardVars>>

RejectWorkflow ==
    /\ wPc = "reject"
    /\ SetStatus(wCur, "cancelled")
    /\ wPc' = "loop"
    /\ wCur' = None
    /\ UNCHANGED <<wfKey, held, wfDue, callerVars, wBatch, entityOk, wFaults, boardVars>>

(* update_workflow_status(RUNNING): whatever the status is now.  The index *)
(* refuses it when the row was cancelled and another one took its key.     *)
StartWorkflow ==
    /\ wPc = "start"
    /\ IF KeyTaken(wfKey[wCur], wCur)
       THEN wPc' = "loop" /\ wCur' = None /\ UNCHANGED wfStatus
       ELSE wPc' = "task" /\ wCur' = wCur /\ SetStatus(wCur, "running")
    /\ UNCHANGED <<wfKey, held, wfDue, callerVars, wBatch, entityOk, wFaults, boardVars>>

(* create_ai_task. *)
CreateAiTask(t) ==
    /\ wPc = "task"
    /\ Insert(t, wCur)
    /\ wPc' = "finish"
    /\ UNCHANGED <<rowVars, callerVars, wBatch, wCur, entityOk, wFaults>>

(* Slip: the exception escapes execute_workflow. *)
TaskRaisesUncaught ==
    /\ wPc = "task"
    /\ wPc' = "loop"
    /\ wCur' = None
    /\ UNCHANGED <<rowVars, callerVars, wBatch, entityOk, wFaults, boardVars>>

(* Building the task raises: the entity is gone before the insert, or the  *)
(* automation log cannot be written after it.                              *)
TaskRaises ==
    /\ wPc = "task"
    /\ wPc' = "abort"
    /\ UNCHANGED boardVars \/ \E t \in Task : Insert(t, wCur)
    /\ UNCHANGED <<rowVars, callerVars, wBatch, wCur, entityOk, wFaults>>

(* Slip: a retry in place. *)
FinishWorkflowRetries ==
    /\ \/ wPc = "finish" /\ SetStatus(wCur, "completed") /\ wPc' = "loop" /\ wCur' = None
       \/ wPc = "abort" /\ SetStatus(wCur, "running") /\ wPc' = "task" /\ wCur' = wCur
    /\ UNCHANGED <<wfKey, held, wfDue, callerVars, wBatch, entityOk, wFaults, boardVars>>

(* update_workflow_status(COMPLETED or CANCELLED): whatever it is now. *)
FinishWorkflow ==
    /\ \/ wPc = "finish" /\ SetStatus(wCur, "completed")
       \/ wPc = "abort" /\ SetStatus(wCur, "cancelled")
    /\ wPc' = "loop"
    /\ wCur' = None
    /\ UNCHANGED <<wfKey, held, wfDue, callerVars, wBatch, entityOk, wFaults, boardVars>>

(* The storage refuses the worker's write: completing turns into aborting  *)
(* inside execute_workflow, any other refusal leaves it.                   *)
WorkerRefused ==
    /\ wFaults < MaxFaults
    /\ wFaults' = wFaults + 1
    /\ \/ wPc = "finish" /\ wPc' = "abort" /\ wCur' = wCur
       \/ wPc \in {"start", "reject", "abort"} /\ wPc' = "loop" /\ wCur' = None
    /\ UNCHANGED <<rowVars, callerVars, wBatch, entityOk, boardVars>>

(* The worker dies and supervisord starts it again. *)
WorkerCrash ==
    /\ wPc # "idle"
    /\ wFaults < MaxFaults
    /\ wFaults' = wFaults + 1
    /\ wPc' = "idle"
    /\ wBatch' = {}
    /\ wCur' = None
    /\ UNCHANGED <<rowVars, callerVars, entityOk, boardVars>>

-----------------------------------------------------------------------------
FallsDue(w) ==
    /\ wfStatus[w] # "absent"
    /\ ~wfDue[w]
    /\ wfDue' = [wfDue EXCEPT ![w] = TRUE]
    /\ UNCHANGED <<wfStatus, wfKey, held, callerVars, workerVars, entityOk, wFaults, boardVars>>

EntityChanges(n) ==
    /\ entityOk' = [entityOk EXCEPT ![n] = ~@]
    /\ UNCHANGED <<rowVars, callerVars, workerVars, wFaults, boardVars>>

CallerStep(c) ==
    \/ \E r \in Request : CheckExists(c, r)
    \/ \E w \in Workflow : InsertWorkflow(c, w)
    \/ InsertRefused(c)
    \/ CancelWorkflows(c)
    \/ CallerCrash(c)

WorkerStep ==
    \/ WorkerPoll
    \/ WorkerEndPoll
    \/ \E w \in Workflow : Validate(w)
    \/ RejectWorkflow
    \/ StartWorkflow
    \/ \E t \in Task : CreateAiTask(t)
    \/ TaskRaises
    \/ FinishWorkflow

EngineNext ==
    \/ \E c \in Creator : CallerStep(c)
    \/ WorkerStep
    \/ WorkerRefused
    \/ WorkerCrash
    \/ \E w \in Workflow : FallsDue(w)
    \/ \E n \in Critical : EntityChanges(n)
    \/ BoardStep /\ UNCHANGED engineVars

EngineSpec == EngineInit /\ [][EngineNext]_allVars

(* The worker's loop never stops and time passes; callers, the environment *)
(* and faults are under no obligation.                                     *)
EngineFairness ==
    /\ WF_allVars(WorkerStep)
    /\ \A w \in Workflow : WF_allVars(FallsDue(w))

FairEngineSpec == EngineSpec /\ EngineFairness

-----------------------------------------------------------------------------
(* Types of the table, the callers and the worker. *)
EngineTypeOK ==
    /\ wfStatus \in [Workflow -> {"absent", "cancelled"} \cup IdempotentStatus]
    /\ wfKey    \in [Workflow -> Key \cup {NoKey}]
    /\ held     \in [Workflow -> BOOLEAN]
    /\ wfDue    \in [Workflow -> BOOLEAN]
    /\ cPc      \in [Creator -> {"idle", "insert", "cancel"}]
    /\ cReq     \in [Creator -> RequestType]
    /\ wPc      \in {"idle", "loop", "reject", "start", "task", "finish", "abort"}
    /\ wBatch   \in SUBSET Workflow
    /\ wCur     \in Workflow \cup {None}
    /\ entityOk \in [Critical -> BOOLEAN]
    /\ wFaults  \in 0 .. MaxFaults

HasTask(w)   == \E t \in Task : origin[t] = w
InHand(w)    == w \in wBatch \/ w = wCur
Abandoned(w) == wfStatus[w] = "running" /\ wCur # w

(* Callers that race, cancellations and the worker's revivals never make   *)
(* two rows of one tenant and name active at once.                         *)
ActiveUnique ==
    \A v, w \in Workflow :
        /\ {wfStatus[v], wfStatus[w]} \subseteq ActiveStatus
        /\ wfKey[v] = wfKey[w]
        => v = w

(* A workflow gets one task in its whole life, although a finished task no *)
(* longer blocks another, and the worker restarts and revives rows.        *)
OneTaskPerWorkflow ==
    \A s, t \in Task : origin[s] = origin[t] /\ origin[s] # None => s = t

(* A task exists only for a row the worker has started; a completed row    *)
(* has one; a held row never gets one, unless its name is critical: for    *)
(* those the worker does not look at the approval.                         *)
TasksMatchWorkflows ==
    \A w \in Workflow :
        /\ HasTask(w) => wfStatus[w] \in {"running", "completed", "cancelled"}
        /\ held[w] /\ wfKey[w].name \notin Critical => ~HasTask(w)
        /\ wfStatus[w] = "completed" => HasTask(w)

(* A running row the worker does not hold was left there by a fault, and   *)
(* one fault leaves at most one.                                           *)
AbandonedByFault == Cardinality({w \in Workflow : Abandoned(w)}) <= wFaults

(* What a workflow's tasks may be, over polls, crashes, refused writes,    *)
(* cancellations and revivals: both of these.                              *)
TasksOfWorkflows == OneTaskPerWorkflow /\ TasksMatchWorkflows

(* The strengthening that makes the invariants above inductive: what the   *)
(* worker still has to do for a row has not been done yet.                 *)
WorkerOwnsItsRow ==
    /\ wPc \in {"idle", "loop"} <=> wCur = None
    /\ wCur \notin wBatch
    /\ \A t \in Task : stage[t] = "absent" <=> origin[t] = None
    /\ \A w \in Workflow :
          /\ wfStatus[w] \in {"absent", "scheduled"} => ~HasTask(w)
          /\ wfStatus[w] = "absent" => ~held[w] /\ ~InHand(w)
          /\ w \in wBatch \/ (w = wCur /\ wPc \in {"reject", "start"})
                => wfStatus[w] \in {"scheduled", "cancelled"} /\ ~HasTask(w)
          /\ w = wCur /\ wPc \in {"task", "finish", "abort"}
                => wfStatus[w] \in {"running", "cancelled"}
          /\ w = wCur /\ wPc \in {"start", "task", "finish", "abort"} /\ held[w]
                => wfKey[w].name \in Critical
          /\ w = wCur /\ wPc = "task" => ~HasTask(w)
          /\ w = wCur /\ wPc = "finish" => HasTask(w)

(* A cancellation that the worker has not overtaken is final: the row    *)
(* is not taken up again, keeps its status and gets no task.               *)
CancelledStays ==
    [][\A w \in Workflow :
          wfStatus[w] = "cancelled" /\ ~InHand(w)
            => /\ wfStatus'[w] = "cancelled"
               /\ ~InHand(w)'
               /\ HasTask(w)' => HasTask(w)]_allVars

(* A scheduled row is taken up once it is due, or cancelled. *)
DueIsTakenUp ==
    \A w \in Workflow :
        wfStatus[w] = "scheduled" ~> wfStatus[w] \in {"running", "completed", "cancelled"}

(* A running row ends, unless a fault left it behind. *)
RunningEnds ==
    \A w \in Workflow :
        wfStatus[w] = "running" ~> wfStatus[w] \in {"completed", "cancelled"} \/ Abandoned(w)

(* No row waits for ever: whatever the rows of its batch or of another     *)
(* tenant raise, each is taken up and each one taken up ends.              *)
RowsMoveOn == DueIsTakenUp /\ RunningEnds
=============================================================================
