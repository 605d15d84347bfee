----------------------------- MODULE Approvals -----------------------------
(***************************************************************************)
(* Autonomous planning and its approval: the listener's event loop         *)
(* (listener.py), the planner runtime (planner_runtime.py), the approval   *)
(* requests (approval_service.py) and the safety limits                    *)
(* (safety_service.py).                                                    *)
(*                                                                         *)
(* Two processes apply plans: the listener those that need no approval,    *)
(* the API those an operator approved.  Both check the limits first and    *)
(* record the execution last, in transactions of their own, so either can  *)
(* act on what the other has changed meanwhile, or die in between.  The    *)
(* API serves one request after the other (its handlers never await).      *)
(*                                                                         *)
(* Abstractions: one tenant and one entity; a plan is the name of the      *)
(* workflow it creates, and the name decides whether it is published       *)
(* outside; the planner may answer anything, and another thing when an     *)
(* event is replayed; the three safety checks are one step; a workflow is  *)
(* seen as create_workflow sees it (WorkflowEngine has its races).  Plans  *)
(* that cancel workflows, learning and the daily limit are left out.       *)
(***************************************************************************)
EXTENDS Naturals, FiniteSets, Functions

CONSTANTS
    MaxEvents,    \* bound: events of the timeline
    MaxRequests,  \* bound: rows of approval_requests
    Name,         \* workflow names a plan may have
    External,     \* those that publish outside
    HourlyLimit,  \* AUTONOMOUS_HOURLY_LIMIT
    MaxApprovals, \* bound: approvals given
    MaxFaults     \* bound: crashes and refused writes

None == "none"

ASSUME ApprovalAssumption ==
    /\ MaxEvents \in Nat
    /\ MaxRequests \in Nat
    /\ HourlyLimit \in Nat
    /\ MaxApprovals \in Nat
    /\ MaxFaults \in Nat
    /\ External \subseteq Name
    /\ None \notin Name

Event   == 1 .. MaxEvents
Request == 1 .. MaxRequests
Process == {"listener", "api"}

VARIABLES
    cursor,     \* listener_state.last_cursor
    \* the columns of approval_requests
    status,     \* status, or "absent" for a row not inserted yet
    event,      \* event_id, 0 for a row not inserted yet
    asked,      \* the plan in proposal_json; with event, the proposal_hash
    edited,     \* the plan in edited_proposal_json
    \* the processes
    pc,         \* where each one stands
    plan,       \* the plan in its hands
    \* the workflow table and the safety tables
    active,     \* a scheduled or running row of the name exists
    completed,  \* a completed row of the name exists
    quota,      \* count_value of autonomous_hourly in this hour
    cooling,    \* the cooldown of the name runs
    \* history
    granted,    \* approvals given to plans of the name
    started,    \* workflows created under an external name
    thisHour,   \* workflows created in this hour
    faults      \* how many faults have happened

reqVars  == <<status, event, asked, edited>>
procVars == <<pc, plan>>
flowVars == <<active, completed>>
safeVars == <<quota, cooling>>
histVars == <<granted, started, thisHour>>
apprVars == <<cursor, reqVars, procVars, flowVars, safeVars, histVars, faults>>

-----------------------------------------------------------------------------
(* assess_approval_need; its slip asks only for a name nobody approved yet. *)
NeedsApprovalFirst(n) == n \in External /\ granted[n] = 0
NeedsApproval(n) == n \in External

(* workflow_exists: completed rows count. *)
WorkflowExists(n) == active[n] \/ completed[n]

(* The requests with the proposal_hash of a plan for an event. *)
SameHash(e, n) == {r \in Request : event[r] = e /\ asked[r] = n}
PendingWith(e, n) == {r \in SameHash(e, n) : status[r] = "pending"}

IsNext(r) ==
    /\ status[r] = "absent"
    /\ \A s \in Request : status[s] = "absent" => r <= s

Goto(p, label) == pc' = [pc EXCEPT ![p] = label]

(* A plan is through: the listener still has to move its cursor. *)
Settled(p) ==
    /\ Goto(p, IF p = "listener" THEN "advance" ELSE "idle")
    /\ plan' = [plan EXCEPT ![p] = None]

ApprInit ==
    /\ cursor    = 0
    /\ status    = [r \in Request |-> "absent"]
    /\ event     = [r \in Request |-> 0]
    /\ asked     = [r \in Request |-> None]
    /\ edited    = [r \in Request |-> None]
    /\ pc        = [p \in Process |-> "idle"]
    /\ plan      = [p \in Process |-> None]
    /\ active    = [n \in Name |-> FALSE]
    /\ completed = [n \in Name |-> FALSE]
    /\ quota     = 0
    /\ cooling   = [n \in Name |-> FALSE]
    /\ granted   = [n \in Name |-> 0]
    /\ started   = [n \in External |-> 0]
    /\ thisHour  = 0
    /\ faults    = 0

-----------------------------------------------------------------------------
(* process_event up to apply_proposal: the next event, and a plan for it   *)
(* or none.                                                                *)
PlanEvent(n) ==
    /\ pc["listener"] = "idle"
    /\ cursor < MaxEvents
    /\ IF n = None
       THEN Settled("listener")
       ELSE /\ Goto("listener", IF NeedsApproval(n) THEN "request" ELSE "check")
            /\ plan' = [plan EXCEPT !["listener"] = n]
    /\ UNCHANGED <<cursor, reqVars, flowVars, safeVars, histVars, faults>>

(* create_approval_request: a pending request with this hash is reused.    *)
(* When the rows of the instance are used up, the request is not followed. *)
RequestApproval ==
    LET e == cursor + 1
        n == plan["listener"]
    IN  /\ pc["listener"] = "request"
        /\ \/ /\ PendingWith(e, n) # {} \/ \A r \in Request : status[r] # "absent"
              /\ UNCHANGED reqVars
           \/ /\ PendingWith(e, n) = {}
              /\ \E r \in Request :
                    /\ IsNext(r)
                    /\ status' = [status EXCEPT ![r] = "pending"]
                    /\ event' = [event EXCEPT ![r] = e]
                    /\ asked' = [asked EXCEPT ![r] = n]
                    /\ UNCHANGED edited
        /\ Settled("listener")
        /\ UNCHANGED <<cursor, flowVars, safeVars, histVars, faults>>

(* Slip: the cursor stays while the event's plan waits for its approval. *)
AdvanceWhenDecided ==
    /\ pc["listener"] = "advance"
    /\ cursor' = IF \E r \in Request : event[r] = cursor + 1 /\ status[r] = "pending"
                 THEN cursor ELSE cursor + 1
    /\ Goto("listener", "idle")
    /\ UNCHANGED <<reqVars, plan, flowVars, safeVars, histVars, faults>>

(* The finally of the event loop: set_cursor. *)
Advance ==
    /\ pc["listener"] = "advance"
    /\ cursor' = cursor + 1
    /\ Goto("listener", "idle")
    /\ UNCHANGED <<reqVars, plan, flowVars, safeVars, histVars, faults>>

-----------------------------------------------------------------------------
(* The operator's decisions.  Only approve looks at the status. *)
EffectivePlan(r) == IF edited[r] = None THEN asked[r] ELSE edited[r]

Approve(r) ==
    /\ pc["api"] = "idle"
    /\ status[r] = "pending"
    /\ SumFunction(granted) < MaxApprovals
    /\ status' = [status EXCEPT ![r] = "approved"]
    /\ Goto("api", "check")
    /\ plan' = [plan EXCEPT !["api"] = EffectivePlan(r)]
    /\ granted' = [granted EXCEPT ![EffectivePlan(r)] = @ + 1]
    /\ UNCHANGED <<cursor, event, asked, edited, flowVars, safeVars, started, thisHour, faults>>

Reject(r) ==
    /\ pc["api"] = "idle"
    /\ status[r] # "absent"
    /\ status' = [status EXCEPT ![r] = "rejected"]
    /\ UNCHANGED <<cursor, event, asked, edited, procVars, flowVars, safeVars, histVars, faults>>

(* edit_proposal; bound: a request is edited once. *)
EditProposal(r, n) ==
    /\ pc["api"] = "idle"
    /\ status[r] # "absent"
    /\ edited[r] = None /\ n # asked[r]
    /\ edited' = [edited EXCEPT ![r] = n]
    /\ UNCHANGED <<cursor, status, event, asked, procVars, flowVars, safeVars, histVars, faults>>

(* Slip: the index is missing. *)
RetryApprovalUnindexed(r) ==
    /\ pc["api"] = "idle"
    /\ status[r] # "absent"
    /\ status' = [status EXCEPT ![r] = "pending"]
    /\ UNCHANGED <<cursor, event, asked, edited, procVars, flowVars, safeVars, histVars, faults>>

(* retry_approval.  idx_approval_pending_unique refuses it while another   *)
(* request with the hash is pending.                                       *)
RetryApproval(r) ==
    /\ pc["api"] = "idle"
    /\ status[r] # "absent"
    /\ PendingWith(event[r], asked[r]) \subseteq {r}
    /\ status' = [status EXCEPT ![r] = "pending"]
    /\ UNCHANGED <<cursor, event, asked, edited, procVars, flowVars, safeVars, histVars, faults>>

-----------------------------------------------------------------------------
(* validate_autonomous_execution; its slip lets one more pass. *)
SafeOneMore(n) == quota <= HourlyLimit /\ ~cooling[n]
Safe(n) == quota < HourlyLimit /\ ~cooling[n]

(* apply_proposal from its safety checks on.  A plan they block is dropped, *)
(* an approved one too.                                                     *)
CheckSafety(p) ==
    /\ pc[p] = "check"
    /\ IF Safe(plan[p]) THEN Goto(p, "create") /\ UNCHANGED plan ELSE Settled(p)
    /\ UNCHANGED <<cursor, reqVars, flowVars, safeVars, histVars, faults>>

CreateWorkflow(p) ==
    LET n == plan[p]
    IN  /\ pc[p] = "create"
        /\ IF WorkflowExists(n)
           THEN Settled(p) /\ UNCHANGED <<active, started, thisHour>>
           ELSE /\ active' = [active EXCEPT ![n] = TRUE]
                /\ started' = [m \in External |-> started[m] + IF m = n THEN 1 ELSE 0]
                /\ thisHour' = thisHour + 1
                /\ Goto(p, "count")
                /\ UNCHANGED plan
        /\ UNCHANGED <<cursor, reqVars, completed, safeVars, granted, faults>>

(* record_execution: the counter, then the cooldown. *)
CountExecution(p) ==
    /\ pc[p] = "count"
    /\ quota' = quota + 1
    /\ Goto(p, "cool")
    /\ UNCHANGED <<cursor, reqVars, plan, flowVars, cooling, histVars, faults>>

StartCooldown(p) ==
    /\ pc[p] = "cool"
    /\ cooling' = [cooling EXCEPT ![plan[p]] = TRUE]
    /\ Settled(p)
    /\ UNCHANGED <<cursor, reqVars, flowVars, quota, histVars, faults>>

-----------------------------------------------------------------------------
(* A write is refused: the exception leaves the handler.  The listener     *)
(* goes on to set_cursor, the API answers with an error.                   *)
Refused(p) ==
    /\ pc[p] \notin {"idle", "advance"}
    /\ faults < MaxFaults
    /\ faults' = faults + 1
    /\ Settled(p)
    /\ UNCHANGED <<cursor, reqVars, flowVars, safeVars, histVars>>

(* The process dies and is started again; the listener replays the event. *)
Crash(p) ==
    /\ pc[p] # "idle"
    /\ faults < MaxFaults
    /\ faults' = faults + 1
    /\ Goto(p, "idle")
    /\ plan' = [plan EXCEPT ![p] = None]
    /\ UNCHANGED <<cursor, reqVars, flowVars, safeVars, histVars>>

(* The clock: the hour of the counter ends, a cooldown ends. *)
NewHour ==
    /\ thisHour + quota > 0
    /\ quota' = 0
    /\ thisHour' = 0
    /\ UNCHANGED <<cursor, reqVars, procVars, flowVars, cooling, granted, started, faults>>

CooldownElapses(n) ==
    /\ cooling[n]
    /\ cooling' = [cooling EXCEPT ![n] = FALSE]
    /\ UNCHANGED <<cursor, reqVars, procVars, flowVars, quota, histVars, faults>>

(* The workflow worker completes a workflow, or it is cancelled. *)
WorkflowEnds(n) ==
    /\ active[n]
    /\ active' = [active EXCEPT ![n] = FALSE]
    /\ completed' \in {completed, [completed EXCEPT ![n] = TRUE]}
    /\ UNCHANGED <<cursor, reqVars, procVars, safeVars, histVars, faults>>

ApplyStep(p) ==
    CheckSafety(p) \/ CreateWorkflow(p) \/ CountExecution(p) \/ StartCooldown(p)

ListenerStep ==
    \/ \E n \in Name \cup {None} : PlanEvent(n)
    \/ RequestApproval
    \/ ApplyStep("listener")
    \/ Advance

OperatorStep ==
    \E r \in Request :
        \/ Approve(r)
        \/ Reject(r)
        \/ RetryApproval(r)
        \/ \E n \in Name : EditProposal(r, n)

ApprNext ==
    \/ ListenerStep
    \/ OperatorStep
    \/ ApplyStep("api")
    \/ \E p \in Process : Refused(p) \/ Crash(p)
    \/ NewHour
    \/ \E n \in Name : CooldownElapses(n) \/ WorkflowEnds(n)

ApprSpec == ApprInit /\ [][ApprNext]_apprVars

(* The listener's loop never stops; operators, the clock and faults are    *)
(* under no obligation.                                                    *)
FairApprSpec == ApprSpec /\ WF_apprVars(ListenerStep)

-----------------------------------------------------------------------------
ReqStatus == {"absent", "pending", "approved", "rejected"}

(* What publishes outside runs only on an approval of its own: no replay,  *)
(* retry, edit or crash turns one approval into two workflows.             *)
ExternalGated == \A n \in External : started[n] <= granted[n]

(* An event asks for one approval, and for one more each time a crash      *)
(* makes the listener replay it; an operator never sees two pending        *)
(* requests for one plan of it, whatever is replayed and retried.          *)
RequestsNotRepeated ==
    /\ \A e \in Event : Cardinality({r \in Request : event[r] = e}) <= 1 + faults
    /\ \A r, s \in Request :
          /\ status[r] = "pending" /\ status[s] = "pending"
          /\ event[r] = event[s] /\ asked[r] = asked[s]
          => r = s

(* The hourly limit holds up to the process that checked beside another    *)
(* one, and the executions that a fault kept from being counted.           *)
QuotaHolds == thisHour <= HourlyLimit + Cardinality(Process) - 1 + faults

(* No event blocks the timeline: the cursor reaches its end, over refused  *)
(* writes and crashes.                                                     *)
TimelinePasses == <>(cursor = MaxEvents)
=============================================================================
