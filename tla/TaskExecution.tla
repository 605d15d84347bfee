---------------------------- MODULE TaskExecution ----------------------------
(***************************************************************************)
(* The AI task lifecycle: the table ai_tasks (task_service.py) and the one *)
(* process that executes it (task_executor.py).                            *)
(*                                                                         *)
(* The executor polls the rows that are pending or due for a retry, marks  *)
(* one running, calls its tools in order, and completes, cancels, retries  *)
(* or dead-letters it.  Every write is a transaction of its own, so the    *)
(* process can die, or the storage can refuse a write, between any two.    *)
(* The workflow worker inserts rows meanwhile.                             *)
(*                                                                         *)
(* Abstractions: payloads, results and log rows are left out; a clock      *)
(* comparison is a flag that time sets; the order of a poll (by id) is any *)
(* order; a tool call, with the retries of its sandbox, is one step.       *)
(***************************************************************************)
EXTENDS Naturals, FiniteSets

CONSTANTS
    Task,        \* rows of ai_tasks this instance may insert
    Workflow,    \* rows of workflow_instances that tasks are created for
    MaxRetries,  \* TASK_MAX_RETRIES
    ToolCount,   \* number of tools a task resolves to
    MaxFaults    \* bound: crashes and refused writes of the executor

ASSUME TaskAssumption ==
    /\ MaxRetries \in Nat
    /\ ToolCount \in Nat \ {0}
    /\ MaxFaults \in Nat

None == "none"   \* Python's None, SQL's NULL
ASSUME NoneAssumption == None \notin Task /\ None \notin Workflow

VARIABLES
    \* the columns of ai_tasks
    status,      \* status, or "absent" for a row not inserted yet
    retries,     \* retry_count
    due,         \* next_retry_at is NULL or has passed
    origin,      \* workflow_id
    \* the executor's local state
    pc,          \* where execute_task stands
    batch,       \* rows of the current poll not visited yet
    cur,         \* the row it works on
    tool,        \* the tool it calls next
    \* history
    attempts,    \* how often each row was moved to running
    toolRuns,    \* in how many calls each tool took effect for each row
    faults       \* how many faults have happened

rowVars  == <<status, retries, due, origin>>
execVars == <<pc, batch, cur, tool>>
taskVars == <<rowVars, execVars, attempts, toolRuns, faults>>

-----------------------------------------------------------------------------
Active     == {"pending", "running", "retrying"}
Terminal   == {"completed", "cancelled", "dead_letter"}
TaskStatus == {"absent"} \cup Active \cup Terminal   \* no code writes "failed"
Tool       == 1 .. ToolCount

ValidTransition ==
    {<<"pending", "running">>,   <<"pending", "cancelled">>,
     <<"running", "completed">>, <<"running", "failed">>,
     <<"running", "cancelled">>, <<"running", "retrying">>,
     <<"failed", "retrying">>,   <<"failed", "dead_letter">>,
     <<"failed", "cancelled">>,  <<"retrying", "running">>,
     <<"retrying", "failed">>,   <<"retrying", "dead_letter">>,
     <<"retrying", "cancelled">>}

CanTransition(t, new) == <<status[t], new>> \in ValidTransition

TaskExists(w) == \E t \in Task : origin[t] = w /\ status[t] \in Active

(* Slip: a row that waits for its retry is not read again. *)
PendingTasksOnlyNew == {t \in Task : status[t] = "pending" /\ due[t]}

(* get_pending_tasks: pending or retrying, and next_retry_at has passed. *)
PendingTasks == {t \in Task : status[t] \in {"pending", "retrying"} /\ due[t]}

-----------------------------------------------------------------------------
TaskInit ==
    /\ status   = [t \in Task |-> "absent"]
    /\ retries  = [t \in Task |-> 0]
    /\ due      = [t \in Task |-> TRUE]
    /\ origin   = [t \in Task |-> None]
    /\ pc       = "idle"
    /\ batch    = {}
    /\ cur      = None
    /\ tool     = 1
    /\ attempts = [t \in Task |-> 0]
    /\ toolRuns = [t \in Task |-> [i \in Tool |-> 0]]
    /\ faults   = 0

(* create_ai_task: no insert while an active task of the workflow exists.  *)
(* Only the workflow worker inserts, so the check and the insert are one   *)
(* step: nothing can make the check stale in the unsafe direction.         *)
CreateTask(t, w) ==
    /\ status[t] = "absent"
    /\ ~TaskExists(w)
    /\ status' = [status EXCEPT ![t] = "pending"]
    /\ origin' = [origin EXCEPT ![t] = w]
    /\ UNCHANGED <<retries, due, execVars, attempts, toolRuns, faults>>

(* The main loop reads a batch of rows and then walks it. *)
Poll ==
    /\ pc = "idle"
    /\ PendingTasks # {}
    /\ pc' = "loop"
    /\ batch' = PendingTasks
    /\ UNCHANGED <<rowVars, cur, tool, attempts, toolRuns, faults>>

EndPoll ==
    /\ pc = "loop"
    /\ batch = {}
    /\ pc' = "idle"
    /\ UNCHANGED <<rowVars, batch, cur, tool, attempts, toolRuns, faults>>

(* transition_task(RUNNING).  A refused transition would skip the row with  *)
(* a ValueError; BatchStillPending shows that one executor never meets it. *)
StartTask(t) ==
    /\ pc = "loop"
    /\ t \in batch
    /\ CanTransition(t, "running")
    /\ status' = [status EXCEPT ![t] = "running"]
    /\ attempts' = [attempts EXCEPT ![t] = @ + 1]
    /\ pc' = "tools"
    /\ batch' = batch \ {t}
    /\ cur' = t
    /\ tool' = 1
    /\ UNCHANGED <<retries, due, origin, toolRuns, faults>>

(* A slip: the cancellation is reported but the row is not written. *)
CancelTaskUnwritten ==
    /\ pc = "tools" /\ tool = 1
    /\ pc' = "loop" /\ cur' = None
    /\ UNCHANGED <<rowVars, batch, tool, attempts, toolRuns, faults>>

(* No tool resolved: cancel_task, without a retry. *)
CancelTask ==
    /\ pc = "tools"
    /\ tool = 1
    /\ CanTransition(cur, "cancelled")
    /\ status' = [status EXCEPT ![cur] = "cancelled"]
    /\ pc' = "loop"
    /\ cur' = None
    /\ UNCHANGED <<retries, due, origin, batch, tool, attempts, toolRuns, faults>>

(* A slip: the task is completed after its first tool. *)
ToolSucceedsOnce ==
    /\ pc = "tools"
    /\ toolRuns' = [toolRuns EXCEPT ![cur][tool] = @ + 1]
    /\ pc' = "complete" /\ tool' = 1
    /\ UNCHANGED <<rowVars, batch, cur, attempts, faults>>

(* One tool returns a success; after the last one the task is completed. *)
ToolSucceeds ==
    /\ pc = "tools"
    /\ toolRuns' = [toolRuns EXCEPT ![cur][tool] = @ + 1]
    /\ \/ tool = ToolCount /\ pc' = "complete" /\ tool' = 1
       \/ tool < ToolCount /\ pc' = "tools" /\ tool' = tool + 1
    /\ UNCHANGED <<rowVars, batch, cur, attempts, faults>>

(* One tool raises or returns success=False: before it took effect, or     *)
(* after (its log row or its timeline event failed to be written).         *)
ToolFails ==
    /\ pc = "tools"
    /\ pc' = "fail"
    /\ \/ UNCHANGED toolRuns
       \/ toolRuns' = [toolRuns EXCEPT ![cur][tool] = @ + 1]
    /\ UNCHANGED <<rowVars, batch, cur, tool, attempts, faults>>

(* A slip: the reporting after the commit can raise into execute_task. *)
CompleteTaskReportRaises ==
    /\ pc = "complete"
    /\ CanTransition(cur, "completed")
    /\ status' = [status EXCEPT ![cur] = "completed"]
    /\ pc' = "fail"
    /\ UNCHANGED <<retries, due, origin, batch, cur, tool, attempts, toolRuns, faults>>

(* complete_task: the transition; its reporting never fails the task. *)
CompleteTask ==
    /\ pc = "complete"
    /\ CanTransition(cur, "completed")
    /\ status' = [status EXCEPT ![cur] = "completed"]
    /\ due' = [due EXCEPT ![cur] = TRUE]
    /\ pc' = "loop"
    /\ cur' = None
    /\ UNCHANGED <<retries, origin, batch, tool, attempts, toolRuns, faults>>

(* Slip of fail_task: the limit is compared with <=. *)
RetryTaskOffByOne ==
    /\ pc = "fail"
    /\ retries[cur] <= MaxRetries
    /\ status' = [status EXCEPT ![cur] = "retrying"]
    /\ retries' = [retries EXCEPT ![cur] = @ + 1]
    /\ due' = [due EXCEPT ![cur] = FALSE]
    /\ pc' = "loop"
    /\ cur' = None
    /\ UNCHANGED <<origin, batch, tool, attempts, toolRuns, faults>>

(* fail_task: both branches write without asking CanTransition. *)
RetryTask ==
    /\ pc = "fail"
    /\ retries[cur] < MaxRetries
    /\ status' = [status EXCEPT ![cur] = "retrying"]
    /\ retries' = [retries EXCEPT ![cur] = @ + 1]
    /\ due' = [due EXCEPT ![cur] = FALSE]
    /\ pc' = "loop"
    /\ cur' = None
    /\ UNCHANGED <<origin, batch, tool, attempts, toolRuns, faults>>

DeadLetterTask ==
    /\ pc = "fail"
    /\ retries[cur] >= MaxRetries
    /\ status' = [status EXCEPT ![cur] = "dead_letter"]
    /\ due' = [due EXCEPT ![cur] = TRUE]
    /\ pc' = "loop"
    /\ cur' = None
    /\ UNCHANGED <<retries, origin, batch, tool, attempts, toolRuns, faults>>

(* The backoff of a retrying row elapses. *)
BackoffElapses(t) ==
    /\ status[t] = "retrying"
    /\ ~due[t]
    /\ due' = [due EXCEPT ![t] = TRUE]
    /\ UNCHANGED <<status, retries, origin, execVars, attempts, toolRuns, faults>>

(* The storage refuses a write (database is locked).  A refused transition *)
(* to running skips the row in this poll; a refused completion ends in the *)
(* same except branch as a failed tool, so every tool will run again; a    *)
(* refused fail_task leaves execute_task with the row running.             *)
StorageRefuses ==
    /\ faults < MaxFaults
    /\ faults' = faults + 1
    /\ \/ pc = "loop" /\ (\E t \in batch : batch' = batch \ {t}) /\ UNCHANGED <<pc, cur>>
       \/ pc = "complete" /\ pc' = "fail" /\ UNCHANGED <<batch, cur>>
       \/ pc = "fail" /\ pc' = "loop" /\ cur' = None /\ UNCHANGED batch
    /\ UNCHANGED <<rowVars, tool, attempts, toolRuns>>

(* The process dies and supervisord starts it again: main() polls afresh,  *)
(* nothing returns a running row to the queue.                             *)
ExecutorCrash ==
    /\ pc # "idle"
    /\ faults < MaxFaults
    /\ faults' = faults + 1
    /\ pc' = "idle"
    /\ batch' = {}
    /\ cur' = None
    /\ tool' = 1
    /\ UNCHANGED <<rowVars, attempts, toolRuns>>

ExecutorStep ==
    \/ Poll
    \/ EndPoll
    \/ \E t \in Task : StartTask(t)
    \/ CancelTask
    \/ ToolSucceeds
    \/ ToolFails
    \/ CompleteTask
    \/ RetryTask
    \/ DeadLetterTask

ExecutorNext ==
    \/ ExecutorStep
    \/ \E t \in Task : BackoffElapses(t)
    \/ StorageRefuses
    \/ ExecutorCrash

TaskNext == ExecutorNext \/ \E t \in Task, w \in Workflow : CreateTask(t, w)

TaskSpec == TaskInit /\ [][TaskNext]_taskVars

(* The executor's loop never stops (a tool call returns: the sandbox gives *)
(* it a deadline) and backoffs elapse; whether a tool succeeds, faults and *)
(* new tasks are under no obligation.                                      *)
TaskFairness ==
    /\ WF_taskVars(ExecutorStep)
    /\ \A t \in Task : WF_taskVars(BackoffElapses(t))

FairTaskSpec == TaskSpec /\ TaskFairness

-----------------------------------------------------------------------------
(* Types of the table, of the executor and of the history. *)
TaskTypeOK ==
    /\ status   \in [Task -> TaskStatus]
    /\ retries  \in [Task -> 0 .. MaxRetries]
    /\ due      \in [Task -> BOOLEAN]
    /\ origin   \in [Task -> Workflow \cup {None}]
    /\ pc       \in {"idle", "loop", "tools", "complete", "fail"}
    /\ batch    \in SUBSET Task
    /\ cur      \in Task \cup {None}
    /\ tool     \in Tool
    /\ attempts \in [Task -> Nat]
    /\ toolRuns \in [Task -> [Tool -> Nat]]
    /\ faults   \in 0 .. MaxFaults

Busy        == pc \in {"tools", "complete", "fail"}
Stranded(t) == status[t] = "running" /\ cur # t

(* Retry accounting, across failures, refused writes and crashes: a row    *)
(* was started once per recorded retry, once more if it is running or      *)
(* ended, and so never more than MaxRetries + 1 times.                     *)
RetryBudget ==
    \A t \in Task :
        /\ attempts[t] <= MaxRetries + 1
        /\ attempts[t] = IF status[t] \in {"running"} \cup Terminal
                         THEN retries[t] + 1 ELSE retries[t]

(* A tool is repeated only by a counted attempt, a later tool never took   *)
(* effect more often than an earlier one, and a completed task is one      *)
(* whose every tool took effect.                                           *)
ToolsInOrder ==
    \A t \in Task :
        /\ \A i \in Tool : toolRuns[t][i] <= attempts[t]
        /\ \A i, j \in Tool : i < j => toolRuns[t][j] <= toolRuns[t][i]
        /\ status[t] = "completed" => toolRuns[t][ToolCount] >= 1

(* dead_letter is reached only after every retry is spent. *)
DeadLetterIsLast ==
    \A t \in Task : status[t] = "dead_letter" => retries[t] = MaxRetries

(* A running row nobody works on exists only because of a fault, and one   *)
(* fault strands at most one row.                                          *)
StrandedByFault == Cardinality({t \in Task : Stranded(t)}) <= faults

(* The strengthening that makes the invariants above inductive: the row    *)
(* the executor works on is running, the tools still to run in this        *)
(* attempt lag behind those that ran, and a completing row has run all.    *)
ExecutorOwnsItsRow ==
    /\ Busy <=> cur # None
    /\ Busy => status[cur] = "running"
    /\ pc = "tools" =>
          /\ \A j \in Tool : tool <= j => toolRuns[cur][j] < attempts[cur]
          /\ \A i, j \in Tool : i < tool /\ tool <= j
                                  => toolRuns[cur][j] < toolRuns[cur][i]
    /\ pc = "complete" => toolRuns[cur][ToolCount] >= 1

(* The rows of a poll are still pending or retrying when their turn comes: *)
(* StartTask never has to refuse what get_pending_tasks returned earlier.  *)
BatchStillPending == \A t \in batch : status[t] \in {"pending", "retrying"}

(* A task that ended stays as it ended, although the executor works from a *)
(* batch it read earlier and fail_task does not check the status.          *)
EndedStays ==
    [][\A t \in Task : status[t] \in Terminal => status'[t] = status[t]]_taskVars

(* Every created task ends, unless a fault strands it. *)
TaskSettles ==
    \A t \in Task : status[t] = "pending" ~> status[t] \in Terminal \/ Stranded(t)

(* The executor as the workflow engine sees it. *)
Stage == [t \in Task |-> IF status[t] = "absent"      THEN "absent"
                         ELSE IF status[t] \in Terminal THEN "ended"
                         ELSE "open"]

Board == INSTANCE TaskBoard WITH stage <- Stage, MaxAttempts <- MaxRetries + 1

(* Retries, backoff, refused writes and crashes stay inside the promise of *)
(* TaskBoard: one open task per workflow, a bounded number of attempts, no *)
(* attempt before the insert or after the end, no end without an attempt.  *)
ImplementsBoard == Board!BoardSpec
=============================================================================
