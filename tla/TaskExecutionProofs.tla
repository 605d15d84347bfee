------------------------- MODULE TaskExecutionProofs -------------------------
(***************************************************************************)
(* The safety of the task executor, for every set of tasks and workflows,  *)
(* every retry limit, every number of tools and every number of faults.    *)
(***************************************************************************)
EXTENDS TaskExecution, FiniteSetTheorems, TLAPS

(* The inductive invariant: the checked invariants and what the executor   *)
(* knows of the row it works on.                                           *)
TaskInv ==
    /\ TaskTypeOK
    /\ RetryBudget
    /\ ToolsInOrder
    /\ DeadLetterIsLast
    /\ ExecutorOwnsItsRow
    /\ BatchStillPending

-----------------------------------------------------------------------------
(* The entries of VALID_TASK_TRANSITIONS that guard the executor's writes. *)
LEMMA TransitionTable ==
    ASSUME NEW t \in Task, TaskTypeOK
    PROVE  /\ CanTransition(t, "running") => status[t] \in {"pending", "retrying"}
           /\ CanTransition(t, "cancelled") => status[t] \notin Terminal
           /\ CanTransition(t, "completed") => status[t] = "running"
BY DEF CanTransition, ValidTransition, TaskTypeOK, TaskStatus, Terminal, Active

LEMMA TaskInitInv == TaskInit => TaskInv
<1> SUFFICES ASSUME TaskInit PROVE TaskInv
  OBVIOUS
<1> USE TaskAssumption, NoneAssumption DEF TaskInit
<1>1. TaskTypeOK
  BY DEF TaskTypeOK, TaskStatus, Tool
<1>2. RetryBudget /\ DeadLetterIsLast /\ BatchStillPending
  BY DEF RetryBudget, DeadLetterIsLast, BatchStillPending, Terminal
<1>3. ToolsInOrder
  BY DEF ToolsInOrder, Tool
<1>4. ExecutorOwnsItsRow
  BY DEF ExecutorOwnsItsRow, Busy
<1>5. QED
  BY <1>1, <1>2, <1>3, <1>4 DEF TaskInv

(* One tool's effect, or none, keeps the order among the counters. *)
LEMMA ToolSucceedsInv == TaskInv /\ ToolSucceeds => TaskInv'
<1> SUFFICES ASSUME TaskInv, ToolSucceeds PROVE TaskInv'
  OBVIOUS
<1>1. /\ cur \in Task /\ tool \in Tool /\ pc = "tools"
      /\ status[cur] = "running" /\ cur # None
  BY NoneAssumption DEF TaskInv, TaskTypeOK, ExecutorOwnsItsRow, Busy, ToolSucceeds
<1>2. /\ UNCHANGED <<status, retries, due, origin, batch, cur, attempts, faults>>
      /\ toolRuns' = [toolRuns EXCEPT ![cur][tool] = @ + 1]
      /\ \/ tool = ToolCount /\ pc' = "complete" /\ tool' = 1
         \/ tool < ToolCount /\ pc' = "tools" /\ tool' = tool + 1
  BY DEF ToolSucceeds, rowVars
<1>3. \A t \in Task, i \in Tool : toolRuns[t][i] \in Nat /\ attempts[t] \in Nat
  BY DEF TaskInv, TaskTypeOK
<1>4. \A t \in Task, i \in Tool :
         toolRuns'[t][i] = IF t = cur /\ i = tool THEN toolRuns[t][i] + 1
                                                 ELSE toolRuns[t][i]
  BY <1>1, <1>2 DEF TaskInv, TaskTypeOK
<1>5. /\ \A j \in Tool : tool <= j => toolRuns[cur][j] < attempts[cur]
      /\ \A i, j \in Tool : i < tool /\ tool <= j
                              => toolRuns[cur][j] < toolRuns[cur][i]
  BY <1>1 DEF TaskInv, ExecutorOwnsItsRow
<1>6. \A t \in Task :
         /\ \A i \in Tool : toolRuns[t][i] <= attempts[t]
         /\ \A i, j \in Tool : i < j => toolRuns[t][j] <= toolRuns[t][i]
         /\ status[t] = "completed" => toolRuns[t][ToolCount] >= 1
  BY DEF TaskInv, ToolsInOrder
<1>7. Tool \subseteq Nat /\ ToolCount \in Tool
  BY TaskAssumption DEF Tool
<1>8. TaskTypeOK'
  <2>1. toolRuns' \in [Task -> [Tool -> Nat]]
    BY <1>1, <1>2 DEF TaskInv, TaskTypeOK
  <2>2. tool' \in Tool
    BY <1>1, <1>2, TaskAssumption DEF Tool
  <2>3. pc' \in {"idle", "loop", "tools", "complete", "fail"}
    BY <1>2
  <2>4. QED
    BY <1>2, <2>1, <2>2, <2>3 DEF TaskInv, TaskTypeOK
<1>9. RetryBudget' /\ DeadLetterIsLast' /\ BatchStillPending'
  BY <1>2 DEF TaskInv, RetryBudget, DeadLetterIsLast, BatchStillPending
<1>10. ToolsInOrder'
  <2>1. ASSUME NEW t \in Task, NEW i \in Tool
        PROVE  toolRuns'[t][i] <= attempts'[t]
    BY <1>1, <1>2, <1>3, <1>4, <1>5, <1>6, <1>7
  <2>2. ASSUME NEW t \in Task, NEW i \in Tool, NEW j \in Tool, i < j
        PROVE  toolRuns'[t][j] <= toolRuns'[t][i]
    BY <1>1, <1>3, <1>4, <1>5, <1>6, <1>7, <2>2
  <2>3. ASSUME NEW t \in Task, status'[t] = "completed"
        PROVE  toolRuns'[t][ToolCount] >= 1
    BY <1>1, <1>2, <1>3, <1>4, <1>6, <1>7, <2>3
  <2>4. QED
    BY <2>1, <2>2, <2>3 DEF ToolsInOrder
<1>11. ExecutorOwnsItsRow'
  <2>1. CASE tool = ToolCount
    <3>1. toolRuns'[cur][ToolCount] >= 1
      BY <1>1, <1>3, <1>4, <2>1
    <3>2. QED
      BY <1>1, <1>2, <1>7, <2>1, <3>1 DEF ExecutorOwnsItsRow, Busy
  <2>2. CASE tool < ToolCount
    <3>1. pc' = "tools" /\ cur' = cur /\ tool' = tool + 1 /\ status' = status
      BY <1>1, <1>2, <1>7, <2>2
    <3>2. ASSUME NEW j \in Tool, tool + 1 <= j
          PROVE  toolRuns'[cur][j] < attempts'[cur]
      BY <1>1, <1>2, <1>3, <1>4, <1>5, <1>7, <3>2
    <3>3. ASSUME NEW i \in Tool, NEW j \in Tool, i < tool + 1, tool + 1 <= j
          PROVE  toolRuns'[cur][j] < toolRuns'[cur][i]
      <4>1. i = tool \/ i < tool
        BY <1>1, <1>7, <3>3
      <4>2. tool < j /\ toolRuns'[cur][j] = toolRuns[cur][j]
        BY <1>1, <1>4, <1>7, <3>3
      <4>3. CASE i = tool
        BY <1>1, <1>3, <1>4, <1>6, <4>2, <4>3
      <4>4. CASE i < tool
        BY <1>1, <1>3, <1>4, <1>5, <1>7, <4>2, <4>4
      <4>5. QED
        BY <4>1, <4>3, <4>4
    <3>4. QED
      BY <1>1, <3>1, <3>2, <3>3 DEF ExecutorOwnsItsRow, Busy
  <2>3. QED
    BY <1>2, <2>1, <2>2
<1>12. QED
  BY <1>8, <1>9, <1>10, <1>11 DEF TaskInv

LEMMA ToolFailsInv == TaskInv /\ ToolFails => TaskInv'
<1> SUFFICES ASSUME TaskInv, ToolFails PROVE TaskInv'
  OBVIOUS
<1>1. /\ cur \in Task /\ tool \in Tool /\ pc = "tools"
      /\ status[cur] = "running" /\ cur # None
  BY NoneAssumption DEF TaskInv, TaskTypeOK, ExecutorOwnsItsRow, Busy, ToolFails
<1>2. /\ UNCHANGED <<status, retries, due, origin, batch, cur, tool, attempts, faults>>
      /\ pc' = "fail"
      /\ \/ toolRuns' = toolRuns
         \/ toolRuns' = [toolRuns EXCEPT ![cur][tool] = @ + 1]
  BY DEF ToolFails, rowVars
<1>3. \A t \in Task, i \in Tool : toolRuns[t][i] \in Nat /\ attempts[t] \in Nat
  BY DEF TaskInv, TaskTypeOK
<1>4. /\ toolRuns' \in [Task -> [Tool -> Nat]]
      /\ \A t \in Task, i \in Tool :
            \/ toolRuns'[t][i] = toolRuns[t][i]
            \/ t = cur /\ i = tool /\ toolRuns'[t][i] = toolRuns[t][i] + 1
      /\ \A i, j \in Tool : i # j =>
            toolRuns'[cur][i] = toolRuns[cur][i] \/ toolRuns'[cur][j] = toolRuns[cur][j]
  <2>1. CASE toolRuns' = toolRuns
    BY <2>1 DEF TaskInv, TaskTypeOK
  <2>2. CASE toolRuns' = [toolRuns EXCEPT ![cur][tool] = @ + 1]
    BY <1>1, <2>2 DEF TaskInv, TaskTypeOK
  <2>3. QED
    BY <1>2, <2>1, <2>2
<1>5. /\ \A j \in Tool : tool <= j => toolRuns[cur][j] < attempts[cur]
      /\ \A i, j \in Tool : i < tool /\ tool <= j
                              => toolRuns[cur][j] < toolRuns[cur][i]
  BY <1>1 DEF TaskInv, ExecutorOwnsItsRow
<1>6. \A t \in Task :
         /\ \A i \in Tool : toolRuns[t][i] <= attempts[t]
         /\ \A i, j \in Tool : i < j => toolRuns[t][j] <= toolRuns[t][i]
         /\ status[t] = "completed" => toolRuns[t][ToolCount] >= 1
  BY DEF TaskInv, ToolsInOrder
<1>7. Tool \subseteq Nat /\ ToolCount \in Tool
  BY TaskAssumption DEF Tool
<1>8. TaskTypeOK'
  BY <1>2, <1>4 DEF TaskInv, TaskTypeOK
<1>9. RetryBudget' /\ DeadLetterIsLast' /\ BatchStillPending' /\ ExecutorOwnsItsRow'
  BY <1>1, <1>2
     DEF TaskInv, RetryBudget, DeadLetterIsLast, BatchStillPending,
         ExecutorOwnsItsRow, Busy
<1>10. ToolsInOrder'
  <2>1. ASSUME NEW t \in Task, NEW i \in Tool
        PROVE  toolRuns'[t][i] <= attempts'[t]
    BY <1>1, <1>2, <1>3, <1>4, <1>5, <1>6, <1>7
  <2>2. ASSUME NEW t \in Task, NEW i \in Tool, NEW j \in Tool, i < j
        PROVE  toolRuns'[t][j] <= toolRuns'[t][i]
    <3>1. toolRuns[t][j] <= toolRuns[t][i]
      BY <1>6, <2>2
    <3>2. CASE toolRuns'[t][j] = toolRuns[t][j]
      BY <1>3, <1>4, <3>1, <3>2
    <3>3. CASE t = cur /\ j = tool /\ toolRuns'[t][j] = toolRuns[t][j] + 1
      <4>1. toolRuns[t][j] < toolRuns[t][i]
        BY <1>5, <1>7, <2>2, <3>3
      <4>2. toolRuns'[t][i] = toolRuns[t][i]
        BY <1>3, <1>4, <1>7, <2>2, <3>3
      <4>3. QED
        BY <1>3, <3>3, <4>1, <4>2
    <3>4. QED
      BY <1>4, <3>2, <3>3
  <2>3. ASSUME NEW t \in Task, status'[t] = "completed"
        PROVE  toolRuns'[t][ToolCount] >= 1
    BY <1>2, <1>3, <1>4, <1>6, <1>7, <2>3
  <2>4. QED
    BY <2>1, <2>2, <2>3 DEF ToolsInOrder
<1>11. QED
  BY <1>8, <1>9, <1>10 DEF TaskInv

(* A new attempt raises one counter of attempts and no counter of tools. *)
LEMMA StartTaskOrder ==
    ASSUME NEW t \in Task, StartTask(t), TaskTypeOK, ToolsInOrder
    PROVE  ToolsInOrder'
<1>1. /\ attempts' = [attempts EXCEPT ![t] = @ + 1]
      /\ status' = [status EXCEPT ![t] = "running"]
      /\ toolRuns' = toolRuns
  BY DEF StartTask
<1>2. ASSUME NEW u \in Task
      PROVE  /\ attempts[u] \in Nat /\ attempts'[u] \in Nat
             /\ attempts[u] <= attempts'[u]
             /\ status'[u] = "completed" => status[u] = "completed"
  BY <1>1 DEF TaskTypeOK
<1>3. ASSUME NEW u \in Task, NEW i \in Tool
      PROVE  toolRuns'[u][i] <= attempts'[u]
  <2>1. toolRuns[u][i] \in Nat
    BY DEF TaskTypeOK
  <2>2. toolRuns[u][i] <= attempts[u]
    BY DEF ToolsInOrder
  <2>3. QED
    BY <1>1, <1>2, <2>1, <2>2
<1>4. QED
  BY <1>1, <1>2, <1>3 DEF ToolsInOrder

(* A refused write leaves every row as it was. *)
LEMMA StorageRefusesInv == TaskInv /\ StorageRefuses => TaskInv'
<1> SUFFICES ASSUME TaskInv, StorageRefuses PROVE TaskInv'
  OBVIOUS
<1>1. /\ UNCHANGED <<status, retries, due, origin, tool, attempts, toolRuns>>
      /\ faults < MaxFaults /\ faults' = faults + 1
  BY DEF StorageRefuses, rowVars
<1>2. /\ pc' \in {"loop", "fail"} /\ batch' \subseteq batch
      /\ \/ pc = "loop" /\ pc' = "loop" /\ cur' = cur
         \/ pc = "complete" /\ pc' = "fail" /\ cur' = cur
         \/ pc = "fail" /\ pc' = "loop" /\ cur' = None
  BY DEF StorageRefuses
<1>3. TaskTypeOK'
  <2>1. faults' \in 0 .. MaxFaults
    BY <1>1, TaskAssumption DEF TaskInv, TaskTypeOK
  <2>2. QED
    BY <1>1, <1>2, <2>1 DEF TaskInv, TaskTypeOK
<1>4. RetryBudget' /\ ToolsInOrder' /\ DeadLetterIsLast'
  BY <1>1 DEF TaskInv, RetryBudget, ToolsInOrder, DeadLetterIsLast
<1>5. BatchStillPending'
  BY <1>1, <1>2 DEF TaskInv, BatchStillPending
<1>6. ExecutorOwnsItsRow'
  BY <1>1, <1>2 DEF TaskInv, ExecutorOwnsItsRow, Busy
<1>7. QED
  BY <1>3, <1>4, <1>5, <1>6 DEF TaskInv

LEMMA TaskStepInv == TaskInv /\ [TaskNext]_taskVars => TaskInv'
<1> SUFFICES ASSUME TaskInv, [TaskNext]_taskVars PROVE TaskInv'
  OBVIOUS
<1> USE TaskAssumption, NoneAssumption
        DEF TaskInv, TaskTypeOK, RetryBudget, ToolsInOrder, DeadLetterIsLast,
            ExecutorOwnsItsRow, BatchStillPending, Busy, TaskStatus, Active,
            Terminal, Tool, rowVars, execVars
<1>1. ASSUME NEW t \in Task, NEW w \in Workflow, CreateTask(t, w) PROVE TaskInv'
  BY <1>1 DEF CreateTask
<1>2. CASE Poll
  BY <1>2 DEF Poll, PendingTasks
<1>3. CASE EndPoll
  BY <1>3 DEF EndPoll
<1>4. ASSUME NEW t \in Task, StartTask(t) PROVE TaskInv'
  <2>1. TaskTypeOK'
    BY <1>4, TransitionTable DEF StartTask
  <2>2. RetryBudget'
    <3>1. attempts[t] = retries[t] /\ retries[t] \in 0 .. MaxRetries
      <4>1. status[t] \in {"pending", "retrying"}
        BY <1>4, TransitionTable DEF StartTask
      <4>2. QED
        BY <4>1
    <3>2. /\ attempts' = [attempts EXCEPT ![t] = @ + 1]
          /\ status' = [status EXCEPT ![t] = "running"]
          /\ UNCHANGED retries
      BY <1>4 DEF StartTask
    <3>3. attempts'[t] = retries'[t] + 1 /\ attempts'[t] <= MaxRetries + 1
      BY <3>1, <3>2
    <3>4. ASSUME NEW u \in Task, u # t
          PROVE  attempts'[u] = attempts[u] /\ status'[u] = status[u]
      BY <3>2, <3>4
    <3>5. status'[t] = "running"
      BY <3>2
    <3>6. QED
      BY <3>2, <3>3, <3>4, <3>5
  <2>3. ToolsInOrder'
    BY <1>4, StartTaskOrder
  <2>4. DeadLetterIsLast' /\ BatchStillPending'
    BY <1>4, TransitionTable DEF StartTask
  <2>5. ExecutorOwnsItsRow'
    BY <1>4, TransitionTable DEF StartTask
  <2>6. QED
    BY <2>1, <2>2, <2>3, <2>4, <2>5
<1>5. CASE CancelTask
  BY <1>5 DEF CancelTask
<1>6. CASE ToolSucceeds
  BY <1>6, ToolSucceedsInv
<1>7. CASE ToolFails
  BY <1>7, ToolFailsInv
<1>8. CASE CompleteTask
  BY <1>8 DEF CompleteTask
<1>9. CASE RetryTask
  <2>1. TaskTypeOK'
    BY <1>9 DEF RetryTask
  <2>2. RetryBudget'
    BY <1>9 DEF RetryTask
  <2>3. ToolsInOrder'
    BY <1>9 DEF RetryTask
  <2>4. DeadLetterIsLast' /\ BatchStillPending'
    BY <1>9 DEF RetryTask
  <2>5. ExecutorOwnsItsRow'
    BY <1>9 DEF RetryTask
  <2>6. QED
    BY <2>1, <2>2, <2>3, <2>4, <2>5
<1>10. CASE DeadLetterTask
  <2>1. TaskTypeOK'
    BY <1>10 DEF DeadLetterTask
  <2>2. RetryBudget'
    BY <1>10 DEF DeadLetterTask
  <2>3. ToolsInOrder'
    BY <1>10 DEF DeadLetterTask
  <2>4. DeadLetterIsLast' /\ BatchStillPending'
    BY <1>10 DEF DeadLetterTask
  <2>5. ExecutorOwnsItsRow'
    BY <1>10 DEF DeadLetterTask
  <2>6. QED
    BY <2>1, <2>2, <2>3, <2>4, <2>5
<1>11. ASSUME NEW t \in Task, BackoffElapses(t) PROVE TaskInv'
  BY <1>11 DEF BackoffElapses
<1>12. CASE StorageRefuses
  BY <1>12, StorageRefusesInv
<1>13. CASE ExecutorCrash
  BY <1>13 DEF ExecutorCrash
<1>14. CASE UNCHANGED taskVars
  BY <1>14 DEF taskVars
<1>15. QED
  BY <1>1, <1>2, <1>3, <1>4, <1>5, <1>6, <1>7, <1>8, <1>9, <1>10, <1>11, <1>12,
     <1>13, <1>14
     DEF TaskNext, ExecutorNext, ExecutorStep

-----------------------------------------------------------------------------
(* The inductive invariant holds of every behaviour of the executor. *)
THEOREM TaskInvariance == TaskSpec => []TaskInv
<1>1. TaskInit => TaskInv
  BY TaskInitInv
<1>2. TaskInv /\ [TaskNext]_taskVars => TaskInv'
  BY TaskStepInv
<1>3. QED
  BY <1>1, <1>2, PTL DEF TaskSpec

(* Type correctness of ai_tasks and of the executor's local state. *)
THEOREM TaskTypeCorrect == TaskSpec => []TaskTypeOK
BY TaskInvariance, PTL DEF TaskInv

(* fail_task's counting: no row is ever started more than MaxRetries + 1   *)
(* times, whatever fails, crashes or is refused in between.                *)
THEOREM RetryBudgetHolds == TaskSpec => []RetryBudget
BY TaskInvariance, PTL DEF TaskInv

(* execute_task's tool loop: a completed row has had every tool's effect,  *)
(* and no tool overtakes an earlier one.                                   *)
THEOREM ToolsInOrderHolds == TaskSpec => []ToolsInOrder
BY TaskInvariance, PTL DEF TaskInv

(* dead_letter is entered only when retry_count has reached MaxRetries. *)
THEOREM DeadLetterIsLastHolds == TaskSpec => []DeadLetterIsLast
BY TaskInvariance, PTL DEF TaskInv

(* What get_pending_tasks returned is still so when execute_task acts on   *)
(* it: the refusal in transition_task is not met by a single executor.     *)
THEOREM BatchStillPendingHolds == TaskSpec => []BatchStillPending
BY TaskInvariance, PTL DEF TaskInv

(* A completed, cancelled or dead-lettered row is never written again.     *)
THEOREM EndedStaysHolds == TaskSpec => EndedStays
<1>1. TaskInv /\ [TaskNext]_taskVars
        => [\A t \in Task : status[t] \in Terminal => status'[t] = status[t]]_taskVars
  <2> SUFFICES ASSUME TaskInv, TaskNext,
                      NEW t \in Task, status[t] \in Terminal
               PROVE  status'[t] = status[t]
    OBVIOUS
  <2>1. /\ Busy => cur # t
        /\ t \notin batch
        /\ status \in [Task -> TaskStatus]
    BY DEF TaskInv, TaskTypeOK, ExecutorOwnsItsRow, BatchStillPending, Terminal
  <2>2. ASSUME NEW u \in Task, NEW w \in Workflow, CreateTask(u, w)
        PROVE  status'[t] = status[t]
    BY <2>1, <2>2 DEF CreateTask, Terminal
  <2>3. CASE ExecutorNext
    BY <2>1, <2>3
       DEF ExecutorNext, ExecutorStep, Poll, EndPoll, StartTask, CancelTask,
           ToolSucceeds, ToolFails, CompleteTask, RetryTask, DeadLetterTask,
           BackoffElapses, StorageRefuses, ExecutorCrash, rowVars, Busy
  <2>4. QED
    BY <2>2, <2>3 DEF TaskNext
<1>2. QED
  BY <1>1, TaskInvariance, PTL DEF TaskSpec, EndedStays

-----------------------------------------------------------------------------
StrandedRows == {t \in Task : Stranded(t)}

(* A step strands nothing unless it is a fault, which strands at most the  *)
(* row the executor holds.                                                 *)
LEMMA StrandedStep ==
    ASSUME TaskInv, [TaskNext]_taskVars
    PROVE  \/ StrandedRows' \subseteq StrandedRows /\ faults' >= faults
           \/ StrandedRows' \subseteq StrandedRows \cup {cur} /\ faults' = faults + 1
<1> USE DEF StrandedRows, Stranded
<1>1. /\ Busy <=> cur # None
      /\ Busy => status[cur] = "running"
      /\ status \in [Task -> TaskStatus]
      /\ cur \in Task \cup {None}
      /\ faults \in Nat
  BY TaskAssumption DEF TaskInv, TaskTypeOK, ExecutorOwnsItsRow
<1>2. ASSUME NEW t \in Task, NEW w \in Workflow, CreateTask(t, w)
      PROVE  StrandedRows' \subseteq StrandedRows /\ faults' >= faults
  BY <1>1, <1>2 DEF CreateTask, execVars
<1>3. ASSUME NEW t \in Task, StartTask(t)
      PROVE  StrandedRows' \subseteq StrandedRows /\ faults' >= faults
  <2>1. /\ pc = "loop" /\ cur' = t /\ faults' = faults
        /\ status' = [status EXCEPT ![t] = "running"]
    BY <1>3 DEF StartTask
  <2>2. cur = None
    BY <1>1, <2>1 DEF Busy
  <2>3. ASSUME NEW u \in Task, status'[u] = "running", cur' # u
        PROVE  status[u] = "running" /\ cur # u
    BY <1>1, <2>1, <2>2, <2>3, NoneAssumption
  <2>4. QED
    BY <1>1, <2>1, <2>3
<1>4. CASE Poll \/ EndPoll \/ ToolSucceeds \/ ToolFails
  BY <1>1, <1>4 DEF Poll, EndPoll, ToolSucceeds, ToolFails, rowVars
<1>5. CASE CancelTask \/ CompleteTask \/ RetryTask \/ DeadLetterTask
  BY <1>1, <1>5 DEF CancelTask, CompleteTask, RetryTask, DeadLetterTask, Busy
<1>6. ASSUME NEW t \in Task, BackoffElapses(t)
      PROVE  StrandedRows' \subseteq StrandedRows /\ faults' >= faults
  BY <1>1, <1>6 DEF BackoffElapses, execVars
<1>7. CASE StorageRefuses \/ ExecutorCrash
  BY <1>1, <1>7 DEF StorageRefuses, ExecutorCrash, rowVars
<1>8. CASE UNCHANGED taskVars
  BY <1>1, <1>8 DEF taskVars, rowVars, execVars
<1>9. QED
  BY <1>2, <1>3, <1>4, <1>5, <1>6, <1>7, <1>8
     DEF TaskNext, ExecutorNext, ExecutorStep

(* One fault strands at most one running row, and nothing else strands     *)
(* any: the rows lost to crashes and refused writes are counted by them.   *)
THEOREM StrandedByFaultHolds == TaskSpec => []StrandedByFault
<1> DEFINE Counted == IsFiniteSet(StrandedRows) /\ Cardinality(StrandedRows) <= faults
<1>1. TaskInit => Counted
  <2> SUFFICES ASSUME TaskInit PROVE Counted
    OBVIOUS
  <2>1. StrandedRows = {} /\ faults = 0
    BY DEF TaskInit, StrandedRows, Stranded
  <2>2. QED
    BY <2>1, FS_EmptySet
<1>2. TaskInv /\ Counted /\ [TaskNext]_taskVars => Counted'
  <2> SUFFICES ASSUME TaskInv, Counted, [TaskNext]_taskVars PROVE Counted'
    OBVIOUS
  <2>1. faults \in Nat /\ faults' \in Nat
    BY TaskStepInv, TaskAssumption DEF TaskInv, TaskTypeOK
  <2>2. Cardinality(StrandedRows) \in Nat
    BY FS_CardinalityType
  <2>3. CASE StrandedRows' \subseteq StrandedRows /\ faults' >= faults
    <3>1. /\ IsFiniteSet(StrandedRows')
          /\ Cardinality(StrandedRows') <= Cardinality(StrandedRows)
          /\ Cardinality(StrandedRows') \in Nat
      BY <2>3, FS_Subset, FS_CardinalityType
    <3>2. QED
      BY <2>1, <2>2, <2>3, <3>1
  <2>4. CASE StrandedRows' \subseteq StrandedRows \cup {cur} /\ faults' = faults + 1
    <3>1. /\ IsFiniteSet(StrandedRows \cup {cur})
          /\ Cardinality(StrandedRows \cup {cur}) <= Cardinality(StrandedRows) + 1
          /\ Cardinality(StrandedRows \cup {cur}) \in Nat
      BY <2>2, FS_AddElement, FS_CardinalityType
    <3>2. /\ IsFiniteSet(StrandedRows')
          /\ Cardinality(StrandedRows') <= Cardinality(StrandedRows \cup {cur})
          /\ Cardinality(StrandedRows') \in Nat
      BY <2>4, <3>1, FS_Subset, FS_CardinalityType
    <3>3. QED
      BY <2>1, <2>2, <2>4, <3>1, <3>2
  <2>5. QED
    BY <2>3, <2>4, StrandedStep
<1>3. Counted => StrandedByFault
  BY DEF StrandedByFault, StrandedRows
<1>4. QED
  BY <1>1, <1>2, <1>3, TaskInvariance, PTL DEF TaskSpec

-----------------------------------------------------------------------------
(* The stage of a row changes only where its status does. *)
LEMMA StageOpens ==
    ASSUME TaskTypeOK, NEW t \in Task, NEW s \in Active,
           status' = [status EXCEPT ![t] = s]
    PROVE  Stage' = [Stage EXCEPT ![t] = "open"]
BY DEF TaskTypeOK, Stage, Active, Terminal

LEMMA StageEnds ==
    ASSUME TaskTypeOK, NEW t \in Task, NEW s \in Terminal,
           status' = [status EXCEPT ![t] = s]
    PROVE  Stage' = [Stage EXCEPT ![t] = "ended"]
BY DEF TaskTypeOK, Stage, Terminal

(* Every step of the executor is a step of the board or leaves it alone.   *)
LEMMA BoardStepSimulated ==
    ASSUME TaskInv, [TaskNext]_taskVars
    PROVE  [Board!BoardNext]_(Board!boardVars)
<1> DEFINE Same == Stage' = Stage /\ origin' = origin /\ attempts' = attempts
<1>0. Same => [Board!BoardNext]_(Board!boardVars)
  BY DEF Board!boardVars
<1>1. /\ TaskTypeOK
      /\ Busy <=> cur # None
      /\ Busy => status[cur] = "running"
      /\ cur \in Task \cup {None}
      /\ \A t \in batch : status[t] \in {"pending", "retrying"}
      /\ attempts \in [Task -> Nat]
      /\ retries \in [Task -> Nat]
  BY TaskAssumption DEF TaskInv, TaskTypeOK, ExecutorOwnsItsRow, BatchStillPending
<1>2. \A t \in Task : /\ attempts[t] <= MaxRetries + 1
                      /\ status[t] = "running" => attempts[t] > 0
  BY <1>1, TaskAssumption DEF TaskInv, RetryBudget
<1>3. ASSUME NEW t \in Task, NEW w \in Workflow, CreateTask(t, w)
      PROVE  Board!Insert(t, w)
  <2>1. Stage[t] = "absent" /\ Stage' = [Stage EXCEPT ![t] = "open"]
    <3>1. status[t] = "absent" /\ status' = [status EXCEPT ![t] = "pending"]
      BY <1>3 DEF CreateTask
    <3>2. Stage[t] = "absent"
      BY <3>1 DEF Stage
    <3>3. Stage' = [Stage EXCEPT ![t] = "open"]
      BY <1>1, <3>1, StageOpens DEF Active
    <3>4. QED
      BY <3>2, <3>3
  <2>2. Board!OpenTasks(w) = {}
    BY <1>1, <1>3
       DEF CreateTask, TaskExists, Stage, Board!OpenTasks, TaskTypeOK, TaskStatus
  <2>3. QED
    BY <1>3, <2>1, <2>2 DEF CreateTask, Board!Insert
<1>4. ASSUME NEW t \in Task, StartTask(t)
      PROVE  Board!Attempt(t)
  <2>1. status[t] \in {"pending", "retrying"} /\ status' = [status EXCEPT ![t] = "running"]
    BY <1>1, <1>4 DEF StartTask
  <2>2. Stage[t] = "open" /\ Stage' = Stage
    <3>1. Stage[t] = "open"
      BY <2>1 DEF Stage, Terminal
    <3>2. Stage' = [Stage EXCEPT ![t] = "open"]
      BY <1>1, <2>1, StageOpens DEF Active
    <3>3. QED
      BY <3>1, <3>2 DEF Stage
  <2>3. attempts' = [attempts EXCEPT ![t] = @ + 1] /\ origin' = origin
    BY <1>4 DEF StartTask
  <2>4. attempts[t] < MaxRetries + 1
    <3>1. attempts[t] = retries[t]
      BY <2>1 DEF TaskInv, RetryBudget, Terminal
    <3>2. QED
      BY <1>1, <3>1, TaskAssumption DEF TaskTypeOK
  <2>5. QED
    BY <2>2, <2>3, <2>4 DEF Board!Attempt
<1>5. ASSUME NEW s \in Terminal, Busy, status' = [status EXCEPT ![cur] = s],
             UNCHANGED <<origin, attempts>>
      PROVE  cur \in Task /\ Board!End(cur)
  <2>1. cur \in Task /\ status[cur] = "running"
    BY <1>1, <1>5
  <2>2. Stage[cur] = "open"
    BY <2>1 DEF Stage, Terminal
  <2>3. Stage' = [Stage EXCEPT ![cur] = "ended"]
    BY <1>1, <1>5, <2>1, StageEnds
  <2>4. QED
    BY <1>2, <1>5, <2>1, <2>2, <2>3 DEF Board!End
<1>6. CASE CancelTask \/ CompleteTask \/ DeadLetterTask
  <2>1. \E s \in Terminal : /\ Busy
                            /\ status' = [status EXCEPT ![cur] = s]
                            /\ UNCHANGED <<origin, attempts>>
    BY <1>6 DEF CancelTask, CompleteTask, DeadLetterTask, Terminal, Busy
  <2>2. \E t \in Task : Board!End(t)
    BY <1>5, <2>1
  <2>3. QED
    BY <2>2 DEF Board!BoardNext, Board!BoardStep
<1>7. CASE RetryTask
  <2>1. cur \in Task /\ status[cur] = "running"
    BY <1>1, <1>7 DEF RetryTask, Busy
  <2>2. Stage' = [Stage EXCEPT ![cur] = "open"]
    BY <1>1, <1>7, <2>1, StageOpens DEF RetryTask, Active
  <2>3. Stage[cur] = "open"
    BY <2>1 DEF Stage, Terminal
  <2>4. Stage' = Stage
    BY <2>2, <2>3 DEF Stage
  <2>5. QED
    BY <1>0, <1>7, <2>4 DEF RetryTask
<1>8. CASE \/ Poll \/ EndPoll \/ ToolSucceeds \/ ToolFails \/ StorageRefuses
           \/ ExecutorCrash \/ UNCHANGED taskVars
  <2>1. status' = status /\ origin' = origin /\ attempts' = attempts
    BY <1>8 DEF Poll, EndPoll, ToolSucceeds, ToolFails, StorageRefuses,
                ExecutorCrash, taskVars, rowVars
  <2>2. QED
    BY <1>0, <2>1 DEF Stage
<1>9. ASSUME NEW t \in Task, BackoffElapses(t)
      PROVE  Same
  BY <1>9 DEF BackoffElapses, Stage
<1>10. QED
  BY <1>0, <1>3, <1>4, <1>6, <1>7, <1>8, <1>9
     DEF TaskNext, ExecutorNext, ExecutorStep, Board!BoardNext, Board!BoardStep

(* The executor implements the promise the workflow engine is built on,    *)
(* for every number of tasks, tools, retries and faults.                   *)
THEOREM BoardImplemented == TaskSpec => ImplementsBoard
<1>1. TaskInit => Board!BoardInit
  BY DEF TaskInit, Board!BoardInit, Stage, None, Board!None
<1>2. TaskInv /\ [TaskNext]_taskVars => [Board!BoardNext]_(Board!boardVars)
  BY BoardStepSimulated
<1>3. QED
  BY <1>1, <1>2, TaskInvariance, PTL DEF TaskSpec, ImplementsBoard, Board!BoardSpec
=============================================================================
