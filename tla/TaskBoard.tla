------------------------------ MODULE TaskBoard ------------------------------
(***************************************************************************)
(* What the task table promises to the workflow engine, whatever happens   *)
(* inside the executor: tasks are inserted for a workflow one at a time,   *)
(* an open task is attempted a bounded number of times, and an attempted   *)
(* task may end.  TaskExecution implements this; WorkflowEngine is built   *)
(* on it.                                                                  *)
(***************************************************************************)
EXTENDS Naturals

CONSTANTS
    Task,         \* tasks this instance may insert
    Workflow,     \* workflows that tasks are inserted for
    MaxAttempts   \* how often a task may be attempted

ASSUME BoardAssumption == MaxAttempts \in Nat \ {0}

None == "none"
ASSUME NoneAssumption == None \notin Task /\ None \notin Workflow

VARIABLES
    stage,      \* absent, open or ended
    origin,     \* the workflow a task was inserted for
    attempts    \* how often the task's tools were started

boardVars == <<stage, origin, attempts>>

OpenTasks(w) == {t \in Task : origin[t] = w /\ stage[t] = "open"}

BoardInit ==
    /\ stage    = [t \in Task |-> "absent"]
    /\ origin   = [t \in Task |-> None]
    /\ attempts = [t \in Task |-> 0]

Insert(t, w) ==
    /\ stage[t] = "absent"
    /\ OpenTasks(w) = {}
    /\ stage' = [stage EXCEPT ![t] = "open"]
    /\ origin' = [origin EXCEPT ![t] = w]
    /\ UNCHANGED attempts

Attempt(t) ==
    /\ stage[t] = "open"
    /\ attempts[t] < MaxAttempts
    /\ attempts' = [attempts EXCEPT ![t] = @ + 1]
    /\ UNCHANGED <<stage, origin>>

End(t) ==
    /\ stage[t] = "open"
    /\ attempts[t] > 0
    /\ stage' = [stage EXCEPT ![t] = "ended"]
    /\ UNCHANGED <<origin, attempts>>

BoardStep == \E t \in Task : Attempt(t) \/ End(t)
BoardNext == BoardStep \/ \E t \in Task, w \in Workflow : Insert(t, w)
BoardSpec == BoardInit /\ [][BoardNext]_boardVars
=============================================================================
