----------------------------- MODULE Scheduling -----------------------------
(***************************************************************************)
(* The operator's calendar (scheduling_service.py): entries that the       *)
(* operator creates, moves and cancels through the API, and that a firing  *)
(* turns into workflows once they are due.  The workflow worker fires in   *)
(* its loop, the API fires on request, and both are processes of their     *)
(* own: what one of them read at its poll may be stale when it acts on it. *)
(*                                                                         *)
(* A workflow is seen here as create_workflow sees it: a name whose rows   *)
(* are active, completed or neither (WorkflowEngine has their life).       *)
(*                                                                         *)
(* Abstractions: one tenant; time counts occurrences, so daily, weekly and *)
(* monthly are one step; a poll takes every due entry (the code takes 50)  *)
(* in any order; a past time is due as the present is, so the operator     *)
(* chooses from now on; payloads, titles and approval flags are left out.  *)
(***************************************************************************)
EXTENDS Naturals, FiniteSets

CONSTANTS
    MaxEntries, \* bound: rows of scheduled_entries, in the order of their ids
    Name,       \* workflow names
    MaxTime,    \* bound of the clock
    MaxFaults   \* bound: crashes and refused writes of a firing process

None    == "none"
Entry   == 1 .. MaxEntries
NoEntry == 0

ASSUME ScheduleAssumption ==
    /\ MaxEntries \in Nat
    /\ MaxTime \in Nat
    /\ MaxFaults \in Nat
    /\ None \notin Name

Firer == {"worker", "api"}
Time  == 0 .. MaxTime + 1

VARIABLES
    \* the columns of scheduled_entries
    status,     \* status, or "absent" for a row not inserted yet
    at,         \* scheduled_at
    name,       \* workflow_name
    recurring,  \* recurrence # 'once'
    linked,     \* workflow_id is not NULL
    \* the workflow table, as far as create_workflow asks it
    active,     \* a scheduled or running row of the name exists
    completed,  \* a completed row of the name exists
    \* the processes
    pc,         \* where each one stands
    batch,      \* due entries of the current poll not visited yet
    cur,        \* the entry it works on
    read,       \* scheduled_at as it was read at the poll
    made,       \* create_workflow returned an id
    \* environment and history
    now,        \* the clock
    runs,       \* workflows created for each entry
    follow,     \* followups created for each entry
    faults      \* how many faults have happened

rowVars   == <<status, at, name, recurring, linked>>
flowVars  == <<active, completed>>
procVars  == <<pc, batch, cur, read, made>>
histVars  == <<runs, follow>>
schedVars == <<rowVars, flowVars, procVars, now, histVars, faults>>

-----------------------------------------------------------------------------
(* Slips of due_schedules: any time, and only what was due before. *)
DueAnyTime == {e \in Entry : status[e] = "pending"}
DueBefore  == {e \in Entry : status[e] = "pending" /\ at[e] < now}

(* due_schedules. *)
Due == {e \in Entry : status[e] = "pending" /\ at[e] <= now}

(* workflow_exists: completed rows count. *)
WorkflowExists(n) == active[n] \/ completed[n]

Absent == {e \in Entry : status[e] = "absent"}
IsNext(e) == e \in Absent /\ \A f \in Absent : e <= f

Goto(p, label) == pc' = [pc EXCEPT ![p] = label]

(* What a process read is gone when it is through with an entry. *)
LeaveEntry(p) ==
    /\ Goto(p, "loop")
    /\ cur'  = [cur  EXCEPT ![p] = NoEntry]
    /\ made' = [made EXCEPT ![p] = FALSE]
    /\ read' = [read EXCEPT ![p][cur[p]] = 0]

SchedInit ==
    /\ status    = [e \in Entry |-> "absent"]
    /\ at        = [e \in Entry |-> 0]
    /\ name      = [e \in Entry |-> None]
    /\ recurring = [e \in Entry |-> FALSE]
    /\ linked    = [e \in Entry |-> FALSE]
    /\ active    = [n \in Name |-> FALSE]
    /\ completed = [n \in Name |-> FALSE]
    /\ pc        = [p \in Firer |-> "idle"]
    /\ batch     = [p \in Firer |-> {}]
    /\ cur       = [p \in Firer |-> NoEntry]
    /\ read      = [p \in Firer |-> [e \in Entry |-> 0]]
    /\ made      = [p \in Firer |-> FALSE]
    /\ now       = 0
    /\ runs      = [e \in Entry |-> 0]
    /\ follow    = [e \in Entry |-> 0]
    /\ faults    = 0

-----------------------------------------------------------------------------
(* create_schedule: what every creator of an entry ends in. *)
Store(e, n, t, r) ==
    /\ status' = [status EXCEPT ![e] = "pending"]
    /\ at' = [at EXCEPT ![e] = t]
    /\ name' = [name EXCEPT ![e] = n]
    /\ recurring' = [recurring EXCEPT ![e] = r]
    /\ UNCHANGED linked

CreateSchedule(e, n, t, r) ==
    /\ IsNext(e)
    /\ Store(e, n, t, r)
    /\ UNCHANGED <<flowVars, procVars, now, histVars, faults>>

(* move_schedule and cancel_schedule read the entry, refuse what is not    *)
(* pending, and write in a second transaction.                             *)
BeginEdit(e, label) ==
    /\ pc["api"] = "idle"
    /\ status[e] = "pending"
    /\ Goto("api", label)
    /\ cur' = [cur EXCEPT !["api"] = e]
    /\ UNCHANGED <<rowVars, flowVars, batch, read, made, now, histVars, faults>>

EditDone ==
    /\ Goto("api", "idle")
    /\ cur' = [cur EXCEPT !["api"] = NoEntry]
    /\ UNCHANGED <<name, recurring, linked, flowVars, batch, read, made, now, histVars, faults>>

MoveSchedule(t) ==
    /\ pc["api"] = "move"
    /\ at' = [at EXCEPT ![cur["api"]] = t]
    /\ EditDone
    /\ UNCHANGED status

CancelSchedule ==
    /\ pc["api"] = "cancel"
    /\ status' = [status EXCEPT ![cur["api"]] = "cancelled"]
    /\ EditDone
    /\ UNCHANGED at

-----------------------------------------------------------------------------
(* fire_due_schedules reads the due entries, as they are now. *)
PollDue(p) ==
    /\ pc[p] = "idle"
    /\ Due # {}
    /\ Goto(p, "loop")
    /\ batch' = [batch EXCEPT ![p] = Due]
    /\ read' = [read EXCEPT ![p] = [e \in Entry |-> IF e \in Due THEN at[e] ELSE 0]]
    /\ UNCHANGED <<rowVars, flowVars, cur, made, now, histVars, faults>>

(* fire_schedule, up to create_workflow's check of the name. *)
CheckName(p, e) ==
    /\ pc[p] = "loop"
    /\ e \in batch[p]
    /\ batch' = [batch EXCEPT ![p] = @ \ {e}]
    /\ cur' = [cur EXCEPT ![p] = e]
    /\ Goto(p, IF WorkflowExists(name[e]) THEN "mark" ELSE "insert")
    /\ UNCHANGED <<rowVars, flowVars, read, made, now, histVars, faults>>

(* Slip: the id of the row that was there before is returned. *)
InsertWorkflowOrFind(p) ==
    LET n == name[cur[p]]
    IN  /\ pc[p] = "insert"
        /\ made' = [made EXCEPT ![p] = TRUE]
        /\ active' = [active EXCEPT ![n] = TRUE]
        /\ runs' = IF active[n] THEN runs ELSE [runs EXCEPT ![cur[p]] = @ + 1]
        /\ Goto(p, "mark")
        /\ UNCHANGED <<rowVars, completed, batch, cur, read, now, follow, faults>>

(* create_workflow's insert; an active row of the name refuses it, which   *)
(* create_workflow answers with None.                                      *)
InsertWorkflow(p) ==
    LET n == name[cur[p]]
    IN  /\ pc[p] = "insert"
        /\ made' = [made EXCEPT ![p] = ~active[n]]
        /\ active' = [active EXCEPT ![n] = TRUE]
        /\ runs' = IF active[n] THEN runs ELSE [runs EXCEPT ![cur[p]] = @ + 1]
        /\ Goto(p, "mark")
        /\ UNCHANGED <<rowVars, completed, batch, cur, read, now, follow, faults>>

AfterMark(p, goOn) ==
    IF goOn
    THEN Goto(p, "followup") /\ UNCHANGED <<cur, read, made>>
    ELSE LeaveEntry(p)

(* Slips: the entry stays pending, and only what ran goes on. *)
MarkFiredAtOnly(p) ==
    /\ pc[p] = "mark"
    /\ linked' = [linked EXCEPT ![cur[p]] = made[p]]
    /\ AfterMark(p, recurring[cur[p]])
    /\ UNCHANGED <<status, at, name, recurring, flowVars, batch, now, histVars, faults>>

MarkFiredGoOnIfMade(p) ==
    /\ pc[p] = "mark"
    /\ status' = [status EXCEPT ![cur[p]] = "fired"]
    /\ linked' = [linked EXCEPT ![cur[p]] = made[p]]
    /\ AfterMark(p, recurring[cur[p]] /\ made[p])
    /\ UNCHANGED <<at, name, recurring, flowVars, batch, now, histVars, faults>>

(* _mark_fired: whatever the status is now. *)
MarkFired(p) ==
    /\ pc[p] = "mark"
    /\ status' = [status EXCEPT ![cur[p]] = "fired"]
    /\ linked' = [linked EXCEPT ![cur[p]] = made[p]]
    /\ AfterMark(p, recurring[cur[p]])
    /\ UNCHANGED <<at, name, recurring, flowVars, batch, now, histVars, faults>>

(* _next_occurrence of a time that was read at the poll. *)
NextOccurrence(t) == t + 1

(* _maybe_create_followup.  When the rows of the instance are used up the  *)
(* chain is not followed.                                                  *)
CreateFollowup(p) ==
    LET e == cur[p]
    IN  /\ pc[p] = "followup"
        /\ \/ \E f \in Entry :
                 IsNext(f) /\ Store(f, name[e], NextOccurrence(read[p][e]), TRUE)
           \/ Absent = {} /\ UNCHANGED rowVars
        /\ follow' = [follow EXCEPT ![e] = @ + 1]
        /\ LeaveEntry(p)
        /\ UNCHANGED <<flowVars, batch, now, runs, faults>>

EndPoll(p) ==
    /\ pc[p] = "loop"
    /\ batch[p] = {}
    /\ Goto(p, "idle")
    /\ UNCHANGED <<rowVars, flowVars, batch, cur, read, made, now, histVars, faults>>

(* The storage refuses a write.  What leaves create_workflow marks the     *)
(* entry failed, if that write is not refused as well: also when the       *)
(* workflow is in the table and only its log could not be written.  What   *)
(* leaves fire_schedule elsewhere skips the entry in this poll.            *)
Refused(p) ==
    /\ pc[p] \in {"insert", "mark", "followup"}
    /\ faults < MaxFaults
    /\ faults' = faults + 1
    /\ \/ UNCHANGED status
       \/ /\ pc[p] = "insert" \/ (pc[p] = "mark" /\ made[p])
          /\ status' = [status EXCEPT ![cur[p]] = "failed"]
    /\ LeaveEntry(p)
    /\ UNCHANGED <<at, name, recurring, linked, flowVars, batch, now, histVars>>

(* The process dies and supervisord starts it again. *)
FirerCrash(p) ==
    /\ pc[p] # "idle"
    /\ faults < MaxFaults
    /\ faults' = faults + 1
    /\ Goto(p, "idle")
    /\ batch' = [batch EXCEPT ![p] = {}]
    /\ cur' = [cur EXCEPT ![p] = NoEntry]
    /\ read' = [read EXCEPT ![p] = [e \in Entry |-> 0]]
    /\ made' = [made EXCEPT ![p] = FALSE]
    /\ UNCHANGED <<rowVars, flowVars, now, histVars>>

-----------------------------------------------------------------------------
(* The workflow worker completes a workflow, or it is cancelled. *)
WorkflowEnds(n) ==
    /\ active[n]
    /\ active' = [active EXCEPT ![n] = FALSE]
    /\ \/ completed' = [completed EXCEPT ![n] = TRUE]
       \/ UNCHANGED completed
    /\ UNCHANGED <<rowVars, procVars, now, histVars, faults>>

Tick ==
    /\ now < MaxTime
    /\ now' = now + 1
    /\ UNCHANGED <<rowVars, flowVars, procVars, histVars, faults>>

FireStep(p) ==
    \/ \E e \in Entry : CheckName(p, e)
    \/ InsertWorkflow(p)
    \/ MarkFired(p)
    \/ CreateFollowup(p)
    \/ EndPoll(p)

EditStep == (\E t \in now .. MaxTime : MoveSchedule(t)) \/ CancelSchedule

SchedNext ==
    \/ \E e \in Entry, n \in Name, t \in now .. MaxTime, r \in BOOLEAN : CreateSchedule(e, n, t, r)
    \/ \E e \in Entry, label \in {"move", "cancel"} : BeginEdit(e, label)
    \/ EditStep
    \/ \E p \in Firer : PollDue(p) \/ FireStep(p) \/ Refused(p) \/ FirerCrash(p)
    \/ \E n \in Name : WorkflowEnds(n)
    \/ Tick

SchedSpec == SchedInit /\ [][SchedNext]_schedVars

(* The worker's loop polls and fires for ever and the API finishes what it *)
(* began; the operator, the workflows and the clock are under no           *)
(* obligation.                                                             *)
SchedFairness ==
    /\ WF_schedVars(PollDue("worker") \/ FireStep("worker"))
    /\ WF_schedVars(FireStep("api") \/ EditStep)

FairSchedSpec == SchedSpec /\ SchedFairness

-----------------------------------------------------------------------------
SchedStatus == {"absent", "pending", "fired", "cancelled", "failed"}

Fires(p)  == pc[p] \notin {"move", "cancel"}
InHand(e) == \E p \in Firer : e \in batch[p] \/ (cur[p] = e /\ Fires(p))

(* A recurring entry that fired goes on: it has a followup, unless a fault *)
(* hit.                                                                    *)
ChainKept ==
    \A e \in Entry :
        /\ status[e] = "fired" /\ recurring[e]
        /\ \A p \in Firer : cur[p] # e
        /\ faults = 0
        => follow[e] > 0

(* What an entry is worth, whatever the firing processes, the operator and *)
(* the faults do to it: one workflow for every process that fires and one  *)
(* more for every fault, and a chain that forks at most once for every     *)
(* process.                                                                *)
FiringsBounded ==
    \A e \in Entry : /\ runs[e] <= Cardinality(Firer) + faults
                     /\ follow[e] <= Cardinality(Firer)

(* A workflow_id in the calendar belongs to a workflow of the entry, and   *)
(* an entry that is still to fire has no followup.                         *)
LinkTruthful ==
    \A e \in Entry :
        /\ linked[e] => runs[e] > 0
        /\ status[e] \in {"absent", "pending"} /\ ~InHand(e) => follow[e] = 0

Held(e) == status[e] = "cancelled" \/ (status[e] = "pending" /\ at[e] > now)

(* An edit beats every poll that reads it: an entry that is cancelled, or  *)
(* moved into the future, in the hands of no process is taken up by none   *)
(* and neither runs nor ends, for as long as that is so.                   *)
EditsHold ==
    [][\A e \in Entry :
          Held(e) /\ ~InHand(e)
          => /\ runs'[e] = runs[e]
             /\ status'[e] = status[e] \/ status'[e] = "cancelled"
             /\ Held(e)' => ~InHand(e)']_schedVars

(* Every due entry is fired, fails, is cancelled or is moved away, over    *)
(* the faults of the firing processes.                                     *)
DueFires ==
    \A e \in Entry :
        status[e] = "pending" /\ at[e] <= now ~> status[e] # "pending" \/ at[e] > now

-----------------------------------------------------------------------------
=============================================================================
