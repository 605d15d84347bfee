---------------------------- MODULE RuleExecution ----------------------------
(***************************************************************************)
(* One execution of a structured rule by the LangGraph runtime             *)
(* (langgraph_engine/runtime.py and nodes.py), from the listener that      *)
(* starts it, over the worker that resumes it when its timer fires, to the *)
(* API process that resumes it with an operator's decision.                *)
(*                                                                         *)
(* The state is in three places that are written one after the other: the  *)
(* checkpoint of the graph, the row of rule_executions, and the scheduled  *)
(* entry of the wait node.  A process may die, or a write be refused,      *)
(* between any two; a snapshot may fail to be read; the entry may be fired *)
(* from a stale batch, and moved or cancelled by the operator.             *)
(*                                                                         *)
(* External: LangGraph runs the selected nodes in order, checkpoints after *)
(* each, stops before "approval" and after "wait" where the graph was      *)
(* compiled to, and an invocation without input passes the stop it is at.  *)
(* Abstractions: contents and risk scores are left out; an "edited"        *)
(* decision counts as "approved" (the nodes do not tell them apart); the   *)
(* rule is not edited meanwhile; the endpoints of the API are coroutines   *)
(* that never yield, so the API is one process.                            *)
(***************************************************************************)
EXTENDS Naturals, FiniteSets, Sequences

CONSTANTS
    Requestable,   \* action kinds a rule of this instance may request
    Delays,        \* where a rule may state its delay
    Tenants,       \* whose rule it may be; the worker scans the entries of 1
    ScanLimit,     \* fired entries one scan reads (200 in the code)
    MaxFaults      \* bound: faults of each process

(* _CANONICAL_ORDER. *)
Canonical == <<"wait", "generate_content", "create_coupon", "risk_check",
               "approval", "publish", "notify_customer", "monitor">>

Kind     == {Canonical[i] : i \in DOMAIN Canonical}
Finalize == Len(Canonical) + 1
Process  == {"listener", "worker", "api"}
Effect   == {"create_coupon", "publish", "notify_customer"}

ASSUME RuleAssumption ==
    /\ Requestable \subseteq Kind
    /\ Delays \subseteq {"none", "timing", "config"}
    /\ Tenants \subseteq Nat
    /\ ScanLimit \in Nat \ {0}
    /\ MaxFaults \in Nat

VARIABLES
    rule,       \* the rule's kinds, requires_approval, delay and tenant
    row,        \* rule_executions.status, "absent" before the insert
    ended,      \* ended_at is set
    cp,         \* the last checkpoint of the graph
    entry,      \* the scheduled entry of the wait node: its status, pending
                \* as "due" once its time has come, fired as "handled" once
                \* the worker has seen to it
    ahead,      \* fired entries of tenant 1 that are scheduled before it
    elapsed,    \* the delay is over
    pc,         \* where each process stands
    mem,        \* the graph state each process holds in memory
    effects,    \* how often each outward effect took place
    approved,   \* an operator approved
    faults      \* faults of each process

execVars == <<row, ended, cp, effects, approved>>
ruleVars == <<rule, row, ended, cp, entry, ahead, elapsed, pc, mem, effects,
              approved, faults>>

-----------------------------------------------------------------------------
(* _selected_kinds: publishing brings its content, its risk check and, if  *)
(* the rule asks for it, its approval; a delay brings the wait.            *)
Selected ==
    rule.kinds
      \cup (IF "publish" \in rule.kinds
            THEN {"risk_check", "generate_content"}
                   \cup (IF rule.approval THEN {"approval"} ELSE {})
            ELSE {})
      \cup (IF rule.delay = "timing" THEN {"wait"} ELSE {})

Min(S) == CHOOSE i \in S : \A j \in S : i <= j

(* The node after position i: the next selected kind, or finalize. *)
NextNode(i) ==
    Min({j \in DOMAIN Canonical : j > i /\ Canonical[j] \in Selected} \cup {Finalize})

IsKind(i, k) == i \in DOMAIN Canonical /\ Canonical[i] = k

(* Slips: a graph compiled without the stop                                *)
(* before the approval, or without the stop after the wait.                *)
StopsAtWaitOnly(g) ==
    \/ g.at = Finalize
    \/ IsKind(g.at, "wait") /\ rule.delay = "timing"

StopsAtApprovalOnly(g) ==
    \/ g.at = Finalize
    \/ IsKind(NextNode(g.at), "approval")

(* build_graph: only a delay under timing compiles a stop after the wait. *)
StopsAt(g) ==
    \/ g.at = Finalize
    \/ IsKind(NextNode(g.at), "approval")
    \/ IsKind(g.at, "wait") /\ rule.delay = "timing"

Decided(g) == g.decision \in {"approved", "rejected"}

(* The state a node leaves.  A resolved wait passes, an undecided approval *)
(* asks for a human, a rejected publication cancels.                       *)
AfterNode(g, i, published) ==
    CASE IsKind(i, "wait") ->
           IF g.resolved THEN [g EXCEPT !.at = i, !.status = "running"]
           ELSE IF rule.delay = "none" THEN [g EXCEPT !.at = i]
           ELSE [g EXCEPT !.at = i, !.status = "waiting_timer", !.timer = TRUE]
      [] IsKind(i, "approval") /\ ~Decided(g) ->
           [g EXCEPT !.at = i, !.status = "waiting_human", !.decision = "pending"]
      [] IsKind(i, "publish") ->
           [g EXCEPT !.at = i, !.publish = published,
                     !.status = IF g.decision = "rejected" THEN "cancelled" ELSE @]
      [] i = Finalize ->
           [g EXCEPT !.at = i,
                     !.status = IF g.decision = "rejected"     THEN "cancelled"
                                ELSE IF g.publish = "failed" THEN "failed"
                                ELSE "completed"]
      [] OTHER -> [g EXCEPT !.at = i]

(* Which outward effect a node has; a rejected publication has none. *)
EffectOf(g, i) ==
    {k \in Effect : IsKind(i, k) /\ (k = "publish" => g.decision # "rejected")}

-----------------------------------------------------------------------------
NewGraph == [at |-> 0, decision |-> "none", status |-> "running",
             resolved |-> FALSE, timer |-> FALSE, publish |-> "none"]

RuleInit ==
    /\ rule \in {r \in [kinds : SUBSET Requestable, approval : BOOLEAN, delay : Delays,
                        tenant : Tenants] : r.delay = "config" => "wait" \in r.kinds}
    /\ row        = "absent"
    /\ ended      = FALSE
    /\ cp         = NewGraph
    /\ entry      = "none"
    /\ ahead      = 0
    /\ elapsed    = FALSE
    /\ pc         = [p \in Process |-> "idle"]
    /\ mem        = [p \in Process |-> NewGraph]
    /\ effects    = [k \in Effect |-> 0]
    /\ approved   = FALSE
    /\ faults     = [p \in Process |-> 0]

Goto(p, label) == pc' = [pc EXCEPT ![p] = label]
Hold(p, g)     == mem' = [mem EXCEPT ![p] = g]

(* Something fails in p that p survives. *)
Fails(p) == faults[p] < MaxFaults /\ faults' = [faults EXCEPT ![p] = @ + 1]

(* start_execution: the row, then the invocation (its supervisor node      *)
(* changes nothing).                                                       *)
StartExecution ==
    /\ row = "absent"
    /\ row' = "running"
    /\ Goto("listener", IF StopsAt(NewGraph) THEN "read" ELSE "invoke")
    /\ UNCHANGED <<rule, ended, cp, entry, ahead, elapsed, mem, effects, approved, faults>>

(* One node runs in memory: its outward effect, and for a wait that is due *)
(* later the scheduled entry, whose failure the node swallows.             *)
RunNode(p) ==
    LET g == mem[p]
        i == NextNode(g.at)
    IN  /\ pc[p] = "invoke"
        /\ g.at # Finalize
        /\ \E published \in (IF ~IsKind(i, "publish")    THEN {"none"}
                             ELSE IF g.decision = "rejected" THEN {"failed"}
                             ELSE {"ok", "failed"}) :
              Hold(p, AfterNode(g, i, IF published = "none" THEN g.publish ELSE published))
        /\ effects' = [k \in Effect |-> IF k \in EffectOf(g, i) THEN effects[k] + 1
                                        ELSE effects[k]]
        /\ IF IsKind(i, "wait") /\ ~g.resolved /\ rule.delay # "none"
           THEN \/ entry' = "pending" /\ UNCHANGED faults
                \/ Fails(p) /\ UNCHANGED entry
           ELSE UNCHANGED <<entry, faults>>
        /\ Goto(p, "save")
        /\ UNCHANGED <<rule, row, ended, cp, ahead, elapsed, approved>>

(* LangGraph checkpoints, and stops or goes on. *)
SaveCheckpoint(p) ==
    /\ pc[p] = "save"
    /\ cp' = mem[p]
    /\ Goto(p, IF StopsAt(mem[p]) THEN "read" ELSE "invoke")
    /\ UNCHANGED <<rule, row, ended, entry, ahead, elapsed, mem, effects, approved, faults>>

(* The invocation raises, in a node that does not catch or because the     *)
(* checkpoint cannot be written: the execution has failed.                 *)
InvokeRaises(p) ==
    /\ \/ pc[p] = "save"
       \/ /\ pc[p] = "invoke"
          /\ \E k \in {"generate_content", "risk_check"} : IsKind(NextNode(mem[p].at), k)
    /\ row' = "failed"
    /\ ended' = TRUE
    /\ Goto(p, IF p = "worker" THEN "handled" ELSE "idle")
    /\ UNCHANGED <<rule, cp, entry, ahead, elapsed, mem, effects, approved, faults>>

(* What a caller takes for the snapshot when the checkpoint cannot be read. *)
Unread(p) == [NewGraph EXCEPT !.status = IF p = "api" THEN "completed" ELSE "running"]

(* _read_snapshot, which turns an exception into an empty snapshot ...      *)
ReadSnapshot(p) ==
    /\ pc[p] = "read"
    /\ \/ Hold(p, cp) /\ UNCHANGED faults
       \/ Hold(p, Unread(p)) /\ Fails(p)
    /\ Goto(p, "ask")
    /\ UNCHANGED <<rule, entry, ahead, elapsed, execVars>>

(* ... and _graph_is_finished, which turns one into "no".                   *)
AskFinished(p) ==
    /\ pc[p] = "ask"
    /\ \/ Goto(p, IF cp.at = Finalize THEN "close" ELSE "write") /\ UNCHANGED faults
       \/ Goto(p, "write") /\ Fails(p)
    /\ UNCHANGED <<rule, entry, ahead, elapsed, mem, execVars>>

(* The status each caller derives from the snapshot of a graph that has     *)
(* finished, and of one that has not.                                       *)
Closing(p, g) == IF g.status = "running" /\ p # "api" THEN "completed" ELSE g.status
Outcome(p, g) ==
    CASE p = "listener" -> IF IsKind(g.at, "wait") /\ g.timer /\ ~g.resolved
                           THEN "waiting_timer" ELSE "waiting_human"
      [] p = "worker"   -> IF Decided(g) THEN g.status ELSE "waiting_human"
      [] p = "api"      -> g.status

(* Slip: ended_at is never set.                                            *)
WriteRowStillOpen(p) ==
    /\ pc[p] \in {"write", "close"}
    /\ row' = IF pc[p] = "close" THEN Closing(p, mem[p]) ELSE Outcome(p, mem[p])
    /\ Goto(p, IF p = "worker" THEN "handled" ELSE "idle")
    /\ UNCHANGED <<rule, ended, cp, entry, ahead, elapsed, mem, effects, approved, faults>>

WriteRow(p) ==
    /\ pc[p] \in {"write", "close"}
    /\ row' = IF pc[p] = "close" THEN Closing(p, mem[p]) ELSE Outcome(p, mem[p])
    /\ ended' = (ended \/ pc[p] = "close")
    /\ Goto(p, IF p = "worker" THEN "handled" ELSE "idle")
    /\ UNCHANGED <<rule, cp, entry, ahead, elapsed, mem, effects, approved, faults>>

-----------------------------------------------------------------------------
(* The scheduled entry of the wait                                         *)
-----------------------------------------------------------------------------
DelayElapses ==
    /\ entry = "pending"
    /\ entry' = "due"
    /\ elapsed' = TRUE
    /\ UNCHANGED <<rule, ahead, pc, mem, faults, execVars>>

(* due_schedules reads a batch of pending entries whose time has come, in   *)
(* the worker's loop or for the API's endpoint ...                          *)
PollEntry(p) ==
    /\ p \in {"worker", "api"}
    /\ pc[p] = "idle"
    /\ entry = "due"
    /\ Goto(p, "fire")
    /\ UNCHANGED <<rule, entry, ahead, elapsed, mem, faults, execVars>>

(* ... and fire_schedule fires each, whatever has become of it: what        *)
(* _mark_fired and _mark_failed write is the status, not the handled mark.  *)
Fire(p) ==
    /\ pc[p] = "fire"
    /\ \/ entry' = (IF entry = "handled" THEN entry ELSE "fired") /\ UNCHANGED faults
       \/ entry' = (IF entry = "handled" THEN entry ELSE "failed") /\ Fails(p)
    /\ Goto(p, "idle")
    /\ UNCHANGED <<rule, ahead, elapsed, mem, execVars>>

(* Other entries of tenant 1 fire; fired entries never leave the table.     *)
OthersFire ==
    /\ ahead < ScanLimit
    /\ ahead' = ahead + 1
    /\ UNCHANGED <<rule, entry, elapsed, pc, mem, faults, execVars>>

(* The operator moves or cancels the entry: a check of its status ...       *)
EditEntry(edit) ==
    /\ pc["api"] = "idle"
    /\ entry \in {"pending", "due"}
    /\ Goto("api", edit)
    /\ UNCHANGED <<rule, entry, ahead, elapsed, mem, faults, execVars>>

(* ... and a write that does not look again.                                *)
CancelEntry ==
    /\ pc["api"] = "cancel"
    /\ entry' = IF entry = "handled" THEN entry ELSE "cancelled"
    /\ Goto("api", "idle")
    /\ UNCHANGED <<rule, ahead, elapsed, mem, faults, execVars>>

MoveEntry ==
    /\ pc["api"] = "move"
    /\ entry' \in (IF entry \in {"pending", "due"} THEN {"pending", "due"} ELSE {entry})
    /\ ahead' \in 0 .. ScanLimit
    /\ elapsed' = (elapsed \/ entry' = "due")
    /\ Goto("api", "idle")
    /\ UNCHANGED <<rule, mem, faults, execVars>>

-----------------------------------------------------------------------------
(* list_schedules of _handle_wait_resumes: user 1, the oldest 200.          *)
Scanned == rule.tenant = 1 /\ ahead < ScanLimit

(* Slip: the wrong waiting status is looked for.                           *)
ResumeAfterWaitForHuman ==
    /\ pc["worker"] = "idle"
    /\ entry = "fired"
    /\ Scanned
    /\ Goto("worker", IF row = "waiting_human" THEN "patch" ELSE "handled")
    /\ UNCHANGED <<rule, entry, ahead, elapsed, mem, faults, execVars>>

(* _handle_wait_resumes and resume_after_wait: any other status is a no-op *)
(* that counts as handled.                                                 *)
ResumeAfterWait ==
    /\ pc["worker"] = "idle"
    /\ entry = "fired"
    /\ Scanned
    /\ Goto("worker", IF row = "waiting_timer" THEN "patch" ELSE "handled")
    /\ UNCHANGED <<rule, entry, ahead, elapsed, mem, faults, execVars>>

PatchAfterWait ==
    /\ pc["worker"] = "patch"
    /\ cp' = [cp EXCEPT !.status = "running", !.resolved = TRUE]
    /\ Hold("worker", cp')
    /\ Goto("worker", IF cp.at = Finalize THEN "read" ELSE "invoke")
    /\ UNCHANGED <<rule, row, ended, entry, ahead, elapsed, effects, approved, faults>>

MarkHandled ==
    /\ pc["worker"] = "handled"
    /\ entry' = "handled"
    /\ Goto("worker", "idle")
    /\ UNCHANGED <<rule, ahead, elapsed, mem, faults, execVars>>

(* Slip: the row is not checked.                                           *)
ResumeExecutionUnchecked ==
    /\ pc["api"] = "idle"
    /\ row # "absent"
    /\ Goto("api", "patch")
    /\ UNCHANGED <<rule, entry, ahead, elapsed, mem, faults, execVars>>

(* resume_execution: the check of the row, then the operator's decision    *)
(* patched into the checkpoint.                                            *)
ResumeExecution ==
    /\ pc["api"] = "idle"
    /\ row = "waiting_human"
    /\ Goto("api", "patch")
    /\ UNCHANGED <<rule, entry, ahead, elapsed, mem, faults, execVars>>

PatchDecision(d) ==
    /\ pc["api"] = "patch"
    /\ cp' = [cp EXCEPT !.decision = d, !.status = "running"]
    /\ Hold("api", cp')
    /\ Goto("api", IF cp.at = Finalize THEN "read" ELSE "invoke")
    /\ approved' = (approved \/ d = "approved")
    /\ UNCHANGED <<rule, row, ended, entry, ahead, elapsed, effects, faults>>

(* The process dies, or its next write is refused and the exception leaves *)
(* the call; either way the process starts over.                           *)
Interrupted(p) ==
    /\ pc[p] # "idle"
    /\ Fails(p)
    /\ Goto(p, "idle")
    /\ UNCHANGED <<rule, entry, ahead, elapsed, mem, execVars>>

RunStep(p) ==
    \/ RunNode(p)
    \/ SaveCheckpoint(p)
    \/ InvokeRaises(p)
    \/ ReadSnapshot(p)
    \/ AskFinished(p)
    \/ WriteRow(p)

WorkerNext == ResumeAfterWait \/ PatchAfterWait \/ MarkHandled
Firing     == PollEntry("worker") \/ \E p \in Process : Fire(p)
Edited     == CancelEntry \/ MoveEntry

RuleNext ==
    \/ StartExecution
    \/ \E p \in Process : RunStep(p) \/ Interrupted(p)
    \/ DelayElapses
    \/ PollEntry("api")
    \/ Firing
    \/ OthersFire
    \/ WorkerNext
    \/ \E edit \in {"cancel", "move"} : EditEntry(edit)
    \/ Edited
    \/ ResumeExecution
    \/ \E d \in {"approved", "rejected"} : PatchDecision(d)

RuleSpec == RuleInit /\ [][RuleNext]_ruleVars

(* Processes that started an invocation, a firing or an edit finish it, the *)
(* worker keeps polling and scanning, time passes; the operator is under no *)
(* obligation.                                                              *)
RuleFairness ==
    /\ \A p \in Process : WF_ruleVars(RunStep(p))
    /\ WF_ruleVars(WorkerNext)
    /\ WF_ruleVars(Firing)
    /\ WF_ruleVars(Edited)
    /\ WF_ruleVars(DelayElapses)

FairRuleSpec == RuleSpec /\ RuleFairness

-----------------------------------------------------------------------------
Terminal  == {"completed", "cancelled", "failed"}
RowStatus == {"absent", "running", "waiting_timer", "waiting_human"} \cup Terminal
Quiet     == \A p \in Process : pc[p] = "idle"
Faultless == \A p \in Process : faults[p] = 0
Unacted   == \A k \in Effect : effects[k] = 0

Graph == [at       : 0 .. Finalize,
          decision : {"none", "pending", "approved", "rejected"},
          status   : RowStatus \ {"absent"},
          resolved : BOOLEAN,
          timer    : BOOLEAN,
          publish  : {"none", "ok", "failed"}]

(* Nothing that needs an approval is published without one, whatever the   *)
(* listener and the API go through; only the worker's resume has the gap   *)
(* that ApprovalAlways shows.                                              *)
ApprovalGate ==
    "approval" \in Selected /\ effects["publish"] > 0
      => approved \/ faults["worker"] > 0

(* An outward effect takes place once, and once more only for a fault that *)
(* hit between the effect and its checkpoint.                              *)
EffectsOnce ==
    \A k \in Effect : effects[k] <= 1 + faults["worker"] + faults["api"]

(* Before the delay of the rule's timing is over nothing happens outside,   *)
(* but by the decision of an operator whom a fault of the listener let see  *)
(* the wait as one for an approval.                                         *)
DelayRespected ==
    rule.delay = "timing" /\ ~elapsed
      => Unacted \/ (faults["listener"] > 0 /\ cp.decision # "none")

(* When nobody is in the middle of something and nothing went wrong, the   *)
(* row says where the graph stands.                                        *)
RowMatchesGraph ==
    Quiet /\ Faultless =>
        /\ row = "waiting_human" => IsKind(NextNode(cp.at), "approval") /\ ~Decided(cp)
        /\ row = "waiting_timer" => IsKind(cp.at, "wait") /\ ~cp.resolved
        /\ row \in {"completed", "cancelled"} => cp.at = Finalize /\ cp.status = row
        /\ row # "running"
        /\ ended <=> row \in Terminal

(* The verdict of an execution is final. *)
VerdictStays == [][(row \in Terminal) => row' = row]_ruleVars

(* A waiting execution whose entry is still to fire is woken up, also over  *)
(* faults, unless its firing fails, the operator cancels or keeps moving    *)
(* it, or it is not among the entries the worker scans.                     *)
TimerWakes ==
    row = "waiting_timer" /\ entry \in {"pending", "due"} ~>
        \/ row # "waiting_timer"
        \/ entry \in {"failed", "cancelled"} \/ pc["api"] = "move"
        \/ ~Scanned

(* What the listener starts comes to a stop that the row shows. *)
StartSettles ==
    pc["listener"] # "idle" ~> row # "running" \/ faults["listener"] > 0

(* Nothing that is started, or that waits for a timer still to fire, hangs. *)
ExecutionsMoveOn == TimerWakes /\ StartSettles

-----------------------------------------------------------------------------
(* nodes.py:126-128: when workflow_worker._handle_wait_resumes() sees the   *)
(* entry fired, runtime.resume_after_wait() is called and the node passes.  *)
WaitsEnd ==
    row = "waiting_timer" ~>
        \/ row # "waiting_timer"
        \/ entry = "cancelled" \/ pc["api"] = "move"
        \/ ~Scanned

(* "Approval gating: after the wait, approval is still a mandatory         *)
(* interrupt" (SON_DEGISIKLIKLER_VE_GENEL_SISTEM.md, T2-10).               *)
ApprovalAlways == "approval" \in Selected /\ effects["publish"] > 0 => approved

=============================================================================
