-------------------------- MODULE OperationRuntime --------------------------
(***************************************************************************)
(* The operation runtime of the agent application: an operation is run by  *)
(* one coroutine that plans a chain of tools, runs them, answers and emits *)
(* events; clients read the events from a bounded queue of their own, the  *)
(* creator from the start, others after a replay of the log.               *)
(*                                                                         *)
(* Everything runs on one event loop, so the code between two real awaits  *)
(* (a handler, the language model, a client's yield) is one action: the    *)
(* store's lock is never contended and its `async with' never suspends.    *)
(***************************************************************************)
EXTENDS Naturals, Sequences

CONSTANTS
    Operation,    \* operations this instance creates
    Client,       \* streams that may be opened
    Creator,      \* those of them that are answers to the creating request
    Request,      \* what the interpreter can make of a message
    QueueCap,     \* room in a subscriber's queue (300 in the code)
    MaxChunks     \* chunks of one answer

ASSUME RuntimeAssumption == Creator \subseteq Client /\ QueueCap \in Nat \ {0} /\ MaxChunks \in Nat

NoOp == "noop"
ASSUME NoOpAssumption == NoOp \notin Operation

VARIABLES
    opState,      \* where the operation is in its state machine
    opStatus,     \* none, running or completed
    opTask,       \* where its coroutine is
    opRequest,    \* what the operator asked for
    opChain,      \* the tools still to run
    opContent,    \* what tools left in the context: caption, image
    opApprovals,  \* approvals created for it
    opLog,        \* the events of the operation, in order
    viewer        \* the streams

opsVars == <<opState, opStatus, opTask, opRequest, opChain, opContent,
             opApprovals, opLog, viewer>>

(***************************************************************************)
(* The state machine                                                       *)
(***************************************************************************)
Ending == {"completed", "failed", "cancelled"}

Transitions ==
    [created          |-> {"queued", "cancelled"},
     queued           |-> {"running", "cancelled", "failed"},
     running          |-> {"waiting_approval", "scheduled"} \cup Ending,
     waiting_approval |-> {"running", "scheduled"} \cup Ending,
     scheduled        |-> Ending,
     completed        |-> {}, failed |-> {}, cancelled |-> {}]

MayGo(state, target) == target \in Transitions[state]

\* A transition whose ValueError is swallowed leaves the state alone.
Try(state, target) == IF MayGo(state, target) THEN target ELSE state

(***************************************************************************)
(* The tools of a request                                                  *)
(***************************************************************************)
Creation == <<"analyze_product", "generate_strategy", "generate_caption",
              "generate_image">>

IntentChain(intent, action) ==
    CASE intent = "create_campaign" /\ action = "save_draft" ->
            Append(Creation, "event_generated")
      [] intent = "create_campaign" /\ action = "create_and_schedule" ->
            Creation \o <<"create_approval", "schedule_post">>
      [] intent = "create_campaign" /\ action = "create_and_publish" ->
            Creation \o <<"create_approval", "schedule_post", "publish_queue",
                          "event_generated">>
      [] intent = "create_campaign" /\ action = "other" ->
            Append(Creation, "create_approval")
      [] intent = "approve_campaign" /\ action = "schedule_content" ->
            <<"schedule_post">>
      [] intent = "approve_campaign" /\ action # "schedule_content" ->
            <<"schedule_post", "publish_queue", "event_generated">>
      [] intent = "analyze_reviews" ->
            <<"analyze_reviews", "detect_complaint_clusters",
              "generate_mitigation_plan">>
      [] intent = "generate_banner" ->
            <<"analyze_product", "generate_banner_copy", "generate_banner_visual">>
      [] intent = "optimize_campaign" ->
            <<"load_previous_campaign", "optimize_strategy", "generate_caption">>
      [] OTHER -> <<"analyze_product", "summarize_operational_insights">>

DomainTools ==
    [analytics   |-> {"analyze_product", "summarize_operational_insights",
                      "analyze_reviews", "detect_complaint_clusters",
                      "generate_mitigation_plan", "load_previous_campaign"},
     support     |-> {"analyze_reviews", "detect_complaint_clusters",
                      "generate_mitigation_plan"},
     strategy    |-> {"analyze_product", "load_previous_campaign",
                      "optimize_strategy", "summarize_operational_insights"},
     content_ops |-> {"analyze_product", "generate_strategy", "generate_caption",
                      "generate_image", "generate_banner_copy",
                      "generate_banner_visual", "create_approval"},
     scheduling  |-> {"schedule_post", "event_generated"},
     publishing  |-> {"schedule_post", "publish_queue", "event_generated"}]

DomainDefault ==
    [analytics   |-> <<"analyze_product", "summarize_operational_insights">>,
     support     |-> <<"analyze_reviews", "detect_complaint_clusters",
                       "generate_mitigation_plan">>,
     strategy    |-> <<"load_previous_campaign", "optimize_strategy">>,
     content_ops |-> Creation,
     scheduling  |-> <<"schedule_post">>,
     publishing  |-> <<"schedule_post", "publish_queue", "event_generated">>]

ToolChain(intent, action, domain) ==
    LET chain    == IntentChain(intent, action)
        Kept(t)  == t \in DomainTools[domain]
        filtered == SelectSeq(chain, Kept)
    IN  IF domain \notin DOMAIN DomainTools THEN chain
        ELSE IF filtered # <<>> THEN filtered
        ELSE DomainDefault[domain]

(***************************************************************************)
(* Events and the queues they are put on; events that one piece emits and  *)
(* no property tells apart are one event                                   *)
(***************************************************************************)
Live(o) == {c \in Client : viewer[c].mode = "live" /\ viewer[c].op = o}

\* put_nowait for each event: what does not fit is dropped.
Put(v, from, to) ==
    LET room == QueueCap - Len(v.queue)
        last == IF to - from + 1 <= room THEN to ELSE from + room - 1
    IN  [v EXCEPT !.queue = @ \o [i \in 1 .. last - from + 1 |-> from + i - 1],
                  !.lossy = @ \/ last < to]

Emit(o, events) ==
    LET from == Len(opLog[o]) + 1
        to   == Len(opLog[o]) + Len(events)
    IN  /\ opLog' = [opLog EXCEPT ![o] = @ \o events]
        /\ viewer' = [c \in Client |-> IF c \in Live(o)
                                       THEN Put(viewer[c], from, to)
                                       ELSE viewer[c]]

(***************************************************************************)
(* Creating an operation: the row, the creator's queue and the coroutine,  *)
(* with no await that suspends between them                                *)
(***************************************************************************)
\* A stream: `last' is the event it showed last, `upto' the log it replays,
\* `from' the first event it subscribed for (both until it shows a live event),
\* `lossy' that its full queue lost one.
NoViewer == [op |-> NoOp, mode |-> "off", last |-> 0, upto |-> 0,
             from |-> 0, queue |-> <<>>, lossy |-> FALSE]

OpsInit ==
    /\ opState     = [o \in Operation |-> "created"]
    /\ opStatus    = [o \in Operation |-> "none"]
    /\ opTask      = [o \in Operation |-> "none"]
    /\ opRequest   = [o \in Operation |-> CHOOSE r \in Request : TRUE]
    /\ opChain     = [o \in Operation |-> <<>>]
    /\ opContent   = [o \in Operation |-> {}]
    /\ opApprovals = [o \in Operation |-> 0]
    /\ opLog       = [o \in Operation |-> <<>>]
    /\ viewer      = [c \in Client |-> NoViewer]

CreateOperation(o, c, r) ==
    /\ opStatus[o] = "none"
    /\ c \in Creator
    /\ viewer[c].mode = "off"
    /\ opStatus' = [opStatus EXCEPT ![o] = "running"]
    /\ opTask' = [opTask EXCEPT ![o] = "interpret"]
    /\ opRequest' = [opRequest EXCEPT ![o] = r]
    /\ viewer' = [viewer EXCEPT ![c] = [NoViewer EXCEPT !.op = o, !.mode = "live",
                                                        !.from = 1]]
    /\ UNCHANGED <<opState, opChain, opContent, opApprovals, opLog>>

(***************************************************************************)
(* run_operation                                                           *)
(***************************************************************************)
\* The clarification path emits its question and then asks for a transition
\* out of `created' that the state machine refuses: the coroutine ends there.
AskClarification(o) ==
    /\ opTask[o] = "interpret"
    /\ ~opRequest[o].clear
    /\ Emit(o, <<"message">>)
    /\ IF MayGo(opState[o], "completed")
       THEN /\ opState' = [opState EXCEPT ![o] = "completed"]
            /\ opTask' = [opTask EXCEPT ![o] = "done"]
       ELSE /\ opTask' = [opTask EXCEPT ![o] = "dead"]
            /\ UNCHANGED opState
    /\ UNCHANGED <<opStatus, opRequest, opChain, opContent, opApprovals>>

Plan(o) ==
    /\ opTask[o] = "interpret"
    /\ opRequest[o].clear
    /\ opChain' = [opChain EXCEPT ![o] = ToolChain(opRequest[o].intent,
                                                   opRequest[o].action,
                                                   opRequest[o].domain)]
    /\ opState' = [opState EXCEPT ![o] = "running"]
    /\ opTask' = [opTask EXCEPT ![o] = "tools"]
    /\ Emit(o, <<"operation">>)
    /\ UNCHANGED <<opStatus, opRequest, opContent, opApprovals>>

StartTool(o) ==
    /\ opTask[o] = "tools"
    /\ opChain[o] # <<>>
    /\ opTask' = [opTask EXCEPT ![o] = "handler"]
    /\ Emit(o, <<"tool">>)
    /\ UNCHANGED <<opState, opStatus, opRequest, opChain, opContent, opApprovals>>

\* What a handler answers: whether it is pending and the lifecycle it asks for.
Answers(tool, content, approves) ==
    CASE tool = "create_approval" -> [pending |-> TRUE, life |-> "waiting_approval"]
      [] tool = "schedule_post" /\ ~({"caption", "image"} \subseteq content) ->
            [pending |-> TRUE, life |-> "draft"]
      [] tool = "schedule_post" /\ {"caption", "image"} \subseteq content /\ ~approves ->
            [pending |-> TRUE, life |-> "waiting_approval"]
      [] tool = "schedule_post" /\ {"caption", "image"} \subseteq content /\ approves ->
            [pending |-> FALSE, life |-> "scheduled"]
      [] OTHER -> [pending |-> FALSE, life |-> "draft"]

Leaves(tool) ==
    CASE tool = "generate_caption" -> {"caption"}
      [] tool = "generate_image"   -> {"image"}
      [] OTHER                     -> {}

NeedsApproval(tool) == tool = "create_approval"

\* The state after the lifecycle update of a handler's answer.
AfterAnswer(state, answer) ==
    IF answer.life = "draft" THEN state ELSE Try(state, answer.life)

\* A handler returns and its step is closed: lifecycle, approval, progress, and
\* the rest of the chain is dropped when the step is pending.
EndTool(o) ==
    LET tool   == Head(opChain[o])
        answer == Answers(tool, opContent[o], opRequest[o].approves)
        rest   == IF answer.pending THEN <<>> ELSE Tail(opChain[o])
        state  == AfterAnswer(opState[o], answer)
        told   == IF answer.pending THEN <<"tool", "pending">> ELSE <<"tool">>
    IN  /\ opTask[o] = "handler"
        /\ ~NeedsApproval(tool)
        /\ opState' = [opState EXCEPT ![o] = state]
        /\ opChain' = [opChain EXCEPT ![o] = rest]
        /\ opContent' = [opContent EXCEPT ![o] = @ \cup Leaves(tool)]
        /\ opTask' = [opTask EXCEPT ![o] = "tools"]
        /\ Emit(o, told)
        /\ UNCHANGED <<opStatus, opRequest, opApprovals>>

\* A step that needs an approval creates it and asks for waiting_approval once
\* more, outside the try: from waiting_approval that raises and ends the coroutine.
EndApprovalTool(o) ==
    LET tool   == Head(opChain[o])
        answer == Answers(tool, opContent[o], opRequest[o].approves)
        state  == AfterAnswer(opState[o], answer)
    IN  /\ opTask[o] = "handler"
        /\ NeedsApproval(tool)
        /\ opApprovals' = [opApprovals EXCEPT ![o] = @ + 1]
        /\ IF MayGo(state, "waiting_approval")
           THEN /\ opState' = [opState EXCEPT ![o] = "waiting_approval"]
                /\ opChain' = [opChain EXCEPT ![o] = IF answer.pending THEN <<>>
                                                     ELSE Tail(@)]
                /\ opTask' = [opTask EXCEPT ![o] = "tools"]
                /\ Emit(o, <<"tool", "pending">>)
           ELSE /\ opState' = [opState EXCEPT ![o] = state]
                /\ opTask' = [opTask EXCEPT ![o] = "dead"]
                /\ Emit(o, <<"tool">>)
                /\ UNCHANGED opChain
        /\ UNCHANGED <<opStatus, opRequest, opContent>>

\* An exception of a handler is not caught: the coroutine ends.
ToolRaises(o) ==
    /\ opTask[o] = "handler"
    /\ opTask' = [opTask EXCEPT ![o] = "dead"]
    /\ UNCHANGED <<opState, opStatus, opRequest, opChain, opContent, opApprovals,
                   opLog, viewer>>

BeginAnswer(o) ==
    /\ opTask[o] = "tools"
    /\ opChain[o] = <<>>
    /\ opTask' = [opTask EXCEPT ![o] = "answer"]
    /\ UNCHANGED <<opState, opStatus, opRequest, opChain, opContent, opApprovals,
                   opLog, viewer>>

IsChunk(e) == e = "chunk"

EmitChunk(o) ==
    /\ opTask[o] = "answer"
    /\ Len(SelectSeq(opLog[o], IsChunk)) < MaxChunks
    /\ Emit(o, <<"chunk">>)
    /\ UNCHANGED <<opState, opStatus, opTask, opRequest, opChain, opContent,
                   opApprovals>>

\* The model's answer has ended or failed: the rest runs without suspending.
Complete(o) ==
    /\ opTask[o] = "answer"
    /\ opState' = [opState EXCEPT ![o] = IF @ = "running" THEN "completed" ELSE @]
    /\ opStatus' = [opStatus EXCEPT ![o] = "completed"]
    /\ opTask' = [opTask EXCEPT ![o] = "done"]
    /\ Emit(o, <<"message", "done">>)
    /\ UNCHANGED <<opRequest, opChain, opContent, opApprovals>>

RunOperation(o) ==
    \/ AskClarification(o) \/ Plan(o) \/ StartTool(o) \/ EndTool(o)
    \/ EndApprovalTool(o) \/ BeginAnswer(o) \/ EmitChunk(o) \/ Complete(o)

(***************************************************************************)
(* Streams                                                                 *)
(***************************************************************************)
opsRest == <<opState, opStatus, opTask, opRequest, opChain, opContent,
             opApprovals, opLog>>

\* stream_replay_and_live takes the log as it is now ...
OpenReplay(c, o) ==
    /\ c \notin Creator
    /\ viewer[c].mode = "off"
    /\ opStatus[o] # "none"
    /\ viewer' = [viewer EXCEPT ![c] = [NoViewer EXCEPT !.op = o, !.mode = "replay",
                                                        !.upto = Len(opLog[o])]]
    /\ UNCHANGED opsRest

\* ... sends it event by event, each yield giving way to the others ...
ReplayEvent(c) ==
    /\ viewer[c].mode = "replay"
    /\ viewer[c].last < viewer[c].upto
    /\ viewer' = [viewer EXCEPT ![c].last = @ + 1]
    /\ UNCHANGED opsRest

(* Slip: the subscription is counted from the end of the replayed log. *)
AttachFromSnapshot(c) ==
    /\ viewer[c].mode = "replay"
    /\ viewer[c].last = viewer[c].upto
    /\ viewer' = [viewer EXCEPT ![c].mode = IF opStatus[viewer[c].op] = "running"
                                            THEN "live" ELSE "ended",
                                ![c].from = viewer[c].upto + 1]
    /\ UNCHANGED opsRest

(* Slip: the subscription is made whether the operation runs or not. *)
AttachAlways(c) ==
    /\ viewer[c].mode = "replay"
    /\ viewer[c].last = viewer[c].upto
    /\ viewer' = [viewer EXCEPT ![c].mode = "live",
                                ![c].from = Len(opLog[viewer[c].op]) + 1]
    /\ UNCHANGED opsRest

\* ... and then subscribes, or ends if the operation has.
AttachLive(c) ==
    /\ viewer[c].mode = "replay"
    /\ viewer[c].last = viewer[c].upto
    /\ viewer' = [viewer EXCEPT ![c].mode = IF opStatus[viewer[c].op] = "running"
                                            THEN "live" ELSE "ended",
                                ![c].from = Len(opLog[viewer[c].op]) + 1]
    /\ UNCHANGED opsRest

(* Slip: the stream ends with the complete message instead of `done'. *)
StreamToMessage(c) ==
    LET v == viewer[c]
        e == Head(v.queue)
        last == opLog[v.op][e] = "message"
    IN  /\ v.mode = "live"
        /\ v.queue # <<>>
        /\ viewer' = [viewer EXCEPT
               ![c].queue = IF last THEN <<>> ELSE Tail(@),
               ![c].last  = e, ![c].upto = 0, ![c].from = 0,
               ![c].mode  = IF last THEN "ended" ELSE "live"]
        /\ UNCHANGED opsRest

StreamEvent(c) ==
    LET v == viewer[c]
        e == Head(v.queue)
    IN  /\ v.mode = "live"
        /\ v.queue # <<>>
        /\ viewer' = [viewer EXCEPT
               ![c].queue = IF opLog[v.op][e] = "done" THEN <<>> ELSE Tail(@),
               ![c].last  = e, ![c].upto = 0, ![c].from = 0,
               ![c].mode  = IF opLog[v.op][e] = "done" THEN "ended" ELSE "live"]
        /\ UNCHANGED opsRest

\* Coroutines that nothing has ended.
OnItsWay == {"interpret", "tools", "handler", "answer"}

\* The client goes away: the generator's finally clause unsubscribes. That of the
\* creating request then awaits the coroutine, and when the response is cancelled
\* once more while it does, the coroutine is cancelled: nothing in it catches that.
Disconnect(c) ==
    /\ viewer[c].mode \in {"replay", "live"}
    /\ viewer' = [viewer EXCEPT ![c] = [NoViewer EXCEPT !.mode = "gone"]]
    /\ \/ UNCHANGED opTask
       \/ /\ c \in Creator
          /\ opTask[viewer[c].op] \in OnItsWay
          /\ opTask' = [opTask EXCEPT ![viewer[c].op] = "cancelled"]
    /\ UNCHANGED <<opState, opStatus, opRequest, opChain, opContent, opApprovals, opLog>>

Stream(c) == ReplayEvent(c) \/ AttachLive(c) \/ StreamEvent(c)

OpsNext ==
    \/ \E o \in Operation, c \in Client, r \in Request : CreateOperation(o, c, r)
    \/ \E o \in Operation : RunOperation(o) \/ ToolRaises(o)
    \/ \E c \in Client, o \in Operation : OpenReplay(c, o)
    \/ \E c \in Client : Stream(c) \/ Disconnect(c)

\* The event loop goes on running its tasks: the coroutine of an operation and
\* the generator of a connected client are scheduled again and again. A cancelled
\* coroutine has no step left.
OpsFairness ==
    /\ \A o \in Operation : WF_opsVars(RunOperation(o) /\ opTask[o] # "answer")
                            /\ WF_opsVars(Complete(o))
    /\ \A c \in Client : WF_opsVars(Stream(c))

OpsSpec == OpsInit /\ [][OpsNext]_opsVars /\ OpsFairness

(***************************************************************************)
(* Properties                                                              *)
(***************************************************************************)
\* A live stream whose queue never overflowed has shown and holds every event of
\* its operation, in the order of the log and none twice: the creator from the
\* first, a replayed one except those logged between its replay and its
\* subscription. A queue that lost events still holds the rest in order.
EventsAccounted == \A c \in Client : viewer[c].mode = "live" =>
    LET v == viewer[c]
        n == Len(opLog[v.op])
        shown == IF v.last >= v.from THEN v.last ELSE v.from - 1
    IN  /\ c \in Creator => v.from <= 1
        /\ ~v.lossy => v.queue = [i \in 1 .. n - shown |-> shown + i]
        /\ Len(v.queue) <= QueueCap
        /\ \A i, j \in DOMAIN v.queue : i < j => v.last < v.queue[i] /\ v.queue[i] < v.queue[j]

\* A stream that ends by itself has shown `done', unless the operation ended
\* between its replay and its subscription; one opened on a finished operation
\* has shown the whole log.
EndsHonestly == \A c \in Client : viewer[c].mode = "ended" =>
    LET v == viewer[c]
        n == Len(opLog[v.op])
    IN  /\ opStatus[v.op] = "completed"
        /\ v.last = n \/ (c \notin Creator /\ v.upto < n /\ v.from = n + 1)
        /\ v.upto = n => v.last = n

\* A connected client is told the end: its stream ends or the client leaves,
\* unless the coroutine died of an exception or was cancelled with the creating
\* request, or the client's full queue lost an event.
StreamAnswered == \A c \in Client :
    viewer[c].mode = "live" ~>
        \/ viewer[c].mode # "live"
        \/ viewer[c].lossy
        \/ opTask[viewer[c].op] \in {"dead", "cancelled"}

\* orchestrator.py, after a pending step: "stop the remaining chain and wait for
\* explicit user approval". An operation that asked for an approval ends its
\* coroutine in order, waiting for that approval.
ApprovalAwaited == \A o \in Operation :
    opApprovals[o] > 0 /\ opTask[o] \in {"done", "dead"} =>
        opTask[o] = "done" /\ opState[o] = "waiting_approval"
=============================================================================
