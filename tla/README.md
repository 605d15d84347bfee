# Verification of the automation core

TLA+ models of the commerce automation system in this repository, checked
with TLC and partly proved with TLAPS. The system watches a shop's event
timeline, decides by rules or by an LLM planner what should happen, stores that
as workflows, tasks, rule executions and calendar entries in one SQLite
database, and works them off in several processes that share nothing but that
database. A second program runs an operator's requests as operations with event
streams, and plans, generates and publishes posts together with the pages in the
operator's browser. The models follow the code under `src/`; `PROJECT.json` maps each
definition to the lines it stands for.

## The system

Processes of seven kinds run side by side (`agent-base/docker/supervisord.conf`, and
the operators' browsers):

| Process | Code | What it does |
|---|---|---|
| listener | `listener.py` | polls the timeline from its cursor, runs rules, starts structured rules, asks the planner |
| workflow worker | `workflow_worker.py` | fires due calendar entries, resumes waiting rule executions, runs due workflows |
| task executor | `task_executor.py` | polls `ai_tasks`, runs their tools, retries |
| API | `orchestration_api.py` in a uvicorn worker | operator requests; its handlers are coroutines that never await, so they run one after the other |
| agent application | `agent-base/agent-base-api/app` | operations with event streams on one event loop; documents of the social media pages in MySQL, a session per request |
| Celery worker | `agent-base/agent-base-api/app/tasks` | image and text generation jobs, with retries and late acknowledgement |
| browser pages | `agent-base/php-ui/public/assets/js` | sweep the calendar for due posts, poll the generation jobs |

In the automation core every service function opens a transaction of its own (`db.py`). What one
process reads is stale as soon as the transaction ends, and a process that dies
is restarted by the supervisor with nothing but the tables. Those two facts are
where nearly all the difficulty is, and what the models are about.

### Inventory

| Component | State | Operations | Hard part | Correct when |
|---|---|---|---|---|
| AI tasks (`task_service`, `task_executor`) | `ai_tasks`: status, retry_count, next_retry_at, workflow_id | create, poll, start, run tools, complete, cancel, fail | stale batch, crash while running, refused writes, unchecked `fail_task` | retry budget, tools complete and in order, ended rows stay, stuck rows only by faults |
| Workflows (`workflow_service`, `workflow_worker`, `action_engine`) | `workflow_instances`: status, name, tenant, metadata, scheduled_at | create (check, then insert), cancel, poll, validate, run, complete | two creators, cancellation behind the worker's back, crash after the task | one active row per key, one task per row, tasks only for started rows |
| Structured rules (`langgraph_engine`) | `rule_executions` row, graph checkpoint, scheduled entry | start, wait, resume by timer, resume by operator, finish | three stores written one after the other by three processes | effects once, after the delay, after the approval; the row says where the graph is; a waiting execution is woken |
| Calendar (`scheduling_service`) | `scheduled_entries` | create, move, cancel, fire, follow up | worker and API fire at once, crash between the three writes of a firing | chains go on and do not multiply, links are true, edits hold |
| Planner runtime, approvals, safety | `approval_requests`, `safety_counters`, `execution_cooldowns` | plan, request, approve, reject, edit, retry, check limits, create, count | limits read before they are counted, replay after a crash, decisions without status checks | nothing external without an approval, no duplicate requests, limits hold |
| Listener and timeline (`listener`, `timeline_service`, `internal_service`, the simulator) | shop rows, timeline, cursor, the listener's copy | change and emit, poll, copy, run rules, plan, mark, advance | rows and events committed apart, the cursor in a `finally`, replay | the copy catches up, every event is taken up or shows its error |
| Connection pool (`db`) | queue of connections, `_created`, the lock | acquire, release | waits under its own lock, slots lost on exceptions | a connection is in one place, nobody waits for ever unless all were lost |
| Tool sandbox (`tool_sandbox`) | thread pool, failure window, breaker | run with timeout, retry, open, close | a timed-out call keeps running | no effect twice without a timeout, no given-up call starts |
| Campaigns (`campaign_service`) | `campaigns.status`, dates, counters | create, launch, pause, complete, archive | read, check and write in three transactions | a status comes with its dates |
| Rule cache (`rule_service`) | `rules`, cache and version per process | load, edit, invalidate | version taken before the load | the cache is the table but for three known gaps |
| Rule store and learning (`structured_rule_engine`, `rule_learning`) | versions, switches, health score | save, supersede, switch, delete | two-step versioning, edits from an old number | one current version, deviations accounted for |
| Operation runtime (`agent-base-api/app/runtime`) | state machine, event log, queues of streams, approvals | create, plan, run tools, answer, replay, subscribe | replay before subscription, full queues, exceptions in the coroutine | streams miss nothing unannounced and end |
| Store automation and calendar posts (`social_media.py`, `social_data.py`, `social-media-auto-publish.js`) | documents of a workspace | plan, approve, reject, dispatch, claim, deliver, patch | whole payloads out of snapshots, tabs that sweep, lost answers | one active workflow, one delivery per arming |
| Publishing (`instagram_client.py`, `content_service.py`) | containers and posts at the Graph API | make, wait, publish, per target | partial failure, lost answers | the answer is so on the accounts |
| Generation jobs (`image_tasks.py`, `social-media-background-tasks.js`) | Celery's results, ids in the browser's storage | dispatch, retry, redeliver, poll, write, forget | several polls, expiry, closed pages | every outcome written or reported |
| Planners, chat, analytics, authoring, adapters, accounts, views | prompts, text, single rows | | none a model checker reaches | |

The modules at the repository root have byte-identical copies under
`agent-base/agent-base-api`; what is said here holds for both.
`PROJECT.json` lists every component with its status, and under `hazards`
what each of them can get wrong at which line.

## The modules

| Module | Models |
|---|---|
| `TaskBoard` | what the task table promises its users: a task is inserted open for a workflow that has no open task, is attempted a bounded number of times, and ends once |
| `TaskExecution` | `ai_tasks` and its executor in detail; implements `TaskBoard` |
| `WorkflowEngine` | `workflow_instances`, its creators and its worker, on top of `TaskBoard` (which it extends) |
| `RuleExecution` | one execution of a structured rule: row, checkpoint, timer entry, three processes |
| `Scheduling` | the calendar with two firing processes and the operator |
| `Approvals` | event loop, plan, approval request, limits and creation, in the listener and the API |
| `Timeline` | the shop's rows and events, and the listener's way through one event |
| `ConnectionPool` | `_ConnectionPool`, `db_connection` and the raw users of `get_db` |
| `ToolSandbox` | calls, attempts, the executor's threads and queue, the breaker |
| `Campaigns` | campaign rows and the requests on their way through `_transition` |
| `RuleCache` | the compiled rules of one process, and the table |
| `RuleVersions` | the rows of one structured rule under edits, switches and deletions |
| `OperationRuntime` | one operation's coroutine, its log, its streams |
| `StorePublishing` | stores, workflows and posts as documents; operators' requests and sweeping tabs |
| `GraphPublishing` | one publishing request against the Graph API |
| `BackgroundTasks` | generation jobs between Celery, the browser's storage and the pages' polls |
| `TaskExecutionProofs`, `WorkflowEngineProofs`, `RuleExecutionProofs`, `SchedulingProofs`, `ApprovalsProofs`, `OperationRuntimeProofs`, `StorePublishingProofs` | theorems about the modules they name |
| `ServiceProofs` | theorems about the eight services of `MCServices`, a section for each |
| `MC...` | instances for TLC; `MCServices` sets eight services that share nothing side by side, `MCWorker` two duties of the worker's loop, and a behaviour follows one of them |

`WorkflowEngine` composes with the tasks through their abstract specification:
`TaskBoard` is small enough to be one of its conjuncts, and `TaskExecution`
is shown (by TLC and by TLAPS) to implement it under the mapping `Stage`, where
`pending`, `running` and `retrying` rows are open and terminal rows are ended.

**How state and actions correspond.** A table is a set of functions from row
identifiers to columns; a row that is not inserted yet has status `absent`. An
action is one SQL transaction together with the local computation up to the
next one. What a process holds between two transactions is in its own
variables: `pc` says where it is, `batch` holds the rows of a poll it has not
visited, `cur` the row at hand. Times are flags (`due`, `wfDue`, `elapsed`) that
an environment action sets, except in `Scheduling`, whose clock counts
occurrences. A refused write is the action `StorageRefuses`, `WorkerRefused` or
`Refused` with the exception path of the code behind it; a crash resets the
local variables and leaves the tables. Payloads, texts, logs and metrics are
left out unless an exception in them changes what follows.

In the second program other boundaries count. The operation runtime has one event
loop, so an action is the code between two real awaits. A request to the
documents reads one snapshot and commits once (`Begin`, `Finish`). Of a browser
page, an action is one HTTP call or one access to its storage.

Variables that are commented as ghosts record what has no column; no action's
guard reads one, except where a bound on faults says how often they happen.
Definitions that are commented as slips are wrong on purpose: each is a
definition of the model with one plausible mistake, and `PROJECT.json`
(`mutants`) says which property it must violate.

### TaskExecution

`CreateTask` is `create_ai_task`; `Poll` is `get_pending_tasks`; `StartTask` the
transition to running; `ToolSucceeds` and `ToolFails` one tool call;
`CancelTask`, `CompleteTask`, `RetryTask` and `DeadLetterTask` the ends of
`execute_task`. The history variables `attempts` and `toolRuns` count what has
no column. The status table lists `running -> retrying` but not
`running -> dead_letter`; `fail_task` writes both without asking it, and
`StartTask`, `CancelTask` and `CompleteTask` go through `ValidTransition` as
the code does.

### WorkflowEngine

A caller is at `check`, `insert` or `cancel` (`create_workflow` asks, inserts,
and `execute_rule_actions` goes on to its cancellations). A request names any
workflow, held or not: `POST /schedules` takes both, so a critical name may be
held, and `Valid` (`validate_workflow`) does not look at the approval of those. The index
`idx_workflow_active_unique` is the guard `KeyTaken`. The worker polls, validates,
marks running, creates the task and completes; each step is a transaction, and
`TaskRaises` is the handler that cancels the row when task creation raises.

### RuleExecution

A rule is compiled to the kinds it selects, in `_CANONICAL_ORDER`, with stops
before `approval` and after `wait`. Three processes (`listener` starts, `worker`
resumes by timer, `api` resumes by decision) hold the graph state in memory and
write checkpoint, row and entry one after the other. What a process writes into
the row is decided by two reads that may each fail without an exception leaving
them: `ReadSnapshot` (an unreadable checkpoint counts as an empty one, `Unread`)
and `AskFinished` (a graph that cannot be asked counts as not finished); then
`WriteRow`. LangGraph itself is modelled as the code uses it: it runs nodes in
order, checkpoints after each, and an invocation without input passes the stop it
is at.

The entry of the wait node lives a life of its own: it falls due
(`DelayElapses`), is read into a batch by the worker or by the API's endpoint
(`PollEntry`) and fired or marked failed from there, whatever has become of it
(`Fire`), and is moved or cancelled by an operator in a check and a write
(`EditEntry`, `MoveEntry`, `CancelEntry`). The worker's scan of fired entries
reads the `ScanLimit` oldest of tenant 1 (`Scanned`): `ahead` counts the fired
entries scheduled before this one, which never leave the table.

### Scheduling

`worker` and `api` each poll and fire: `CheckName`, `InsertWorkflow`,
`MarkFired`, `CreateFollowup`. The operator's edits read first
(`BeginEdit`) and write later, beside a firing worker; the API does either, so
an edit and an API firing exclude each other as the handlers do.

### Approvals

`PlanEvent` is the path from the event to `apply_proposal` with any plan the
planner may answer, and another when the event is replayed. The listener turns
an external plan into a request (`RequestApproval`) and applies any other;
`Approve` puts the effective plan into the API's hands, which applies it the
same way: `CheckSafety`, `CreateWorkflow`, `CountExecution`, `StartCooldown`.
`Advance` is the `finally` that moves the cursor.

### Timeline

A row of the shop is its version number. `Change` commits rows and owes events,
`Emit` emits one of them, `WriterDies` leaves the rest unsaid. The listener fetches
the row an event is about, writes its copy (`Upsert`), tries its duties one after
the other (structured rules first, then DSL rules and the planner), marks the
event and moves the cursor; `PassOver` is the `except` around the structured
rules, `Raise` and `RecordError` the outer one. `CutOff` is a listener that is killed, or a
refused `set_cursor`: the event is read again. `Interrupted` is a
`KeyboardInterrupt`, which no `except Exception` catches and whose `finally` moves
the cursor all the same: the event is passed with nothing recorded. Marks are kept for the event
after the cursor only, as none behind it is read again. Every rule matches
every event, the worst case. Events that tools echo are skipped by
`SKIP_SYNTHETIC`; the configuration is the one shipped: `AUTONOMOUS` on,
`CRITICAL_FALLBACK` off.

### ConnectionPool, ToolSandbox, Campaigns, RuleCache, RuleVersions

The pool's lock is a variable, for `acquire` waits for a connection inside it; a
thread that uses `get_db` without `try` may lose its connection (`LoseConnection`),
one in `db_connection` may not. In the sandbox an attempt is a job: `TimeOut`
cancels it only while it is queued, a running one goes on to `EndJob`, and the
breaker counts calls. A campaign request reads what it needs for the dates
(`CallCampaign`), reads again for the check (`CheckTransition`) and writes
whatever is there by then (`WriteTransition`). A reader of the rule cache takes
the version, looks up, loads and stores in four steps; an edit writes and then
invalidates the tenant its request names, which `delete_rule` does not compare with the
rule's owner: seen from one tenant, its rule may be deleted under another's id
(`EditUnheard`, as is any edit in another process), and another's rule under its own
(`DeleteForOther`). An edit of a rule reads the row it was told of, its version, retires
it and inserts the next, and may die in between (`EditDies`).

### OperationRuntime

`CreateOperation` is the creating request up to its first await; the coroutine
goes from `Plan` to the tools (`StartTool`, `EndTool`) to the answer, along the chain
the interpreter asked for. `guard_transition` is followed literally, which is
how two paths end the coroutine with an exception: a message that needs a
clarification (`created -> completed` is refused), and an approval step (asked
twice for `waiting_approval`). Several events that nothing tells apart are one
event of the log. A stream is `OpenReplay`, then reading its queue; the creator
subscribes before anything is logged. When the creator leaves (`Disconnect`), the
`finally` of its response awaits the coroutine, and a response cancelled once more while
it does cancels the coroutine with it: the operation then stays `running` for ever.

### StorePublishing, GraphPublishing, BackgroundTasks

In `StorePublishing` a workflow and its scheduled post are one id, several targets
one delivery, and a partial success counts as published, as in the page. `Claim` locks the row and
looks at `publishStatus` alone. `Deliver` may lose its answer; `CloseTab` leaves a
post `publishing`. The ghost `lost` records every document a commit
overwrote without having read its last version: it is what the first and third
property except, and nothing else.

`GraphPublishing` opens up `Deliver`: targets one after the other, containers made,
waited for and published; `GraphRaises` is any call that ends in an
exception, whether Graph refused it, gave up on the container, or did it and the
answer was lost. What Graph does with a container (`Process`) is external.

`BackgroundTasks` lets several polls run over one storage, each with the ids it
read at its start, as the pages' timers do not wait for one another. A poll that finds
a job done writes and then forgets the id (`WriteOutcome`, `RemoveWritten`); it forgets
it without a write when the result is empty or no draft or post is to have it
(`RemoveUnwritten`), and a holiday's when nobody is signed in at the page
(`RemoveSignedOut`).

## The runs

| Run | Configuration | Invariants and properties | What it shows |
|---|---|---|---|
| `tasks` | `MCTaskExecution.cfg` | `RetryBudget`, `ToolsInOrder`, `StrandedByFault`, `ImplementsBoard`, `TaskSettles` | Two tasks, two workflows, two tools, two retries, two faults: the executor's polls, retries, refused writes and crashes keep the retry budget, the tool order and the promise of TaskBoard, and with a fair loop every task ends unless a fault strands it. |
| `workflows` | `MCWorkflowEngine.cfg` | `ActiveUnique`, `TasksOfWorkflows`, `AbandonedByFault`, `CancelledStays` | Two concurrent callers, a critical and an autonomous name, two rows, two tasks and one fault: races of create, cancel and the worker keep one active row per key and one task per workflow. |
| `rules` | `MCRuleExecution.cfg` | `ApprovalGate`, `EffectsOnce`, `DelayRespected`, `RowMatchesGraph`, `VerdictStays`, `ExecutionsMoveOn` | Every rule of two tenants that waits, creates coupons or publishes, with and without approval and delay, one fault per process, unread snapshots among them, the operator moving and cancelling the timer's entry, a scan of one entry: the checkpoint and the row stay consistent, effects wait for the delay and the approval and are repeated only by a fault, a verdict is final, an execution whose entry is still to fire is woken unless the firing fails, the operator has a hand in it or the scan does not reach it, and a started one settles in a status its row shows. |
| `rules_wakeup` | `MCRuleWakeup.cfg` | `WaitsEnd` | **Violated.** Without any fault, a timer that fires before the listener has written the row finds it running, and its entry is handled for nothing: the execution waits for ever. |
| `rules_approval` | `MCRuleApproval.cfg` | `ApprovalAlways` | **Violated.** A worker that dies after the graph stopped before the approval and before the row says so resumes it again, past the approval. |
| `schedules` | `MCScheduling.cfg` | `FiringsBounded`, `ChainKept`, `LinkTruthful`, `EditsHold` | Two calendar entries, the worker and the API firing at once, edits between a poll and its firing, one fault: workflows and followups of an entry stay bounded, chains go on, links are true and edits before a poll hold. |
| `worker_live` | `MCWorker.cfg` | `RowsMoveOn`, `DueFires` | With a fair worker loop, two tenants and faults, a scheduled row is taken up or cancelled, and a running one ends unless a fault left it behind; a due calendar entry is fired, fails or is edited away, over two crashes or refused writes of the firing processes. |
| `approvals` | `MCApprovals.cfg` | `ExternalGated`, `RequestsNotRepeated`, `QuotaHolds`, `TimelinePasses` | Two events, two requests, an external and an internal plan, two approvals, one fault: nothing external starts without an approval of its own, requests are not duplicated, the hourly limit holds up to the processes' overlap, and the cursor passes every event. |
| `operations` | `MCOperations.cfg` | `EventsAccounted`, `EndsHonestly`, `StreamAnswered` | One operation, the stream of its creator and a replay, queues of two: what a stream may miss, when it may end, and that it ends. |
| `operations_approval` | `MCOperationsApproval.cfg` | `ApprovalAwaited` | **Violated.** An operation that reaches its approval step asks twice for waiting_approval: the second transition raises, the coroutine ends and the stream is never told. |
| `social` | `MCSocial.cfg` | `StoresConsistent`, `SentOncePerArming`, `PublishedWasSent` | A store with two workflows and a post planned by hand, two operators with open requests and two tabs: lost updates, claims, deliveries without an answer, closed tabs. |
| `services` | `MCServices.cfg` | `SomeoneGivesBack`, `EffectsBounded`, `DatesKept`, `CacheFresh`, `VersionsAccounted`, `OutcomesAccounted`, `CopyCatchesUp`, `PostsAsAnswered`, `EventsTakenUp` | Eight services that share nothing, one per behaviour: the connection pool under users that lose connections, the tool sandbox under timeouts, campaign transitions that overtake each other, the rule cache between loads and invalidations, versions of a rule edited twice at once, generation jobs polled by two pages, the listener behind a shop whose writers die, and one request to the Graph API whose answers fail or get lost. |

Each property carries a comment that states it in prose, at the end of the module it
is about. The type invariants `TaskTypeOK` and `EngineTypeOK` and some lemmas on the
way (`DeadLetterIsLast`, `BatchStillPending`, `EndedStays`, `OneTaskPerWorkflow`,
`TasksMatchWorkflows`) are proved and no longer checked by a run of their own.

**Bounds.** Two rows are enough for what one row does to another (uniqueness,
duplicates, a stale batch), because every property speaks of at most two rows
and every query of the code of one key. Two processes of each racing kind are
what there is: one listener, one API, one worker. One fault per run (two for
tasks, and `MaxCrashes` of them for the calendar's liveness) lets a crash hit any step and the
replay meet the consequences; a second fault mostly repeats the first. The
named bounds are `MaxRetries`, `MaxAttempts`, `MaxFaults`, `MaxEntries`,
`MaxTime`, `MaxEvents`, `MaxRequests`, `MaxApprovals`, `MaxCalls`, `MaxChunks`,
`MaxEdits`, `MaxRows`, `MaxCuts`, `MaxChanges`, `MaxEchoes`, `MaxCutOffs` (which counts
interrupts as well) and `MaxPhotos`; `Approvals` also lets a request be edited once,
and `RuleExecution` counts the fired entries before its own up to `ScanLimit`. Each is a guard of
the action it bounds, and none of them cuts off a process in the middle of its
work.

- `tasks`: two workflows, two tasks and two tools. `workflows`: one critical and one
  autonomous name, which take different paths through the worker. `rules`
  quantifies over every rule of three action kinds, three delays, both approval settings
  and two tenants, one whose entries the worker scans and one whose it does not. A scan
  reads one entry instead of 200, so that one fired entry before the execution's own puts
  it out of reach. `approvals` has one name that needs an approval and one that does not.
- `operations`: one operation, for operations share nothing but the loop; its creator
  and one late stream; queues of two instead of 300, so that they overflow; one
  request for each way through the runtime.
- `social`: one store, two workflows (for two approvals that race), one post
  planned by hand, two open requests, two tabs, four requests.
- `services`: three threads on two connections (two can lose them while a third
  waits); two calls on one worker thread with two retries and a breaker at two; three
  requests on one campaign (a third overtakes what two decided); two readers, two
  editors and three edits; two edits of a rule that grows to three rows; two jobs,
  one of them a holiday's, and two polls; a product, an order and a review, two
  writers, three changes, one rule of each sort and one cut-off or interrupt; posts of up to two
  photos and one video, which give an album, a reel, single photos and stories.

The symmetries are in runs without liveness: rows, tasks, tenants and callers of
`workflows`; operators and tabs of `social`; and writers of `services`, whose
temporal property is an action property over states that name no writer.

**Deadlock.** The runs switch TLC's deadlock check off: with all rows of an
instance used up and worked off, the instance has nothing to do, and that is
the end of a finite instance and no flaw. In the pool, all threads wait for ever
once every connection is lost, which the code does too. That nobody waits for
ever while there is work is what the liveness properties and `SomeoneGivesBack`
say.

**Fairness.** Weak fairness is given only to loops that the code runs for ever
and that restart after an exception: the executor's step, the worker's step, the
listener's step, and time (a backoff elapses, a row falls due, a delay passes).
It is given to the loop as a whole where the loop does one thing after the other
(`ExecutorStep`, `WorkerStep`, `ListenerStep`), so the liveness results do not
assume that the loop is fair between rows. Operators, creators, crashes and the
planner have no fairness. In `RuleExecution` each process finishes what it has
started (an invocation, a firing, an edit), the worker goes on polling and scanning, and
the delay passes; that the API fires entries, and what the operator does to them, is
under no obligation; in `Scheduling` an API request that was begun ends. In
`OperationRuntime` the event loop runs every coroutine and every stream that can go on
(asyncio is first in, first out), an answer ends some time, and a tool need not
raise. A coroutine that was cancelled has no step left that fairness could ask for. The
services' modules have no fairness and no liveness property.

### What the violated runs show

Each of them checks what a document or comment of the repository says.

- `rules_wakeup`: the listener writes `waiting_timer` only after the graph stopped and
  its snapshot was read. A timer that fires before that finds the row `running`,
  does nothing, and its entry is handled (`langgraph_engine/runtime.py:495`): nothing
  wakes the execution any more, without any fault, against `nodes.py:126-129`.
  `ExecutionsMoveOn`, which holds, speaks of the executions that wait while their entry
  is still to fire.
- `rules_approval`: a worker that dies between the graph's stop and the row's
  update resumes the execution again and passes the approval
  (`langgraph_engine/runtime.py:534`). `ApprovalGate`, which holds, says that
  nothing is published without an approval while the worker did not fail.
- `operations_approval`: `create_approval` moves the operation to
  `waiting_approval`, and the branch behind it asks for the same transition again,
  which is refused (`orchestrator.py:778`). The coroutine dies, the events that
  announce the approval are never emitted, and the stream waits for ever.

### Observed without a run

Disagreements between the code and its documents that are plain in a few lines,
and what the models had to leave to the reader:

- The worker sets a row running that was cancelled after its poll
  (`workflow_service.py:475`), although the lifecycle of `PROJECT_AUDIT.md:147` ends
  in `cancelled`. `CancelledStays`, which holds, says what is left of the promise.
- The nodes behind a rejected publication still run (`langgraph_engine/nodes.py:690`),
  against `nodes.py:484`.
- The second calendar entry of a workflow name is marked fired without a workflow
  (`scheduling_service.py:617`), against the module's docstring. All content posts of
  a channel share one name and entity.
- `dispatch-publish` publishes a workflow that was rejected after its snapshot
  (`social_media.py:3666`); the policy at line 2027 is checked against that snapshot.
- `workflow_exists` and the insert are two transactions, and the index that
  backs the check covers only `scheduled` and `running` rows. A caller that checks
  early and inserts after the other caller's row completed runs the name a second
  time (`workflow_service.py:67`). `ActiveUnique` is what the index really gives.
- An approved plan can be dropped: by a crash between `approve` and
  `apply_proposal` (`planner_runtime.py:226`), by the quota or by the cooldown.
- `planner_proposals.applied` is never set for a plan that was applied after an
  approval, for no `proposal_id` is passed on.
- `reject`, `edit_proposal` and `retry_approval` ignore the status of the
  request; a rejected request may have a running workflow.
- The daily campaign counter is stored with the hour as its window, so it starts
  again every hour (`safety_service.py:83-111`).
- A calendar entry that requires an approval is never asked about: its workflow
  is cancelled by the worker's validation as `awaiting_approval`, or, if its name is a
  critical one, runs without the approval (`workflow_service.py:313-336`).
- `_handle_wait_resumes` scans the oldest 200 fired entries of user 1 only
  (`workflow_worker.py:59`; the query orders by `scheduled_at` ascending), handled ones
  included: once there are 200 of them, no later timer wakes its execution.
- An entry whose firing raises is marked `failed`, which that scan never reads
  (`scheduling_service.py:626`).
- A snapshot that cannot be read is an empty one (`langgraph_engine/runtime.py:692`),
  so an execution that waits for its timer may be shown as waiting for a human, and an
  operator's decision then runs it before the delay is over.
- The entry that wakes a waiting rule is an ordinary calendar entry, so firing it
  also creates a workflow named after the rule and the execution.
- `VALID_TASK_TRANSITIONS` has no `running -> dead_letter`, which `fail_task` does.
- `campaign_service.py:62` calls archived terminal and `:323` the transition atomic;
  a completion that checked before the archiving overwrites it. A campaign that is
  paused before its launch and then completed has no `started_at`.
- `init_db` fails on an empty database (`db.py:402`), and `set_enabled` and
  `delete_rule` answer `bool(lastrowid)`, which says nothing of an UPDATE
  (`structured_rule_engine.py:200`, `:208`).
- The rule cache bumps its version only if there was an entry to delete
  (`rule_service.py`), so an invalidation during the first load is lost. `delete_rule`
  invalidates the tenant of the request, not the rule's owner (`rule_service.py:204`).
- A `KeyboardInterrupt` inside `process_event` moves the cursor past an event of
  which nothing is recorded (`listener.py:357-360`).
- The creator of an operation that goes away may cancel its coroutine
  (`social_media.py:4101-4104`): the status stays `running`, no `done` is emitted, and
  every later replay waits for ever.
- A generation job whose result is empty, or was asked for without a draft or a post, is
  forgotten without a word (`social-media-background-tasks.js:228`, `:240`, `:263`), a
  holiday's at a page nobody is signed in at (`:165`).
- `claim-publish` does not look at `approvalStatus` (`social_data.py:312`).
  A tab that dies, or an exception that is swallowed
  (`social-media-auto-publish.js:90`), leaves a post `publishing` for ever, and an
  answer that cannot be read marks a delivered post failed (`:63`).
- `autoPublishSweep` is exported and imported by no page of this commit, and no page
  calls `dispatch-publish`; both are reached over HTTP only.
- `resolveQueued` waits for `succeeded`, the endpoint answers `success`
  (`social-media-data.js:349`); an expired result is `pending` for ever.
- No endpoint approves an approval of the operation runtime, and `schedule_post`
  cannot succeed in any chain the interpreter can ask for.

## What is proved

Every invariant and action property that a passing run checks is also a theorem of
its module's specification, which TLAPS checks for every value of the constants,
under the named assumptions of the modules: the bounds and limits are natural
numbers (a queue and a thread pool have room for one, there is at least one tool),
the names that stand for nothing are no row, thread, connection or job, operators
are no tabs, the critical names are names. Tabs and polls are finitely many, as they are
counted; no other set is assumed finite. The processes that the code starts once
(listener, worker, API) are the ones it starts.

Each proof has the same shape. A property is seldom inductive, so the module of
proofs defines an invariant that is: the properties with what they rest on. The large
ones (of the rules, the calendar, the stores and the streams) were checked by TLC on the
run's instance before they were proved. One lemma shows it
of the initial states, one of each step (a lemma for each action or group of actions),
one that it gives the property; a temporal step puts them together. Where many actions
disturb a conjunct in the same way, what such a step does is a definition
of its own, and each action is shown to be one.

**TaskExecution** (`TaskExecutionProofs`). The inductive invariant `TaskInv` is the
type invariant with `RetryBudget`, `ToolsInOrder`, `DeadLetterIsLast`,
`ExecutorOwnsItsRow` and `BatchStillPending`. None of them is inductive alone:
that the retry budget survives `RetryTask` needs to know that the row at hand is
running and that its attempts exceed its retries by one (`ExecutorOwnsItsRow`);
that it is running at `StartTask` needs to know that a row of the batch is still
what the poll read (`BatchStillPending`). From it follow the type correctness, the
budget, the tool order, the dead letters, and, as an action property,
`EndedStays`: `fail_task` writes without a check, and the theorem says that its
callers never let it hit an ended row. `StrandedByFault` counts: a step that
strands a row raises `faults`, so the stranded rows are never more than the
faults; the cardinality argument is `StrandedStep`. `BoardImplemented` is the
refinement: `TaskInit` maps to `BoardInit`, and each step to a step of `TaskBoard`
or a stutter.

**WorkflowEngine** (`WorkflowEngineProofs`). `EngineInv` adds to the type invariant
what a caller between its transactions was asked (`CallersAsked`), `ActiveUnique`,
`OneTaskPerWorkflow`, `TasksMatchWorkflows` and `WorkerOwnsItsRow`. One task per row
is inductive only with the knowledge of where the worker stands: at the creation
its row is running and has no task yet, and the poll does not bring back a row
that has one. There is one lemma per action and a lemma, `CallerOnlyInv`, for the
actions that touch only a caller. `CancelledStays` and `AbandonedByFault` follow as
for the tasks.

**RuleExecution** (`RuleExecutionProofs`). The key is that the row is the lock
(`HandOK`): each process runs the graph only under a status of its own which no other
process changes, so what it read of the checkpoint is what is there. From that
`OneRuns` follows at once. `ListenerOK` and `WaitOK` say what each of them may be
running. `TimeOK` ties the delay to the entry: while it is not over, the entry has not come
due, let alone been fired, and the worker, which starts from there, has nothing in hand.
`DelayOK` says that until then only the wait has run, unless an operator has decided,
which takes a fault of the listener that showed the wait as one for a human; and `GateOK`
that without an approval, and without a fault of the worker, nobody but the API is
past the risk check, and the API only with a rejection. `EffectOK` compares an effect
with the checkpoint: what took place is in it, about to be in it, or repeated by a
fault. `Settled` and `Stopping` hold as long as nothing failed, which is what
`RowMatchesGraph` needs.

**Scheduling** (`SchedulingProofs`). `SchedInv` counts. `RunsOK` and `FollowOK` bound
the runs and followups of an entry together with those the processes can still
make of it (`ToRun`, `ToFollow`): a process that has the entry in its batch owes one,
and nobody who has not read it by the time it is marked ever will. An entry that is not
marked has run only for faults and for those about to mark it.

**Approvals** (`ApprovalsProofs`). `GateOK` balances what was started with what the API
has in hand against what was granted. `AskedOK` is about the set of an event's requests, empty
before its turn and grown by one at its turn and at each fault's replay.
`QuotaOK` accounts for the two processes between their check and their count.

**OperationRuntime** (`OperationRuntimeProofs`). `LogOK` says that `done` is the last
event of a log exactly when the operation is completed. `QueueOK` says what a queue
holds: increasing positions of the log after the one shown, and without an overflow
all of them. `PutKeeps` is the lemma about `put_nowait` on a bounded queue, `EmitKeeps`
lifts it to all streams of an operation, and the coroutine's actions are instances of it.

**StorePublishing** (`StorePublishingProofs`). What a request writes comes from a
snapshot that others have overtaken. `SnapshotOK` is what the snapshot still says, row
by row, given the rows that changed since (`late`); `CommitKeeps` is the one lemma about
commits, and each handler only has to show what it wants to write (`RowsOK`).
`ArmedOK` counts deliveries, tabs between their claim and their delivery, and the pending
post against the times it was armed. `StoresConsistent` used to except stores
with an overwritten workflow too; the proof did not need it, and the property
no longer does.

**The services** (`ServiceProofs`). *Pool:* every connection is in one place
(`NoneMislaid`), a thread holds one exactly while it uses it, and nothing is
left to open while somebody waits, for only the lock's holder opens (`LockOK`).
*Sandbox:* a queued attempt is the one its caller waits for, and the effects of a call
are bounded by its attempts out of time. *Campaigns:* what a request will write for dates is
promised by what it has read (`DatesPromised`). *Rule cache:* what a reader
is about to store is the table's, or it missed an edit, or its version is past
(`LoadsFresh`). *Rule versions:* every row is made from an earlier one that is current no more
(`LineageOK`), and the current rows, the edits under way and those cut off balance the
forks (`CurrentOK`). *Generation jobs:* `WritesOK` counts the polls that may still write a job
and those that have written it and not removed it yet; `PollsOK` and `ForgottenOK` say that
a poll holds only jobs that succeeded and of each forgotten id why it was. *Timeline:* `HandOK` says what the
listener holds of the row it fetched, for `CopyCatchesUp`; `TriedOK`, `DutiesOK` and
`MovingOK` where it is among an event's duties, for `EventsTakenUp`. *Graph:* `TodoOK` says
that of the targets still to be served exactly the pieces before the one at work are out,
`ServedOK` that the others are as answered.

The theorems by name:

- `TaskTypeCorrect` (`TaskExecutionProofs`): The table, the executor and the history keep their types for any tasks, tools, retries and faults.
- `RetryBudgetHolds` (`TaskExecutionProofs`): However failures, refused writes and crashes interleave, a task is started at most MaxRetries + 1 times and its attempts match its recorded retries.
- `ToolsInOrderHolds` (`TaskExecutionProofs`): A tool is repeated only by a counted attempt, and a completed task ran every tool.
- `BatchStillPendingHolds` (`TaskExecutionProofs`): The rows of a poll are still pending or retrying at their turn, so the executor's transition to running is never refused.
- `EndedStaysHolds` (`TaskExecutionProofs`): A task that ended keeps its status for ever, although fail_task writes without a check.
- `StrandedByFaultHolds` (`TaskExecutionProofs`): There are never more stranded running rows than faults.
- `BoardImplemented` (`TaskExecutionProofs`): TaskExecution implements the abstract TaskBoard under the refinement mapping Stage.
- `EngineTypeCorrect` (`WorkflowEngineProofs`): The workflow table, the callers and the worker keep their types for any names, tenants, callers and faults.
- `ActiveUniqueHolds` (`WorkflowEngineProofs`): Racing creations, cancellations and revivals never make two rows of one tenant and name active.
- `TasksOfWorkflowsHolds` (`WorkflowEngineProofs`): A workflow gets at most one task in its life, over worker crashes and revivals; a task exists only for a row that was started, and a completed row has one.
- `CancelledStaysHolds` (`WorkflowEngineProofs`): A cancellation the worker has not overtaken is final.
- `AbandonedByFaultHolds` (`WorkflowEngineProofs`): There are never more abandoned running rows than faults of the worker.
- `RuleTypeCorrect` (`RuleExecutionProofs`): The rule, its row, checkpoint and entry, and the processes that run it keep their types for any kinds, delays and faults.
- `OneRunsHolds` (`RuleExecutionProofs`): At most one process runs the graph of an execution at a time, the row being its lock.
- `ApprovalGateHolds` (`RuleExecutionProofs`): Whatever faults hit the listener and the API, nothing that needs an approval is published without one, unless a fault hit the worker.
- `EffectsOnceHolds` (`RuleExecutionProofs`): An outward effect takes place once, and once more only for a fault of a resuming process.
- `DelayRespectedHolds` (`RuleExecutionProofs`): Nothing happens outside before the delay of the rule's timing is over, over any faults and edits of the entry, but by the decision of an operator after a fault of the listener.
- `RowMatchesGraphHolds` (`RuleExecutionProofs`): At rest and without a fault, the row of the execution says where its graph stands.
- `VerdictStaysHolds` (`RuleExecutionProofs`): No process writes the row of an execution that has ended.
- `SchedTypeCorrect` (`SchedulingProofs`): The calendar, its firing processes and their history keep their types for any entries, times and faults.
- `FiringsBoundedHolds` (`SchedulingProofs`): An entry runs once for each firing process and once more for each fault, and its chain forks at most once for each process.
- `ChainKeptHolds` (`SchedulingProofs`): A recurring entry that fired has its followup once nobody works on it, unless a fault hit between the two writes.
- `LinkTruthfulHolds` (`SchedulingProofs`): An entry's workflow_id is a workflow made for that entry, and an entry that is still to fire has no followup.
- `EditsHoldHolds` (`SchedulingProofs`): What the operator cancelled or moved while no process had it in hand is not fired at its old time.
- `ApprTypeCorrect` (`ApprovalsProofs`): Requests, processes, workflows and counters keep their types for any events, requests, names and limits.
- `ExternalGatedHolds` (`ApprovalsProofs`): Over replays, retries, edits and crashes, what publishes outside was approved at least as often as it was created.
- `RequestsNotRepeatedHolds` (`ApprovalsProofs`): An event asks for one approval and one more for each fault, and no two requests for one plan are pending.
- `HourlyLimitHolds` (`ApprovalsProofs`): Although limits are read and counted in separate transactions, an hour sees at most the limit, one for the other process and one for each fault.
- `OpsTypeCorrect` (`OperationRuntimeProofs`): Statuses, coroutines, logs and streams keep their types for any operations, clients and queue sizes.
- `EventsAccountedHolds` (`OperationRuntimeProofs`): A stream whose queue never overflowed has shown and holds every event since its subscription, in order and none twice; one that overflowed holds the rest in order.
- `EndsHonestlyHolds` (`OperationRuntimeProofs`): A stream that ends by itself has shown `done', unless the operation ended between its replay and its subscription.
- `SocialTypeCorrect` (`StorePublishingProofs`): Documents, open requests with their snapshots, and tabs keep their types for any stores, workflows, posts, operators and tabs.
- `StoresConsistentHolds` (`StorePublishingProofs`): For any number of racing operators, a store whose own document was never overwritten unread has at most one active workflow, and none once it is rejected.
- `SentOncePerArmingHolds` (`StorePublishingProofs`): However many tabs sweep, a post is delivered at most once for every time it was put back to pending.
- `PublishedWasSentHolds` (`StorePublishingProofs`): A post shown as published was delivered or its workflow dispatched, unless a commit overwrote it unread.
- `PoolTypeCorrect` (`ServiceProofs`): A thread holds a connection of the pool exactly while it uses it, for any threads and any size of the pool.
- `SomeoneGivesBackHolds` (`ServiceProofs`): Until raw users have lost every connection of the pool, whoever waits with the lock in hand waits for a connection that is in the queue or in use, and no two threads share one.
- `EffectsBoundedHolds` (`ServiceProofs`): For any calls, workers, retries and thresholds, a tool takes effect at most once more than its attempts ran out of time, and at least once when its call reports success.
- `DatesKeptHolds` (`ServiceProofs`): However any number of campaign requests interleave their reads, checks and writes, a live campaign has a start and a completed one an end.
- `CacheFreshHolds` (`ServiceProofs`): With every invalidation made, a reader finds the table's rules in the cache, but for an edit in another process, a deletion under another tenant's id and an invalidation during a load.
- `VersionsAccountedHolds` (`ServiceProofs`): A rule has one current version but for edits from replaced rows and edits cut off, for any edits and any number of versions.
- `OutcomesAccountedHolds` (`ServiceProofs`): However many polls and redeliveries there are, a job is forgotten only with its outcome written, failed, dropped over an error, or with nothing or nowhere to write it, and written once for each poll and page.
- `CopyCatchesUpHolds` (`ServiceProofs`): The listener's copy of a thing is the shop's once the events past the cursor are applied, unless its event was never written or the work on it ended before the copy, over crashes, interrupts and refused writes anywhere.
- `EventsTakenUpHolds` (`ServiceProofs`): The cursor passes an event only with its duties tried or its error on record, unless that record was refused or the listener was interrupted in it, and tries none more often than it began the event.
- `PostsAsAnsweredHolds` (`ServiceProofs`): A publishing request's answer is so on the accounts: a result for a target that is out in full, an error for one that stopped at a piece, for any photos and at most one video.

**Only model-checked.** The liveness properties (`TaskSettles`, `RowsMoveOn`,
`ExecutionsMoveOn`, `DueFires`, `TimelinePasses`, `StreamAnswered`): the prover has
neither fairness nor ENABLED. So is what `ToolChain` makes of a request: the theorems about
the streams hold whatever it is, and no theorem speaks of it.

## Not modelled, and why

- Text: prompts, natural-language rules, classification, narratives, DSL parsing.
  They compute an answer from a text and keep no state; where the answer matters
  (a plan, a rule's kinds, an interpreted message), the models let it be anything.
- Plain row access: catalogue import, credentials, chat history, logs, drafts,
  templates, the settings of a workspace.
- `customer_interaction_service.py` and `auth_service.py`: their handlers are
  coroutines without an await, so requests never interleave, and each works on
  its own rows.
- External services: the LLM, the channel adapters (skeletons that send nothing), media
  conversion, the shop's arithmetic. They appear as choices of the environment.
- Timeline: a row is a version number, so a stock that two orders overwrite is not
  seen; one listener is assumed, as the supervisor starts one.
- StorePublishing: `composePublishInstagram` posts without touching a document, and
  a dispatch of the API is one step. GraphPublishing leaves out requests that are
  refused before anything happens, token refresh and probing of media.
- BackgroundTasks: two jobs for one holiday are not told apart, writes of two pages
  to the storage are atomic, and the synchronous fallback of a dispatch without
  Celery keeps no job.
- Health scores, conflict scores, campaign metrics: counters that lose an outcome
  when two processes report at once; nothing is decided by them.
- The copies of the root modules under `agent-base/agent-base-api`: they are the same
  text, and about a third of the implementation's lines.

## Plan

Done: every module of the plan, with the runs above, and a theorem for every
invariant and action property they check. What is left:

1. Abstract specifications of more components, in the way of `TaskBoard`: what the
   calendar promises of an entry, what a stream promises of a log, with the detailed
   module shown to implement it.
2. The row-level contents the models abstract: the payload of a draft that two
   pages write, the stock that two orders read before they write it, the score of a
   rule that three processes update. These are the hazards listed without a property.
3. Lemmas towards the liveness properties that are safety: that the process a property waits
   for always has a step to take.
