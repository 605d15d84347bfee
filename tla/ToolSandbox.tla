---------------------------- MODULE ToolSandbox ----------------------------
(***************************************************************************)
(* execute_in_sandbox: the calls of one tool, the four-worker executor     *)
(* their attempts run on, timeouts, retries with backoff and the circuit   *)
(* breaker.  An attempt that timed out while it ran keeps its worker, and  *)
(* may still do its work, while its caller retries or has gone.            *)
(***************************************************************************)
EXTENDS Naturals, Sequences, FiniteSets

CONSTANTS
    Call,          \* calls of execute_in_sandbox
    Workers,       \* threads of the executor
    MaxRetries,    \* attempts after the first (2 in the code)
    Threshold      \* failed calls that open the breaker (5 in the code)

ASSUME SandboxAssumption ==
    Workers \in Nat \ {0} /\ MaxRetries \in Nat /\ Threshold \in Nat \ {0}

VARIABLES
    caller,     \* where each call is: before, waiting, backoff, success, failed, refused
    attempt,    \* the attempt it is at
    job,        \* the job of every attempt
    jobQueue,   \* submitted jobs no worker has come to
    effects,    \* attempts of a call that did their work
    timeouts,   \* attempts of a call that ran out of time
    failures,   \* failed calls in the breaker's window
    breaker     \* closed, open, or open with its cooldown over

sandboxVars == <<caller, attempt, job, jobQueue, effects, timeouts, failures, breaker>>

Attempt == 0 .. MaxRetries

SandboxInit ==
    /\ caller = [c \in Call |-> "before"]
    /\ attempt = [c \in Call |-> 0]
    /\ job = [c \in Call |-> [a \in Attempt |-> "none"]]
    /\ jobQueue = <<>>
    /\ effects = [c \in Call |-> 0] /\ timeouts = effects
    /\ failures = 0 /\ breaker = "closed"

Caller(c, at) == caller' = [caller EXCEPT ![c] = at]
SetJob(c, a, state) == job' = [job EXCEPT ![c][a] = state]

Submit(c, a) ==
    /\ attempt' = [attempt EXCEPT ![c] = a]
    /\ SetJob(c, a, "queued")
    /\ jobQueue' = Append(jobQueue, <<c, a>>)
    /\ Caller(c, "waiting")

\* The breaker is asked once, at the start of a call.
Begin(c) ==
    /\ caller[c] = "before"
    /\ IF breaker = "open"
       THEN /\ Caller(c, "refused")
            /\ UNCHANGED <<attempt, job, jobQueue, failures, breaker>>
       ELSE /\ Submit(c, 0)
            /\ IF breaker = "cooled" THEN breaker' = "closed" /\ failures' = 0
               ELSE UNCHANGED <<breaker, failures>>
    /\ UNCHANGED <<effects, timeouts>>

Running == {j \in Call \X Attempt : job[j[1]][j[2]] = "running"}

\* A free worker takes the next job up, or passes over one that was cancelled.
TakeUp ==
    /\ jobQueue # <<>> /\ Cardinality(Running) < Workers
    /\ LET j == Head(jobQueue) IN
       IF job[j[1]][j[2]] = "cancelled" THEN UNCHANGED job ELSE SetJob(j[1], j[2], "running")
    /\ jobQueue' = Tail(jobQueue)
    /\ UNCHANGED <<caller, attempt, effects, timeouts, failures, breaker>>

\* run_fn returns after doing its work, or raises without.
EndJob(c, a) ==
    /\ job[c][a] = "running"
    /\ \/ SetJob(c, a, "ok") /\ effects' = [effects EXCEPT ![c] = @ + 1]
       \/ SetJob(c, a, "error") /\ UNCHANGED effects
    /\ UNCHANGED <<caller, attempt, jobQueue, timeouts, failures, breaker>>

\* Failures older than the window leave it when the next one is recorded.
RecordFailure ==
    \E recent \in 0 .. failures :
        /\ failures' = recent + 1
        /\ breaker' = IF recent + 1 >= Threshold /\ breaker = "closed" THEN "open" ELSE breaker

NextAttempt(c) ==
    IF attempt[c] < MaxRetries
    THEN Caller(c, "backoff") /\ UNCHANGED <<failures, breaker>>
    ELSE Caller(c, "failed") /\ RecordFailure

\* future.result returns or raises what the job did.
Receive(c) ==
    /\ caller[c] = "waiting" /\ job[c][attempt[c]] \in {"ok", "error"}
    /\ IF job[c][attempt[c]] = "ok"
       THEN Caller(c, "success") /\ failures' = 0 /\ breaker' = "closed"
       ELSE NextAttempt(c)
    /\ UNCHANGED <<attempt, job, jobQueue, effects, timeouts>>

\* Slip: a job that has not started is not cancelled.
TimeOutKeeping(c) ==
    /\ caller[c] = "waiting" /\ job[c][attempt[c]] \in {"queued", "running"}
    /\ timeouts' = [timeouts EXCEPT ![c] = @ + 1]
    /\ NextAttempt(c)
    /\ UNCHANGED <<attempt, job, jobQueue, effects>>

\* The time is up: cancel() ends a job that has not started, and leaves a running
\* one alone.
TimeOut(c) ==
    /\ caller[c] = "waiting" /\ job[c][attempt[c]] \in {"queued", "running"}
    /\ timeouts' = [timeouts EXCEPT ![c] = @ + 1]
    /\ IF job[c][attempt[c]] = "queued" THEN SetJob(c, attempt[c], "cancelled") ELSE UNCHANGED job
    /\ NextAttempt(c)
    /\ UNCHANGED <<attempt, jobQueue, effects>>

Retry(c) ==
    /\ caller[c] = "backoff"
    /\ Submit(c, attempt[c] + 1)
    /\ UNCHANGED <<effects, timeouts, failures, breaker>>

CoolDown ==
    /\ breaker = "open" /\ breaker' = "cooled"
    /\ UNCHANGED <<caller, attempt, job, jobQueue, effects, timeouts, failures>>

SandboxNext ==
    \/ \E c \in Call : \/ Begin(c) \/ Receive(c) \/ TimeOut(c) \/ Retry(c)
                       \/ \E a \in Attempt : EndJob(c, a)
    \/ TakeUp \/ CoolDown

SandboxSpec == SandboxInit /\ [][SandboxNext]_sandboxVars

(***************************************************************************)
(* Properties                                                              *)
(***************************************************************************)
\* No worker takes up an attempt its caller has given up: what runs on behind a
\* caller's back was running when its time was up.
GivenUpNeverStarts ==
    \A c \in Call, a \in Attempt :
        job[c][a] = "queued" => caller[c] = "waiting" /\ attempt[c] = a

\* A tool does its work more than once for a call only if an attempt ran out of
\* time, and no more often than that; a call that reports success has done it;
\* and an attempt that was given up in the queue never starts.
EffectsBounded ==
    /\ \A c \in Call : /\ effects[c] <= 1 + timeouts[c]
                       /\ caller[c] = "success" => effects[c] >= 1
    /\ GivenUpNeverStarts
=============================================================================
