--------------------------- MODULE BackgroundTasks ---------------------------
(***************************************************************************)
(* Generation jobs of the social media pages.  The API puts a job on       *)
(* Celery's queue and answers its id, the page notes the id in the         *)
(* browser's storage, and every page of the browser polls the ids noted    *)
(* there, several polls of one page at once if one takes long.  A poll     *)
(* that finds a job done writes its outcome and only then forgets the id;  *)
(* it forgets it too when there is nothing to write or nowhere to write it.*)
(* What a page does with a result in its open studio is left out.          *)
(***************************************************************************)
EXTENDS Naturals, FiniteSets

CONSTANTS
    Job,          \* jobs that may be asked for
    Holiday,      \* those that make a calendar post; the others fill a draft
    Poll,         \* polls under way at once, of any page
    JobRetries,   \* retries a worker makes of a job (1 or 2 in the code)
    MaxCuts       \* bound: pages closed between a write and the removal

NoJob == "no job"
ASSUME JobAssumption ==
    Holiday \subseteq Job /\ NoJob \notin Job /\ IsFiniteSet(Poll)
    /\ JobRetries \in Nat /\ MaxCuts \in Nat

VARIABLES
    celery,     \* what Celery knows of each job, and the retries it has had
    noted,      \* ids ever noted by a page
    homed,      \* those of other jobs noted with the draft or post they are for
    pending,    \* ids in the storage
    poll,       \* each poll: the ids it has still to ask, and the one it writes
    written,    \* how often each job's outcome was written
    dropped,    \* ids forgotten over an error: a wrong status, a refused write
    signedOut,  \* holidays' ids forgotten by a page nobody is signed in at
    cuts        \* pages closed between a write and the removal

jobVars   == <<celery, noted, homed, pending, poll, written, dropped, signedOut, cuts>>
pageVars  == <<noted, homed, pending, poll, written, dropped, signedOut, cuts>>

NoPoll == [todo |-> {}, writes |-> NoJob, wrote |-> FALSE]

JobsInit ==
    /\ celery = [j \in Job |-> [state |-> "none", retries |-> 0, kept |-> TRUE, found |-> FALSE]]
    /\ noted = {} /\ homed = {} /\ pending = {} /\ dropped = {} /\ signedOut = {}
    /\ poll = [p \in Poll |-> NoPoll]
    /\ written = [j \in Job |-> 0] /\ cuts = 0

GoTo(j, from, to) ==
    celery[j].state \in from /\ celery' = [celery EXCEPT ![j].state = to] /\ UNCHANGED pageVars

DispatchJob(j) == j \notin noted /\ GoTo(j, {"none"}, "queued")

\* The page gets the id, and notes with it what the result is for: a holiday's day,
\* the draft or the post in the studio, or nothing, when the studio is empty.
NoteJob(j) ==
    /\ celery[j].state # "none" /\ j \notin noted
    /\ noted' = noted \cup {j} /\ pending' = pending \cup {j}
    /\ \E home \in SUBSET ({j} \ Holiday) : homed' = homed \cup home
    /\ UNCHANGED <<celery, poll, written, dropped, signedOut, cuts>>

StartJob(j)    == GoTo(j, {"queued", "retry"}, "started")

\* It found something to write, or its images are none; an empty video is written.
JobSucceeds(j) ==
    /\ celery[j].state = "started"
    /\ \E found \in BOOLEAN :
          celery' = [celery EXCEPT ![j].state = "success", ![j].found = found]
    /\ UNCHANGED pageVars

JobRaises(j) ==
    /\ celery[j].state = "started"
    /\ celery' = IF celery[j].retries < JobRetries
                 THEN [celery EXCEPT ![j].state = "retry", ![j].retries = @ + 1]
                 ELSE [celery EXCEPT ![j].state = "failure"]
    /\ UNCHANGED pageVars

\* The worker dies before it acknowledged the job, and the broker delivers it again.
Redeliver(j) == GoTo(j, {"started"}, "queued")

\* A result is kept for an hour.
ResultExpires(j) ==
    /\ celery[j].state \in {"success", "failure"} /\ celery[j].kept
    /\ celery' = [celery EXCEPT ![j].kept = FALSE]
    /\ UNCHANGED pageVars

Status(j) == IF celery[j].kept THEN celery[j].state ELSE "pending"

SetPoll(p, fields) == poll' = [poll EXCEPT ![p] = fields]
Forget(j)          == pending' = pending \ {j}

\* A holiday's post is created whatever the result holds; the other jobs' outcome
\* is written if the result holds something and was asked for by a draft or post.
Writes(j) == j \in Holiday \/ (j \in homed /\ celery[j].found)

\* pollPendingTasksOnce reads the storage once.
BeginPoll(p) ==
    /\ poll[p] = NoPoll /\ pending # {}
    /\ SetPoll(p, [NoPoll EXCEPT !.todo = pending])
    /\ UNCHANGED <<celery, noted, homed, pending, written, dropped, signedOut, cuts>>

\* The status of one id.  No answer leaves the id for the next poll; an unknown
\* job is "pending"; and when the API cannot ask Celery it answers "failure"
\* itself, whatever became of the job, so that the page forgets it.
AskStatus(p) ==
    /\ poll[p].writes = NoJob
    /\ \E j \in poll[p].todo :
          LET next == [poll[p] EXCEPT !.todo = @ \ {j}]
          IN  \/ SetPoll(p, next) /\ UNCHANGED <<pending, dropped>>
              \/ SetPoll(p, next) /\ Forget(j) /\ dropped' = dropped \cup {j}
              \/ /\ Status(j) = "failure" /\ SetPoll(p, next)
                 /\ Forget(j) /\ UNCHANGED dropped
              \/ /\ Status(j) = "success" /\ SetPoll(p, [next EXCEPT !.writes = j])
                 /\ UNCHANGED <<pending, dropped>>
    /\ UNCHANGED <<celery, noted, homed, written, signedOut, cuts>>

\* The post is created, or the draft patched, which a second time changes nothing.
WriteOutcome(p) ==
    /\ poll[p].writes # NoJob /\ ~poll[p].wrote /\ Writes(poll[p].writes)
    /\ SetPoll(p, [poll[p] EXCEPT !.wrote = TRUE])
    /\ written' = [written EXCEPT ![poll[p].writes] = IF poll[p].writes \in Holiday THEN @ + 1 ELSE 1]
    /\ UNCHANGED <<celery, noted, homed, pending, dropped, signedOut, cuts>>

\* A write that is refused, or whose answer is lost: a holiday's id is forgotten
\* all the same, any other exception ends the whole poll.
WriteFails(p) ==
    /\ poll[p].writes # NoJob /\ Writes(poll[p].writes)
    /\ IF poll[p].writes \in Holiday
       THEN /\ SetPoll(p, [NoPoll EXCEPT !.todo = poll[p].todo])
            /\ Forget(poll[p].writes) /\ dropped' = dropped \cup {poll[p].writes}
       ELSE SetPoll(p, NoPoll) /\ UNCHANGED <<pending, dropped>>
    /\ UNCHANGED <<celery, noted, homed, written, signedOut, cuts>>

RemoveWritten(p) ==
    /\ poll[p].wrote
    /\ SetPoll(p, [NoPoll EXCEPT !.todo = poll[p].todo])
    /\ Forget(poll[p].writes)
    /\ UNCHANGED <<celery, noted, homed, written, dropped, signedOut, cuts>>

\* Slip: a job with a home is forgotten unwritten, too.
RemoveUnlooked(p) ==
    /\ poll[p].writes # NoJob /\ ~poll[p].wrote
    /\ SetPoll(p, [NoPoll EXCEPT !.todo = poll[p].todo])
    /\ Forget(poll[p].writes)
    /\ UNCHANGED <<celery, noted, homed, written, dropped, signedOut, cuts>>

\* The result is empty, or nobody's draft or post is to have it.
RemoveUnwritten(p) ==
    /\ poll[p].writes # NoJob /\ ~poll[p].wrote /\ ~Writes(poll[p].writes)
    /\ SetPoll(p, [NoPoll EXCEPT !.todo = poll[p].todo])
    /\ Forget(poll[p].writes)
    /\ UNCHANGED <<celery, noted, homed, written, dropped, signedOut, cuts>>

\* Nobody is signed in at the page: a holiday's post is not created.
RemoveSignedOut(p) ==
    /\ poll[p].writes \in Holiday /\ ~poll[p].wrote
    /\ SetPoll(p, [NoPoll EXCEPT !.todo = poll[p].todo])
    /\ Forget(poll[p].writes)
    /\ signedOut' = signedOut \cup {poll[p].writes}
    /\ UNCHANGED <<celery, noted, homed, written, dropped, cuts>>

\* The page is closed in the middle of its poll.
ClosePage(p) ==
    /\ poll[p] # NoPoll
    /\ SetPoll(p, NoPoll)
    /\ IF poll[p].wrote THEN cuts < MaxCuts /\ cuts' = cuts + 1 ELSE UNCHANGED cuts
    /\ UNCHANGED <<celery, noted, homed, pending, written, dropped, signedOut>>

JobsNext ==
    \/ \E j \in Job : \/ DispatchJob(j) \/ NoteJob(j) \/ StartJob(j) \/ JobSucceeds(j)
                      \/ JobRaises(j) \/ Redeliver(j) \/ ResultExpires(j)
    \/ \E p \in Poll : \/ BeginPoll(p) \/ AskStatus(p) \/ WriteOutcome(p) \/ WriteFails(p)
                       \/ RemoveWritten(p) \/ RemoveUnwritten(p) \/ RemoveSignedOut(p)
                       \/ ClosePage(p)

JobsSpec == JobsInit /\ [][JobsNext]_jobVars

(***************************************************************************)
(* Properties                                                              *)
(***************************************************************************)
\* The calendar gets no more posts of a holiday job than polls were under way at
\* once, plus one for each page closed at the wrong moment; and an id leaves the
\* storage only once its outcome was written, its job failed, an error said so, or
\* its job succeeded with nothing to write, no draft or post to write it to, or,
\* for a holiday, nobody signed in at the page that asked.
OutcomesAccounted ==
    /\ \A j \in Holiday : written[j] <= Cardinality(Poll) + cuts
    /\ \A j \in noted \ (pending \cup dropped) :
          \/ written[j] > 0 \/ celery[j].state = "failure"
          \/ celery[j].state = "success" /\ (j \in signedOut \/ ~Writes(j))
=============================================================================
