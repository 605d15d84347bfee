---------------------------- MODULE ServiceProofs ----------------------------
(***************************************************************************)
(* Theorems about the services that share nothing with one another, for    *)
(* any threads, calls, people, readers, editors, jobs and events, and      *)
(* bounds of any size: the connection pool, the tool sandbox, the          *)
(* campaigns, the cache of DSL rules, the versions of a structured rule,   *)
(* the generation jobs, the timeline's copy and publishing to the Graph    *)
(* API.  Each section gives the inductive invariant, shows that the        *)
(* initial states and every step keep it, and concludes.                   *)
(***************************************************************************)
EXTENDS ConnectionPool, ToolSandbox, Campaigns, RuleCache, RuleVersions, BackgroundTasks,
        Timeline, GraphPublishing, TLAPS, FiniteSetTheorems, SequenceTheorems

(***************************************************************************)
(* The connection pool                                                     *)
(***************************************************************************)
Place == {"away", "asking", "empty", "opening", "waiting", "using"}

\* A thread holds a connection of the pool exactly while it uses it.
PoolTypeOK ==
    /\ unopened \subseteq Slot /\ queue \subseteq Slot /\ leaked \subseteq Slot
    /\ thread \in [Thread -> [at : Place, managed : BOOLEAN, conn : Slot \cup {None}]]
    /\ \A t \in Thread : thread[t].at = "using" <=> thread[t].conn # None

\* Only the lock's holder opens or waits.  It waits only if nothing is left to
\* open, and nobody can open anything behind its back.
LockOK ==
    \A t \in Thread :
        thread[t].at \in {"opening", "waiting"} =>
            /\ poolLock = t
            /\ thread[t].at = "waiting" => unopened = {}
            /\ thread[t].at = "opening" => unopened # {}

PoolInv == PoolTypeOK /\ LockOK /\ NoneMislaid

\* Every connection is idle and every slot free at first.
LEMMA PoolInvInit == PoolInit => PoolInv
<1> SUFFICES ASSUME PoolInit PROVE PoolInv
  OBVIOUS
<1>1. None \notin Slot
  BY PoolAssumption
<1>2. \A t \in Thread : thread[t].at = "away" /\ thread[t].conn = None
  BY DEF PoolInit, Away
<1>3. PoolTypeOK
  BY <1>2 DEF PoolInit, PoolTypeOK, Away, Place
<1>4. LockOK
  BY <1>2 DEF LockOK
<1>5. NoneMislaid
  BY <1>1, <1>2 DEF NoneMislaid, PoolInit
<1>. QED  BY <1>3, <1>4, <1>5 DEF PoolInv

\* A step of one thread that neither takes a connection nor gives one away.
LEMMA EmptyHandedInv ==
    ASSUME PoolInv, NEW t \in Thread, NEW there \in [at : Place, managed : BOOLEAN, conn : {None}],
           thread[t].at # "using", there.at # "using",
           thread' = [thread EXCEPT ![t] = there],
           UNCHANGED <<unopened, queue, leaked>>,
           poolLock' # poolLock => thread[t].at \in {"opening", "waiting"} \/ poolLock = None,
           there.at \in {"opening", "waiting"} =>
               poolLock' = t /\ (there.at = "waiting" <=> unopened = {})
    PROVE  PoolInv'
<1>1. /\ thread[t].conn = None /\ there.conn = None
      /\ \A u \in Thread : thread'[u].conn = thread[u].conn
  BY DEF PoolInv, PoolTypeOK
<1>2. PoolTypeOK'
  BY <1>1 DEF PoolInv, PoolTypeOK
<1>3. LockOK'
  <2> SUFFICES ASSUME NEW u \in Thread, thread'[u].at \in {"opening", "waiting"}
               PROVE  /\ poolLock' = u
                      /\ thread'[u].at = "waiting" => unopened' = {}
                      /\ thread'[u].at = "opening" => unopened' # {}
    BY DEF LockOK
  <2>1. CASE u = t
    BY <2>1 DEF PoolInv, PoolTypeOK
  <2>2. CASE u # t
    <3>1. thread'[u] = thread[u] /\ poolLock = u
      BY <2>2 DEF PoolInv, PoolTypeOK, LockOK
    <3>2. poolLock' = poolLock
      BY <2>2, <3>1, PoolAssumption DEF PoolInv, LockOK
    <3>. QED  BY <3>1, <3>2 DEF PoolInv, LockOK
  <2>. QED  BY <2>1, <2>2
<1>4. NoneMislaid'
  BY <1>1 DEF PoolInv, NoneMislaid
<1>. QED  BY <1>2, <1>3, <1>4 DEF PoolInv

\* A step in which one thread takes a connection from the queue or opens it.
LEMMA TakeInv ==
    ASSUME PoolInv, NEW t \in Thread, thread[t].at # "using",
           NEW c \in unopened \cup queue, Hold(t, c),
           unopened' = unopened \ {c}, queue' = queue \ {c}, UNCHANGED leaked,
           c \in unopened => thread[t].at = "opening",
           thread[t].at \in {"opening", "waiting"} \/ UNCHANGED poolLock
    PROVE  PoolInv'
<1>1. c \in Slot /\ c # None /\ c \notin leaked /\ thread[t].conn = None
  BY PoolAssumption DEF PoolInv, PoolTypeOK, NoneMislaid
<1>2. /\ thread'[t].at = "using" /\ thread'[t].conn = c
      /\ \A u \in Thread : u # t => thread'[u] = thread[u] /\ thread[u].conn # c
  BY <1>1 DEF PoolInv, PoolTypeOK, NoneMislaid, Hold
<1>3. PoolTypeOK'
  BY <1>1, <1>2 DEF PoolInv, PoolTypeOK, Hold, Place
<1>4. LockOK'
  <2> SUFFICES ASSUME NEW u \in Thread, thread'[u].at \in {"opening", "waiting"}
               PROVE  /\ poolLock' = u
                      /\ thread'[u].at = "waiting" => unopened' = {}
                      /\ thread'[u].at = "opening" => unopened' # {}
    BY DEF LockOK
  <2>1. u # t /\ thread'[u] = thread[u] /\ poolLock = u
    BY <1>2 DEF PoolInv, LockOK
  <2>2. thread[t].at \notin {"opening", "waiting"}
    BY <2>1 DEF PoolInv, LockOK
  <2>3. unopened' = unopened /\ poolLock' = poolLock
    BY <2>2
  <2>. QED  BY <2>1, <2>3 DEF PoolInv, LockOK
<1>5. NoneMislaid'
  <2>1. Slot = (unopened \cup queue \cup leaked
                  \cup {d \in Slot : \E u \in Thread : thread[u].conn = d})'
    <3>1. ASSUME NEW d \in Slot, d \notin unopened' \cup queue' \cup leaked'
          PROVE  \E u \in Thread : thread'[u].conn = d
      <4>1. CASE d = c
        BY <1>2, <4>1
      <4>2. CASE d # c
        <5>1. PICK u \in Thread : thread[u].conn = d
          BY <3>1, <4>2 DEF PoolInv, NoneMislaid
        <5>. QED  BY <1>1, <1>2, <5>1, PoolAssumption
      <4>. QED  BY <4>1, <4>2
    <3>. QED  BY <1>3, <3>1 DEF PoolTypeOK
  <2>2. /\ (unopened \cap queue = {})' /\ (leaked \cap (unopened \cup queue) = {})'
    BY DEF PoolInv, NoneMislaid
  <2>3. \A u \in Thread : thread'[u].conn \notin unopened' \cup queue' \cup leaked'
    BY <1>1, <1>2 DEF PoolInv, NoneMislaid
  <2>4. \A u, v \in Thread :
            thread'[u].conn = thread'[v].conn /\ thread'[u].conn # None => u = v
    BY <1>1, <1>2 DEF PoolInv, NoneMislaid
  <2>. QED  BY <2>1, <2>2, <2>3, <2>4 DEF NoneMislaid
<1>. QED  BY <1>3, <1>4, <1>5 DEF PoolInv

\* A step in which one thread parts with its connection, to the queue or for good.
LEMMA PartInv ==
    ASSUME PoolInv, NEW t \in Thread, thread[t].at = "using", GoAway(t),
           UNCHANGED <<unopened, poolLock>>,
           \/ queue' = queue \cup {thread[t].conn} /\ UNCHANGED leaked
           \/ leaked' = leaked \cup {thread[t].conn} /\ UNCHANGED queue
    PROVE  PoolInv'
<1> DEFINE c == thread[t].conn
<1>1. c \in Slot /\ c # None
  BY DEF PoolInv, PoolTypeOK
<1>2. /\ thread'[t].at = "away" /\ thread'[t].conn = None
      /\ \A u \in Thread : u # t => thread'[u] = thread[u] /\ thread[u].conn # c
  BY <1>1 DEF PoolInv, PoolTypeOK, NoneMislaid, GoAway, Away
<1>3. PoolTypeOK'
  BY <1>1, <1>2 DEF PoolInv, PoolTypeOK, GoAway, Away, Place
<1>4. LockOK'
  BY <1>2 DEF PoolInv, LockOK
<1>5. NoneMislaid'
  <2>1. Slot = (unopened \cup queue \cup leaked
                  \cup {d \in Slot : \E u \in Thread : thread[u].conn = d})'
    BY <1>1, <1>2 DEF PoolInv, NoneMislaid
  <2>2. /\ (unopened \cap queue = {})' /\ (leaked \cap (unopened \cup queue) = {})'
    BY DEF PoolInv, NoneMislaid
  <2>3. \A u \in Thread : thread'[u].conn \notin unopened' \cup queue' \cup leaked'
    BY <1>1, <1>2, <1>3, PoolAssumption DEF PoolInv, PoolTypeOK, NoneMislaid
  <2>4. \A u, v \in Thread :
            thread'[u].conn = thread'[v].conn /\ thread'[u].conn # None => u = v
    BY <1>1, <1>2 DEF PoolInv, NoneMislaid
  <2>. QED  BY <2>1, <2>2, <2>3, <2>4 DEF NoneMislaid
<1>. QED  BY <1>3, <1>4, <1>5 DEF PoolInv

\* Every step of a thread keeps every slot and connection accounted for.
LEMMA PoolInvNext == PoolInv /\ [PoolNext]_poolVars => PoolInv'
<1> SUFFICES ASSUME PoolInv, [PoolNext]_poolVars PROVE PoolInv'
  OBVIOUS
<1>1. CASE UNCHANGED poolVars
  BY <1>1 DEF PoolInv, PoolTypeOK, LockOK, NoneMislaid, poolVars
<1>2. ASSUME NEW t \in Thread, Ask(t) PROVE PoolInv'
  <2> PICK managed \in BOOLEAN :
         thread' = [thread EXCEPT ![t] = [at |-> "asking", managed |-> managed, conn |-> None]]
    BY <1>2 DEF Ask, Away
  <2>. QED  BY <1>2, EmptyHandedInv DEF Ask, Place
<1>3. ASSUME NEW t \in Thread, TryQueue(t) PROVE PoolInv'
  <2>1. CASE queue = {}
    BY <1>3, <2>1, EmptyHandedInv DEF TryQueue, At, Place, PoolInv, PoolTypeOK
  <2>2. CASE queue # {}
    BY <1>3, <2>2, TakeInv DEF TryQueue, PoolInv, NoneMislaid
  <2>. QED  BY <2>1, <2>2
<1>4. ASSUME NEW t \in Thread, Lock(t) PROVE PoolInv'
  BY <1>4, EmptyHandedInv DEF Lock, At, Place, PoolInv, PoolTypeOK
<1>5. ASSUME NEW t \in Thread, Open(t) PROVE PoolInv'
  BY <1>5, TakeInv DEF Open, PoolInv, NoneMislaid
<1>6. ASSUME NEW t \in Thread, OpenFails(t) PROVE PoolInv'
  BY <1>6, EmptyHandedInv DEF OpenFails, GoAway, Away, Place
<1>7. ASSUME NEW t \in Thread, TakeReturned(t) PROVE PoolInv'
  BY <1>7, TakeInv DEF TakeReturned, PoolInv, NoneMislaid
<1>8. ASSUME NEW t \in Thread, GiveBack(t) PROVE PoolInv'
  BY <1>8, PartInv DEF GiveBack
<1>9. ASSUME NEW t \in Thread, LoseConnection(t) PROVE PoolInv'
  BY <1>9, PartInv DEF LoseConnection
<1>. QED  BY <1>1, <1>2, <1>3, <1>4, <1>5, <1>6, <1>7, <1>8, <1>9 DEF PoolNext

\* The pool's lock blocks nobody for want of a connection: who waits has seen that
\* none is left to open, so every one that is not lost is in the queue or in use.
LEMMA InvGivesBack == PoolInv => SomeoneGivesBack
<1> SUFFICES ASSUME PoolInv, NEW t \in Thread, thread[t].at = "waiting", leaked # Slot, queue = {}
             PROVE  \E u \in Thread : thread[u].at = "using"
  BY DEF SomeoneGivesBack, PoolInv
<1>1. unopened = {}
  BY DEF PoolInv, LockOK
<1>2. PICK c \in Slot : c \notin leaked
  BY DEF PoolInv, PoolTypeOK
<1>3. PICK u \in Thread : thread[u].conn = c
  BY <1>1, <1>2 DEF PoolInv, NoneMislaid
<1>. QED  BY <1>3, PoolAssumption DEF PoolInv, PoolTypeOK

\* Type correctness of the pool, with who holds a connection.
THEOREM PoolTypeCorrect == PoolSpec => []PoolTypeOK
<1>1. PoolInv => PoolTypeOK
  BY DEF PoolInv
<1>. QED  BY PoolInvInit, PoolInvNext, <1>1, PTL DEF PoolSpec

\* For any threads and pool size: no two threads share a connection, none is
\* mislaid, and nobody waits in vain until raw users of get_db have lost every
\* connection (acquire and release of db.py).
THEOREM SomeoneGivesBackHolds == PoolSpec => []SomeoneGivesBack
BY PoolInvInit, PoolInvNext, InvGivesBack, PTL DEF PoolSpec

(***************************************************************************)
(* The tool sandbox                                                        *)
(***************************************************************************)
CallerState == {"before", "waiting", "backoff", "success", "failed", "refused"}
JobState    == {"none", "queued", "running", "ok", "error", "cancelled"}

SandboxTypeOK ==
    /\ caller \in [Call -> CallerState] /\ attempt \in [Call -> Attempt]
    /\ job \in [Call -> [Attempt -> JobState]]
    /\ jobQueue \in Seq(Call \X Attempt)
    /\ effects \in [Call -> Nat] /\ timeouts \in [Call -> Nat]

GivenUp(c) ==
    {a \in Attempt : a < attempt[c] \/ (a = attempt[c] /\ caller[c] \in {"backoff", "failed"})}

\* The attempts that did the work, and those that did it or may do it although
\* their caller has given them up: no more than ran out of time.
DidWork(c)     == {a \in Attempt : job[c][a] = "ok"}
BehindBack(c)  == {a \in GivenUp(c) : job[c][a] \in {"running", "ok"}}

CallOK(c) ==
    /\ caller[c] = "backoff" => attempt[c] < MaxRetries
    /\ caller[c] = "success" => job[c][attempt[c]] = "ok"
    /\ \A a \in Attempt :
          /\ job[c][a] = "queued" => caller[c] = "waiting" /\ attempt[c] = a
          /\ a > attempt[c] \/ caller[c] \in {"before", "refused"} => job[c][a] = "none"
    /\ effects[c] = Cardinality(DidWork(c))
    /\ Cardinality(BehindBack(c)) <= timeouts[c]

\* A job is in the queue once, and has not started.
QueueOK ==
    /\ \A n \in 1 .. Len(jobQueue) : job[jobQueue[n][1]][jobQueue[n][2]] \in {"queued", "cancelled"}
    /\ \A n, m \in 1 .. Len(jobQueue) : jobQueue[n] = jobQueue[m] => n = m

SandboxInv == SandboxTypeOK /\ QueueOK /\ \A c \in Call : CallOK(c)

\* The attempts of the jobs are finitely many, so that effects can be counted.
LEMMA AttemptsFinite ==
    /\ IsFiniteSet(Attempt) /\ 0 \in Attempt /\ Attempt \subseteq Nat
    /\ \A S \in SUBSET Attempt : IsFiniteSet(S) /\ Cardinality(S) \in Nat
<1>1. IsFiniteSet(Attempt)
  BY SandboxAssumption, FS_Interval DEF Attempt
<1>2. ASSUME NEW S \in SUBSET Attempt PROVE IsFiniteSet(S) /\ Cardinality(S) \in Nat
  BY <1>1, FS_Subset, FS_CardinalityType
<1>. QED  BY <1>1, <1>2, SandboxAssumption DEF Attempt

\* The number of attempts that did the work, of those behind the caller's back
\* and of those that may.
LEMMA CardinalityMonotone ==
    ASSUME NEW S \in SUBSET Attempt, NEW T \in SUBSET S
    PROVE  Cardinality(T) <= Cardinality(S)
BY AttemptsFinite, FS_Subset

\* No job has taken effect at first.
LEMMA SandboxInvInit == SandboxInit => SandboxInv
<1> SUFFICES ASSUME SandboxInit PROVE SandboxInv
  OBVIOUS
<1>1. SandboxTypeOK
  BY AttemptsFinite, EmptySeq DEF SandboxInit, SandboxTypeOK, CallerState, JobState
<1>2. QueueOK
  BY EmptySeq DEF SandboxInit, QueueOK
<1>3. ASSUME NEW c \in Call PROVE CallOK(c)
  <2>1. DidWork(c) = {} /\ BehindBack(c) = {}
    BY <1>3 DEF SandboxInit, DidWork, BehindBack, GivenUp
  <2>2. effects[c] = 0 /\ timeouts[c] = 0
    BY DEF SandboxInit
  <2>. QED  BY <2>1, <2>2, FS_EmptySet DEF SandboxInit, CallOK
<1>. QED  BY <1>1, <1>2, <1>3 DEF SandboxInv

\* What a step does not touch of a call stays in order.
LEMMA OtherCalls ==
    ASSUME NEW c \in Call, CallOK(c), attempt[c] \in Attempt,
           caller'[c] = caller[c], attempt'[c] = attempt[c],
           \A a \in Attempt : job'[c][a] = job[c][a],
           effects'[c] = effects[c], timeouts'[c] = timeouts[c]
    PROVE  CallOK(c)'
<1>1. DidWork(c)' = DidWork(c)
  BY DEF DidWork
<1>2. BehindBack(c)' = BehindBack(c)
  BY DEF BehindBack, GivenUp
<1>. QED  BY <1>1, <1>2 DEF CallOK

\* A step of one job changes the effects counted by at most its own.
LEMMA SetJobEffect ==
    ASSUME SandboxTypeOK, NEW c \in Call, NEW a \in Attempt, NEW state \in JobState,
           SetJob(c, a, state)
    PROVE  /\ job' \in [Call -> [Attempt -> JobState]]
           /\ \A d \in Call, b \in Attempt :
                 job'[d][b] = IF d = c /\ b = a THEN state ELSE job[d][b]
BY DEF SandboxTypeOK, SetJob

\* A call submits its next attempt, or its first.
LEMMA SubmitInv ==
    ASSUME SandboxInv, NEW c \in Call, NEW a \in Attempt, Submit(c, a),
           UNCHANGED <<effects, timeouts>>, job[c][a] = "none",
           \/ caller[c] = "before" /\ a = 0
           \/ caller[c] = "backoff" /\ a = attempt[c] + 1
    PROVE  SandboxInv'
<1> USE DEF SandboxInv, CallerState, JobState
<1>1. /\ attempt' = [attempt EXCEPT ![c] = a] /\ caller' = [caller EXCEPT ![c] = "waiting"]
      /\ job' \in [Call -> [Attempt -> JobState]]
      /\ \A d \in Call, b \in Attempt :
             job'[d][b] = IF d = c /\ b = a THEN "queued" ELSE job[d][b]
  BY SetJobEffect DEF Submit, Caller
<1>2. /\ jobQueue' \in Seq(Call \X Attempt) /\ Len(jobQueue') = Len(jobQueue) + 1
      /\ \A n \in 1 .. Len(jobQueue) : jobQueue'[n] = jobQueue[n]
      /\ jobQueue'[Len(jobQueue) + 1] = <<c, a>>
  BY AppendProperties DEF Submit, SandboxTypeOK
<1>3. Len(jobQueue) \in Nat
  BY LenProperties DEF SandboxTypeOK
<1>4. \A n \in 1 .. Len(jobQueue) : jobQueue[n] \in Call \X Attempt
  BY ElementOfSeq DEF SandboxTypeOK
<1>5. SandboxTypeOK'
  BY <1>1, <1>2 DEF SandboxTypeOK
<1>6. QueueOK'
  <2>1. \A n \in 1 .. Len(jobQueue) : jobQueue[n] # <<c, a>>
    BY DEF QueueOK
  <2>2. \A n \in 1 .. Len(jobQueue') : n \in 1 .. Len(jobQueue) \/ n = Len(jobQueue) + 1
    BY <1>2, <1>3
  <2>3. ASSUME NEW n \in 1 .. Len(jobQueue')
        PROVE  job'[jobQueue'[n][1]][jobQueue'[n][2]] \in {"queued", "cancelled"}
    <3>1. CASE n = Len(jobQueue) + 1
      BY <1>1, <1>2, <3>1
    <3>2. CASE n \in 1 .. Len(jobQueue)
      <4>1. PICK d \in Call, b \in Attempt : jobQueue[n] = <<d, b>>
        BY <1>4, <3>2
      <4>2. job[d][b] \in {"queued", "cancelled"} /\ (d # c \/ b # a)
        BY <2>1, <3>2, <4>1 DEF QueueOK
      <4>. QED  BY <1>1, <1>2, <3>2, <4>1, <4>2
    <3>. QED  BY <2>2, <3>1, <3>2
  <2>4. \A n, m \in 1 .. Len(jobQueue') : jobQueue'[n] = jobQueue'[m] => n = m
    BY <1>2, <2>1, <2>2 DEF QueueOK
  <2>. QED  BY <2>3, <2>4 DEF QueueOK
<1>7. ASSUME NEW d \in Call PROVE CallOK(d)'
  <2>1. CASE d # c
    BY <1>1, <2>1, OtherCalls DEF SandboxTypeOK
  <2>2. CASE d = c
    <3>1. attempt'[c] = a /\ caller'[c] = "waiting" /\ attempt[c] \in Nat /\ a \in Nat
      BY <1>1, AttemptsFinite DEF SandboxTypeOK
    <3>2. DidWork(c)' = DidWork(c)
      BY <1>1 DEF DidWork
    <3>3. BehindBack(c)' = BehindBack(c)
      <4> SUFFICES ASSUME NEW b \in Attempt PROVE b \in BehindBack(c)' <=> b \in BehindBack(c)
        BY DEF BehindBack, GivenUp
      <4>1. b \in Nat
        BY AttemptsFinite
      <4>2. caller[c] = "before" => job[c][b] = "none"
        BY DEF CallOK
      <4>3. job'[c][b] = IF b = a THEN "queued" ELSE job[c][b]
        BY <1>1
      <4>. QED  BY <3>1, <4>1, <4>2, <4>3 DEF BehindBack, GivenUp
    <3>4. \A b \in Attempt : /\ job'[c][b] = "queued" => b = a
                             /\ b > a => job'[c][b] = "none"
      BY <1>1, <3>1, AttemptsFinite DEF CallOK
    <3>. QED  BY <2>2, <3>1, <3>2, <3>3, <3>4 DEF CallOK
  <2>. QED  BY <2>1, <2>2
<1>. QED  BY <1>5, <1>6, <1>7

\* A call taken up by the pool starts at most one attempt more.
LEMMA TakeUpInv ==
    ASSUME SandboxInv, TakeUp PROVE SandboxInv'
<1> USE DEF SandboxInv, CallerState, JobState
<1>1. PICK c \in Call, a \in Attempt : Head(jobQueue) = <<c, a>>
  BY HeadTailProperties DEF TakeUp, SandboxTypeOK
<1>2. /\ jobQueue' \in Seq(Call \X Attempt) /\ Len(jobQueue') = Len(jobQueue) - 1
      /\ \A n \in 1 .. Len(jobQueue') : jobQueue'[n] = jobQueue[n + 1]
  BY HeadTailProperties DEF TakeUp, SandboxTypeOK
<1>3. Len(jobQueue) \in Nat /\ 1 \in 1 .. Len(jobQueue) /\ jobQueue[1] = <<c, a>>
  BY <1>1, EmptySeq DEF TakeUp, SandboxTypeOK
<1>4. \A n \in 1 .. Len(jobQueue) : jobQueue[n] \in Call \X Attempt
  BY ElementOfSeq DEF SandboxTypeOK
<1>5. /\ job' \in [Call -> [Attempt -> JobState]]
      /\ \A d \in Call, b \in Attempt :
             \/ job'[d][b] = job[d][b]
             \/ d = c /\ b = a /\ job'[d][b] = "running" /\ job[c][a] = "queued"
  <2>1. job[c][a] \in {"queued", "cancelled"}
    BY <1>3 DEF QueueOK
  <2>2. CASE job[c][a] = "cancelled"
    BY <1>1, <2>2 DEF TakeUp, SandboxTypeOK
  <2>3. CASE job[c][a] = "queued"
    BY <1>1, <2>3, SetJobEffect DEF TakeUp
  <2>. QED  BY <2>1, <2>2, <2>3
<1>6. SandboxTypeOK'
  BY <1>2, <1>5 DEF SandboxTypeOK, TakeUp
<1>7. QueueOK'
  <2>1. ASSUME NEW n \in 1 .. Len(jobQueue')
        PROVE  job'[jobQueue'[n][1]][jobQueue'[n][2]] \in {"queued", "cancelled"}
    <3>1. n + 1 \in 1 .. Len(jobQueue) /\ jobQueue'[n] = jobQueue[n + 1] /\ n + 1 # 1
      BY <1>2, <1>3
    <3>2. PICK d \in Call, b \in Attempt : jobQueue[n + 1] = <<d, b>>
      BY <1>4, <3>1
    <3>3. job[d][b] \in {"queued", "cancelled"} /\ (d # c \/ b # a)
      <4>1. jobQueue[n + 1] # jobQueue[1] /\ 1 \in 1 .. Len(jobQueue)
        BY <1>3, <3>1 DEF QueueOK
      <4>2. <<d, b>> # <<c, a>>
        BY <1>3, <3>2, <4>1
      <4>3. jobQueue[n + 1][1] = d /\ jobQueue[n + 1][2] = b
        BY <3>2
      <4>4. job[jobQueue[n + 1][1]][jobQueue[n + 1][2]] \in {"queued", "cancelled"}
        BY <1>3, <3>1 DEF QueueOK
      <4>. QED  BY <4>2, <4>3, <4>4
    <3>. QED  BY <1>5, <3>1, <3>2, <3>3
  <2>2. \A n, m \in 1 .. Len(jobQueue') : jobQueue'[n] = jobQueue'[m] => n = m
    <3> TAKE n, m \in 1 .. Len(jobQueue')
    <3>1. n + 1 \in 1 .. Len(jobQueue) /\ m + 1 \in 1 .. Len(jobQueue)
      BY <1>2, <1>3
    <3>. QED  BY <1>2, <3>1 DEF QueueOK
  <2>. QED  BY <2>1, <2>2 DEF QueueOK
<1>8. ASSUME NEW d \in Call PROVE CallOK(d)'
  <2>1. UNCHANGED <<caller, attempt, effects, timeouts>>
    BY DEF TakeUp
  <2>2. DidWork(d)' = DidWork(d)
    BY <1>5 DEF DidWork
  <2>3. BehindBack(d)' = BehindBack(d)
    <3> SUFFICES ASSUME NEW b \in Attempt PROVE b \in BehindBack(d)' <=> b \in BehindBack(d)
      BY DEF BehindBack, GivenUp
    <3>1. b \in Nat /\ attempt[d] \in Nat
      BY AttemptsFinite DEF SandboxTypeOK
    <3>2. job[d][b] = "queued" => caller[d] = "waiting" /\ attempt[d] = b
      BY DEF CallOK
    <3>3. \/ job'[d][b] = job[d][b]
          \/ job'[d][b] = "running" /\ job[d][b] = "queued"
      BY <1>5
    <3>. QED  BY <2>1, <3>1, <3>2, <3>3 DEF BehindBack, GivenUp
  <2>. QED  BY <1>5, <2>1, <2>2, <2>3 DEF CallOK, SandboxTypeOK
<1>. QED  BY <1>6, <1>7, <1>8

\* A running job ends.
LEMMA EndJobInv ==
    ASSUME SandboxInv, NEW c \in Call, NEW a \in Attempt, EndJob(c, a) PROVE SandboxInv'
<1> USE DEF SandboxInv, CallerState, JobState
<1>1. UNCHANGED <<caller, attempt, jobQueue, timeouts>> /\ job[c][a] = "running"
  BY DEF EndJob
<1>2. PICK state \in {"ok", "error"} :
         /\ SetJob(c, a, state)
         /\ effects' = IF state = "ok" THEN [effects EXCEPT ![c] = @ + 1] ELSE effects
  BY DEF EndJob
<1>3. /\ job' \in [Call -> [Attempt -> JobState]]
      /\ \A d \in Call, b \in Attempt :
             job'[d][b] = IF d = c /\ b = a THEN state ELSE job[d][b]
  BY <1>2, SetJobEffect
<1>4. SandboxTypeOK'
  BY <1>1, <1>2, <1>3 DEF SandboxTypeOK
<1>5. QueueOK'
  <2>1. ASSUME NEW n \in 1 .. Len(jobQueue)
        PROVE  job'[jobQueue[n][1]][jobQueue[n][2]] \in {"queued", "cancelled"}
    <3>1. PICK d \in Call, b \in Attempt : jobQueue[n] = <<d, b>>
      BY ElementOfSeq DEF SandboxTypeOK
    <3>. QED  BY <1>1, <1>3, <3>1 DEF QueueOK
  <2>. QED  BY <1>1, <2>1 DEF QueueOK
<1>6. ASSUME NEW d \in Call PROVE CallOK(d)'
  <2>1. CASE d # c
    BY <1>1, <1>2, <1>3, <2>1, OtherCalls DEF SandboxTypeOK
  <2>2. CASE d = c
    <3>1. effects'[c] = Cardinality(DidWork(c)')
      <4>1. CASE state = "ok"
        <5>1. DidWork(c)' = DidWork(c) \cup {a} /\ a \notin DidWork(c)
          BY <1>1, <1>3, <4>1 DEF DidWork
        <5>2. effects'[c] = effects[c] + 1
          BY <1>2, <4>1 DEF SandboxTypeOK
        <5>3. IsFiniteSet(DidWork(c))
          BY AttemptsFinite DEF DidWork
        <5>4. Cardinality(DidWork(c) \cup {a}) = Cardinality(DidWork(c)) + 1
          BY <5>1, <5>3, FS_AddElement
        <5>5. effects[c] = Cardinality(DidWork(c))
          BY DEF CallOK
        <5>. QED  BY <5>1, <5>2, <5>4, <5>5
      <4>2. CASE state = "error"
        <5>1. DidWork(c)' = DidWork(c)
          BY <1>1, <1>3, <4>2 DEF DidWork
        <5>. QED  BY <1>2, <4>2, <5>1 DEF CallOK
      <4>. QED  BY <4>1, <4>2
    <3>2. Cardinality(BehindBack(c)') <= timeouts'[c]
      <4>1. BehindBack(c)' \subseteq BehindBack(c)
        BY <1>1, <1>3 DEF BehindBack, GivenUp
      <4>2. BehindBack(c) \subseteq Attempt
        BY DEF BehindBack, GivenUp
      <4>3. Cardinality(BehindBack(c)') <= Cardinality(BehindBack(c))
        BY <4>1, <4>2, CardinalityMonotone
      <4>4. Cardinality(BehindBack(c)') \in Nat /\ Cardinality(BehindBack(c)) \in Nat
        BY <4>1, <4>2, AttemptsFinite
      <4>. QED  BY <1>1, <4>3, <4>4 DEF CallOK, SandboxTypeOK
    <3>3. \A b \in Attempt :
             /\ job'[c][b] = "queued" => caller[c] = "waiting" /\ attempt[c] = b
             /\ b > attempt[c] \/ caller[c] \in {"before", "refused"} => job'[c][b] = "none"
      BY <1>1, <1>3 DEF CallOK
    <3>4. /\ caller[c] = "backoff" => attempt[c] < MaxRetries
          /\ caller[c] = "success" => job'[c][attempt[c]] = "ok"
      <4>1. attempt[c] \in Attempt
        BY DEF SandboxTypeOK
      <4>2. caller[c] = "success" => job[c][attempt[c]] = "ok"
        BY DEF CallOK
      <4>3. job'[c][attempt[c]] = IF attempt[c] = a THEN state ELSE job[c][attempt[c]]
        BY <1>3, <4>1
      <4>. QED  BY <1>1, <4>2, <4>3 DEF CallOK
    <3>. QED  BY <1>1, <2>2, <3>1, <3>2, <3>3, <3>4 DEF CallOK
  <2>. QED  BY <2>1, <2>2
<1>. QED  BY <1>4, <1>5, <1>6

\* A call that waits parts with its attempt: it is done, or gives it up after an
\* error or when its time is up.
LEMMA PartWithAttempt ==
    ASSUME SandboxInv, NEW c \in Call, caller[c] = "waiting",
           NEW there \in {"success", "backoff", "failed"}, Caller(c, there),
           there = "backoff" => attempt[c] < MaxRetries,
           UNCHANGED <<attempt, jobQueue, effects>>,
           \/ /\ UNCHANGED <<job, timeouts>>
              /\ job[c][attempt[c]] = IF there = "success" THEN "ok" ELSE "error"
           \/ /\ there # "success" /\ timeouts' = [timeouts EXCEPT ![c] = @ + 1]
              /\ IF job[c][attempt[c]] = "queued" THEN SetJob(c, attempt[c], "cancelled")
                 ELSE UNCHANGED job
    PROVE  SandboxInv'
<1> USE DEF SandboxInv, CallerState, JobState
<1>0. attempt[c] \in Attempt
  BY DEF SandboxTypeOK
<1>1. /\ job' \in [Call -> [Attempt -> JobState]]
      /\ \A d \in Call, b \in Attempt :
             \/ job'[d][b] = job[d][b] /\ ~(d = c /\ b = attempt[c] /\ job[d][b] = "queued")
             \/ d = c /\ b = attempt[c] /\ job'[d][b] = "cancelled" /\ job[d][b] = "queued"
  BY <1>0, SetJobEffect DEF SandboxTypeOK
<1>2. SandboxTypeOK'
  <2>1. timeouts' \in [Call -> Nat]
    BY DEF SandboxTypeOK
  <2>2. caller' \in [Call -> CallerState]
    BY DEF SandboxTypeOK, Caller
  <2>. QED  BY <1>1, <2>1, <2>2 DEF SandboxTypeOK
<1>3. QueueOK'
  <2>1. ASSUME NEW n \in 1 .. Len(jobQueue)
        PROVE  job'[jobQueue[n][1]][jobQueue[n][2]] \in {"queued", "cancelled"}
    <3>1. PICK d \in Call, b \in Attempt : jobQueue[n] = <<d, b>>
      BY ElementOfSeq DEF SandboxTypeOK
    <3>. QED  BY <1>1, <3>1 DEF QueueOK
  <2>. QED  BY <2>1 DEF QueueOK
<1>4. ASSUME NEW d \in Call PROVE CallOK(d)'
  <2>1. CASE d # c
    BY <1>1, <2>1, OtherCalls DEF SandboxTypeOK, Caller
  <2>2. CASE d = c
    <3>1. caller'[c] = there /\ attempt'[c] = attempt[c]
      BY DEF Caller, SandboxTypeOK
    <3>2. DidWork(c)' = DidWork(c)
      BY <1>1 DEF DidWork
    <3>3. BehindBack(c) \subseteq Attempt /\ BehindBack(c)' \subseteq BehindBack(c) \cup {attempt[c]}
      BY <1>1, <3>1 DEF BehindBack, GivenUp
    <3>4. IsFiniteSet(BehindBack(c)) /\ Cardinality(BehindBack(c)) \in Nat
      BY <3>3, AttemptsFinite
    <3>5. Cardinality(BehindBack(c)') <= timeouts'[c]
      <4>1. CASE UNCHANGED timeouts
        <5>1. BehindBack(c)' = BehindBack(c)
          BY <3>1, <4>1 DEF BehindBack, GivenUp, SandboxTypeOK
        <5>. QED  BY <4>1, <5>1 DEF CallOK
      <4>2. CASE timeouts' = [timeouts EXCEPT ![c] = @ + 1]
        <5>1. Cardinality(BehindBack(c) \cup {attempt[c]}) <= Cardinality(BehindBack(c)) + 1
          BY <3>4, FS_AddElement
        <5>2. BehindBack(c) \cup {attempt[c]} \in SUBSET Attempt
          BY <1>0, <3>3
        <5>3. Cardinality(BehindBack(c)') <= Cardinality(BehindBack(c) \cup {attempt[c]})
          BY <3>3, <5>2, CardinalityMonotone
        <5>4. Cardinality(BehindBack(c)') \in Nat /\ Cardinality(BehindBack(c) \cup {attempt[c]}) \in Nat
          BY <3>3, <5>2, AttemptsFinite
        <5>. QED  BY <3>4, <4>2, <5>1, <5>3, <5>4 DEF CallOK, SandboxTypeOK
      <4>. QED  BY <4>1, <4>2
    <3>6. \A a \in Attempt : /\ job'[c][a] # "queued"
                             /\ a > attempt[c] => job'[c][a] = "none"
      BY <1>1, AttemptsFinite DEF CallOK, SandboxTypeOK
    <3>7. there = "success" => job'[c][attempt[c]] = "ok"
      BY <1>0
    <3>8. effects'[c] = Cardinality(DidWork(c)')
      BY <3>2 DEF CallOK
    <3>. QED  BY <2>2, <3>1, <3>5, <3>6, <3>7, <3>8 DEF CallOK
  <2>. QED  BY <2>1, <2>2
<1>. QED  BY <1>2, <1>3, <1>4

\* Every step of the sandbox keeps each effect charged to an attempt.
LEMMA SandboxInvNext == SandboxInv /\ [SandboxNext]_sandboxVars => SandboxInv'
<1> SUFFICES ASSUME SandboxInv, [SandboxNext]_sandboxVars PROVE SandboxInv'
  OBVIOUS
<1>1. ASSUME UNCHANGED <<caller, attempt, job, jobQueue, effects, timeouts>> PROVE SandboxInv'
  <2>1. \A c \in Call : CallOK(c)'
    BY <1>1, OtherCalls DEF SandboxInv, SandboxTypeOK
  <2>. QED  BY <1>1, <2>1 DEF SandboxInv, SandboxTypeOK, QueueOK
<1>2. CASE UNCHANGED sandboxVars
  BY <1>1, <1>2 DEF sandboxVars
<1>3. ASSUME NEW c \in Call, Begin(c) PROVE SandboxInv'
  <2>1. job[c][0] = "none" /\ 0 \in Attempt
    BY <1>3, AttemptsFinite DEF Begin, SandboxInv, CallOK
  <2>2. CASE breaker = "open"
    <3>1. /\ caller' = [caller EXCEPT ![c] = "refused"]
          /\ UNCHANGED <<attempt, job, jobQueue, effects, timeouts>>
      BY <1>3, <2>2 DEF Begin, Caller
    <3>2. SandboxTypeOK' /\ QueueOK'
      BY <3>1 DEF SandboxInv, SandboxTypeOK, QueueOK, CallerState
    <3>3. ASSUME NEW d \in Call PROVE CallOK(d)'
      <4>1. CASE d # c
        BY <3>1, <4>1, OtherCalls DEF SandboxInv, SandboxTypeOK
      <4>2. CASE d = c
        <5>1. \A a \in Attempt : job[c][a] = "none"
          BY <1>3 DEF Begin, SandboxInv, CallOK
        <5>2. DidWork(c)' = DidWork(c) /\ BehindBack(c)' = {} /\ BehindBack(c) = {}
          BY <3>1, <5>1 DEF DidWork, BehindBack, GivenUp
        <5>3. CallOK(c)
          BY DEF SandboxInv
        <5>. QED  BY <3>1, <4>2, <5>1, <5>2, <5>3 DEF CallOK, SandboxInv, SandboxTypeOK
      <4>. QED  BY <4>1, <4>2
    <3>. QED  BY <3>2, <3>3 DEF SandboxInv
  <2>3. CASE breaker # "open"
    BY <1>3, <2>1, <2>3, SubmitInv DEF Begin
  <2>. QED  BY <2>2, <2>3
<1>4. ASSUME NEW c \in Call, Receive(c) PROVE SandboxInv'
  BY <1>4, PartWithAttempt DEF Receive, NextAttempt
<1>5. ASSUME NEW c \in Call, TimeOut(c) PROVE SandboxInv'
  BY <1>5, PartWithAttempt DEF TimeOut, NextAttempt
<1>6. ASSUME NEW c \in Call, Retry(c) PROVE SandboxInv'
  <2>1. attempt[c] + 1 \in Attempt /\ attempt[c] + 1 > attempt[c]
    BY <1>6, SandboxAssumption DEF Retry, SandboxInv, CallOK, SandboxTypeOK, Attempt
  <2>2. job[c][attempt[c] + 1] = "none"
    BY <2>1 DEF SandboxInv, CallOK
  <2>. QED  BY <1>6, <2>1, <2>2, SubmitInv DEF Retry
<1>7. ASSUME NEW c \in Call, NEW a \in Attempt, EndJob(c, a) PROVE SandboxInv'
  BY <1>7, EndJobInv
<1>8. ASSUME TakeUp PROVE SandboxInv'
  BY <1>8, TakeUpInv
<1>9. ASSUME CoolDown PROVE SandboxInv'
  BY <1>1, <1>9 DEF CoolDown
<1>. QED  BY <1>2, <1>3, <1>4, <1>5, <1>6, <1>7, <1>8, <1>9 DEF SandboxNext

\* What is charged to attempts is bounded by their number.
LEMMA InvBoundsEffects == SandboxInv => EffectsBounded
<1> SUFFICES ASSUME SandboxInv, NEW c \in Call
             PROVE  /\ effects[c] <= 1 + timeouts[c]
                    /\ caller[c] = "success" => effects[c] >= 1
                    /\ \A a \in Attempt : job[c][a] = "queued" => caller[c] = "waiting" /\ attempt[c] = a
  BY DEF EffectsBounded, GivenUpNeverStarts
<1>1. CallOK(c) /\ attempt[c] \in Attempt /\ effects[c] \in Nat /\ timeouts[c] \in Nat
  BY DEF SandboxInv, SandboxTypeOK
<1>2. DidWork(c) \in SUBSET Attempt /\ BehindBack(c) \in SUBSET Attempt
  BY DEF DidWork, BehindBack, GivenUp
<1>3. DidWork(c) \subseteq BehindBack(c) \cup {attempt[c]}
  <2> SUFFICES ASSUME NEW a \in Attempt, job[c][a] = "ok", a # attempt[c] PROVE a \in BehindBack(c)
    BY DEF DidWork
  <2>1. a \in Nat /\ attempt[c] \in Nat
    BY <1>1, AttemptsFinite
  <2>2. ~(a > attempt[c])
    BY <1>1 DEF CallOK
  <2>. QED  BY <2>1, <2>2 DEF BehindBack, GivenUp
<1>4. /\ IsFiniteSet(BehindBack(c)) /\ Cardinality(BehindBack(c)) \in Nat
      /\ IsFiniteSet(DidWork(c)) /\ Cardinality(DidWork(c)) \in Nat
  BY <1>2, AttemptsFinite
<1>5. Cardinality(BehindBack(c) \cup {attempt[c]}) <= Cardinality(BehindBack(c)) + 1
  <2>1. IsFiniteSet(BehindBack(c)) /\ Cardinality(BehindBack(c)) \in Nat
    BY <1>4
  <2>. QED  BY <2>1, FS_AddElement
<1>6. Cardinality(DidWork(c)) <= Cardinality(BehindBack(c) \cup {attempt[c]})
  BY <1>1, <1>2, <1>3, CardinalityMonotone
<1>7. Cardinality(BehindBack(c) \cup {attempt[c]}) \in Nat
  BY <1>1, <1>2, AttemptsFinite
<1>8. effects[c] <= 1 + timeouts[c]
  BY <1>1, <1>4, <1>5, <1>6, <1>7 DEF CallOK
<1>9. caller[c] = "success" => Cardinality(DidWork(c)) # 0
  BY <1>1, <1>4, FS_EmptySet DEF CallOK, DidWork
<1>. QED  BY <1>1, <1>4, <1>8, <1>9 DEF CallOK

\* A tool takes effect at most once more than its call's attempts ran out of time,
\* at least once when the call reports success, and an attempt given up in the
\* queue never starts (the retry loop of tool_sandbox.py).
THEOREM EffectsBoundedHolds == SandboxSpec => []EffectsBounded
BY SandboxInvInit, SandboxInvNext, InvBoundsEffects, PTL DEF SandboxSpec

(***************************************************************************)
(* Campaigns                                                               *)
(***************************************************************************)
CampaignRow     == [status : {"none"} \cup DOMAIN ValidTransitions, started : BOOLEAN, ended : BOOLEAN]
CampaignRequest == [op : DOMAIN Target, on : Campaign, at : {"checking", "writing"},
            dates : [started : BOOLEAN, ended : BOOLEAN]]

\* Every new has a known status, and every request that is under way knows the
\* dates it will set.
CampaignTypeOK ==
    /\ campaign \in [Campaign -> CampaignRow]
    /\ request \in [Actor -> {Quiet} \cup CampaignRequest]

\* Whoever is about to write live or completed sets the date, or has read a new
\* that had it: and no date is ever taken back.
DatesPromised ==
    \A a \in Actor : request[a] # Quiet =>
        LET r == request[a] IN
            /\ r.op = "launch" => r.dates.started \/ campaign[r.on].started
            /\ r.op = "complete" => r.dates.ended \/ campaign[r.on].ended

CampaignInv == CampaignTypeOK /\ DatesPromised /\ DatesKept

\* No campaign is under way at first.
LEMMA CampaignInvInit == CampaignInit => CampaignInv
BY DEF CampaignInit, CampaignInv, CampaignTypeOK, DatesPromised, DatesKept, NoRow, CampaignRow,
   ValidTransitions

\* Every read and write of a request keeps the dates its transition promises.
LEMMA CampaignInvNext == CampaignInv /\ [CampaignNext]_campaignVars => CampaignInv'
<1> SUFFICES ASSUME CampaignInv, [CampaignNext]_campaignVars PROVE CampaignInv'
  OBVIOUS
<1> USE DEF CampaignInv
<1>1. CASE UNCHANGED campaignVars
  BY <1>1 DEF CampaignTypeOK, DatesPromised, DatesKept, campaignVars
<1>2. ASSUME NEW k \in Campaign, CreateCampaign(k) PROVE CampaignInv'
  <2>1. PICK status \in {"draft", "scheduled"} : campaign' = [campaign EXCEPT ![k].status = status]
    BY <1>2 DEF CreateCampaign
  <2>2. CampaignTypeOK'
    BY <1>2, <2>1 DEF CreateCampaign, CampaignTypeOK, CampaignRow, ValidTransitions
  <2>3. \A j \in Campaign : /\ campaign'[j].started = campaign[j].started
                            /\ campaign'[j].ended = campaign[j].ended
                            /\ j # k => campaign'[j] = campaign[j]
                            /\ j = k => campaign'[j].status = status
    BY <2>1 DEF CampaignTypeOK, CampaignRow
  <2>4. DatesKept'
    BY <2>3 DEF DatesKept
  <2>5. DatesPromised'
    BY <1>2, <2>3 DEF CreateCampaign, DatesPromised, CampaignTypeOK, CampaignRequest
  <2>. QED  BY <2>2, <2>4, <2>5
<1>3. ASSUME NEW a \in Actor, NEW k \in Campaign, NEW op \in DOMAIN Target, CallCampaign(a, k, op)
      PROVE  CampaignInv'
  <2>1. Dates(op, campaign[k]) \in [started : BOOLEAN, ended : BOOLEAN]
    BY DEF Dates, CampaignTypeOK, CampaignRow
  <2>2. /\ op = "launch" => Dates(op, campaign[k]).started \/ campaign[k].started
        /\ op = "complete" => Dates(op, campaign[k]).ended \/ campaign[k].ended
    BY DEF Dates, CampaignTypeOK, CampaignRow
  <2> DEFINE there == [op |-> op, on |-> k, at |-> "checking", dates |-> Dates(op, campaign[k])]
  <2>3. there \in CampaignRequest
    BY <2>1 DEF CampaignRequest
  <2>. QED  BY <1>3, <2>2, <2>3 DEF CallCampaign, CampaignTypeOK, DatesPromised, DatesKept
<1>4. ASSUME NEW a \in Actor, CheckTransition(a) PROVE CampaignInv'
  <2>1. request[a] \in CampaignRequest
    BY <1>4 DEF CheckTransition, CampaignTypeOK
  <2>2. CASE Return(a) /\ UNCHANGED campaign
    BY <2>2 DEF Return, CampaignTypeOK, DatesPromised, DatesKept
  <2>3. CASE Goto(a, "writing") /\ UNCHANGED campaign
    <3> DEFINE there == [request[a] EXCEPT !.at = "writing"]
    <3>1. request' = [request EXCEPT ![a] = there]
      BY <2>3 DEF Goto
    <3>2. there \in CampaignRequest /\ there.op = request[a].op /\ there.on = request[a].on
            /\ there.dates = request[a].dates
      BY <2>1 DEF CampaignRequest
    <3>3. request[a] # Quiet
      BY <1>4 DEF CheckTransition
    <3> HIDE DEF there
    <3>. QED  BY <2>3, <3>1, <3>2, <3>3 DEF CampaignTypeOK, DatesPromised, DatesKept
  <2>. QED  BY <1>4, <2>2, <2>3 DEF CheckTransition
<1>5. ASSUME NEW a \in Actor, WriteTransition(a) PROVE CampaignInv'
  <2> DEFINE r == request[a]
             new == [status  |-> Target[r.op], started |-> campaign[r.on].started \/ r.dates.started,
                     ended   |-> campaign[r.on].ended \/ r.dates.ended]
  <2>1. r \in CampaignRequest /\ r # Quiet
    BY <1>5 DEF WriteTransition, CampaignTypeOK
  <2>2. campaign' = [campaign EXCEPT ![r.on] = new] /\ request' = [request EXCEPT ![a] = Quiet]
    BY <1>5 DEF WriteTransition, Return
  <2>3. new \in CampaignRow
    BY <2>1 DEF CampaignRequest, CampaignRow, Target, ValidTransitions, CampaignTypeOK
  <2>4. CampaignTypeOK'
    BY <2>1, <2>2, <2>3 DEF CampaignTypeOK, CampaignRequest
  <2>5. /\ Target[r.op] = "live" => r.op = "launch"
        /\ Target[r.op] = "completed" => r.op = "complete"
    BY <2>1 DEF CampaignRequest, Target
  <2>6. /\ campaign[r.on].started => new.started
        /\ campaign[r.on].ended => new.ended
        /\ new.status = "live" => new.started
        /\ new.status = "completed" => new.ended
    BY <2>1, <2>5 DEF DatesPromised
  <2> HIDE DEF new, r
  <2>7. \A k \in Campaign : /\ campaign[k].started => campaign'[k].started
                            /\ campaign[k].ended => campaign'[k].ended
    BY <2>2, <2>6 DEF CampaignTypeOK
  <2>8. DatesKept'
    BY <2>2, <2>6 DEF CampaignTypeOK, DatesKept
  <2>9. DatesPromised'
    <3> SUFFICES ASSUME NEW b \in Actor, request'[b] # Quiet
                 PROVE  /\ request'[b].op = "launch" =>
                              request'[b].dates.started \/ campaign'[request'[b].on].started
                        /\ request'[b].op = "complete" =>
                              request'[b].dates.ended \/ campaign'[request'[b].on].ended
      BY DEF DatesPromised
    <3>1. request'[b] = request[b] /\ request[b] \in CampaignRequest
      BY <2>2 DEF CampaignTypeOK
    <3>. QED  BY <2>7, <3>1 DEF DatesPromised, CampaignRequest
  <2>. QED  BY <2>4, <2>8, <2>9
<1>. QED  BY <1>1, <1>2, <1>3, <1>4, <1>5 DEF CampaignNext

\* A live campaign has a start and a completed one an end, however the requests
\* that read the row twice and write it interleave (campaign_service.py).
THEOREM DatesKeptHolds == CampaignSpec => []DatesKept
<1>1. CampaignInv => DatesKept
  BY DEF CampaignInv
<1>. QED  BY CampaignInvInit, CampaignInvNext, <1>1, PTL DEF CampaignSpec

(***************************************************************************)
(* The cache of DSL rules                                                  *)
(***************************************************************************)
CacheTypeOK ==
    /\ rules \in Nat /\ version \in Nat
    /\ entry \in [rules : Nat, version : Nat, missed : BOOLEAN, cached : BOOLEAN]
    /\ reader \in [Reader -> [at : {"done", "lookup", "loading", "storing"},
                              version : Nat, rules : Nat, missed : BOOLEAN]]
    /\ editor \in [Editor -> 0 .. 2]

EditorsIdle == \A e \in Editor : editor[e] = 0

\* No reader has a version that is yet to come, and what a reader is about to
\* store is what the table holds, or will not be taken for it.
LoadsFresh ==
    \A r \in Reader :
        /\ reader[r].version <= version
        /\ reader[r].at = "storing" /\ reader[r].version = version /\ ~reader[r].missed
               /\ EditorsIdle
           => reader[r].rules = rules

CacheInv == CacheTypeOK /\ LoadsFresh /\ CacheFresh

\* What was loaded and is stale is marked, and nothing else about a reader changes.
LEMMA MissedMarks ==
    ASSUME CacheTypeOK
    PROVE  /\ Missed(reader) \in [Reader -> [at : {"done", "lookup", "loading", "storing"},
                                             version : Nat, rules : Nat, missed : BOOLEAN]]
           /\ \A r \in Reader : /\ Missed(reader)[r].at = "storing" =>
                                      Missed(reader)[r].missed \/ Missed(reader)[r].rules = rules'
                                /\ Missed(reader)[r].version = reader[r].version
BY DEF CacheTypeOK, Missed

\* The cache is empty at first.
LEMMA CacheInvInit == CacheInit => CacheInv
BY DEF CacheInit, CacheInv, CacheTypeOK, LoadsFresh, CacheFresh, NoEntry, Done

\* Every look-up, load, edit and invalidation keeps the loads under way fresh.
LEMMA CacheInvNext == CacheInv /\ [CacheNext]_cacheVars => CacheInv'
<1> SUFFICES ASSUME CacheInv, [CacheNext]_cacheVars PROVE CacheInv'
  OBVIOUS
<1> USE DEF CacheInv
<1>1. CASE UNCHANGED cacheVars
  BY <1>1 DEF CacheTypeOK, LoadsFresh, CacheFresh, EditorsIdle, cacheVars
<1>2. ASSUME NEW r \in Reader, ReadVersion(r) PROVE CacheInv'
  <2> DEFINE there == [Done EXCEPT !.at = "lookup", !.version = version]
  <2>1. reader' = [reader EXCEPT ![r] = there] /\ UNCHANGED <<rules, entry, version, editor>>
    BY <1>2 DEF ReadVersion
  <2>2. /\ there \in [at : {"done", "lookup", "loading", "storing"},
                       version : Nat, rules : Nat, missed : BOOLEAN]
        /\ there.at = "lookup" /\ there.version = version
    BY DEF Done, CacheTypeOK
  <2> HIDE DEF there
  <2>. QED  BY <2>1, <2>2 DEF CacheTypeOK, LoadsFresh, CacheFresh, EditorsIdle
<1>3. ASSUME NEW r \in Reader, LookUp(r) PROVE CacheInv'
  BY <1>3 DEF LookUp, CacheTypeOK, LoadsFresh, CacheFresh, EditorsIdle
<1>4. ASSUME NEW r \in Reader, Load(r) PROVE CacheInv'
  <2> DEFINE there == [reader[r] EXCEPT !.at = "storing", !.rules = rules]
  <2>1. reader' = [reader EXCEPT ![r] = there] /\ UNCHANGED <<rules, entry, version, editor>>
    BY <1>4 DEF Load, CacheTypeOK
  <2>2. /\ there \in [at : {"done", "lookup", "loading", "storing"},
                       version : Nat, rules : Nat, missed : BOOLEAN]
        /\ there.version = reader[r].version /\ there.rules = rules
    BY DEF CacheTypeOK
  <2> HIDE DEF there
  <2>. QED  BY <2>1, <2>2 DEF CacheTypeOK, LoadsFresh, CacheFresh, EditorsIdle
<1>5. ASSUME NEW r \in Reader, Store(r) PROVE CacheInv'
  BY <1>5 DEF Store, Done, CacheTypeOK, LoadsFresh, CacheFresh, EditorsIdle
<1>6. ASSUME NEW e \in Editor, EditRules(e) PROVE CacheInv'
  <2>1. PICK owed \in 1 .. 2 : editor' = [editor EXCEPT ![e] = owed]
    BY <1>6 DEF EditRules
  <2>2. /\ editor' \in [Editor -> 0 .. 2] /\ ~EditorsIdle'
        /\ rules' = rules + 1 /\ UNCHANGED <<entry, version, reader>>
    BY <1>6, <2>1 DEF EditRules, CacheTypeOK, EditorsIdle
  <2>. QED  BY <2>2 DEF CacheTypeOK, LoadsFresh, CacheFresh, EditorsIdle
<1>7. ASSUME NEW e \in Editor, Invalidate(e) PROVE CacheInv'
  <2>1. ~entry'.cached /\ entry' = NoEntry /\ rules' = rules
    BY <1>7 DEF Invalidate, NoEntry
  <2>2. editor' \in [Editor -> 0 .. 2]
    BY <1>7 DEF Invalidate, CacheTypeOK
  <2>3. CASE entry.cached
    BY <1>7, <2>1, <2>2, <2>3 DEF Invalidate, NoEntry, CacheTypeOK, LoadsFresh, CacheFresh
  <2>4. CASE ~entry.cached
    <3>1. reader' = Missed(reader) /\ version' = version
      BY <1>7, <2>4 DEF Invalidate
    <3>. QED  BY <2>1, <2>2, <3>1, MissedMarks DEF NoEntry, CacheTypeOK, LoadsFresh, CacheFresh
  <2>. QED  BY <2>3, <2>4
<1>8. ASSUME EditUnheard PROVE CacheInv'
  <2>1. /\ entry'.missed /\ entry' \in [rules : Nat, version : Nat, missed : BOOLEAN, cached : BOOLEAN]
        /\ rules' = rules + 1 /\ reader' = Missed(reader) /\ UNCHANGED <<version, editor>>
    BY <1>8 DEF EditUnheard, CacheTypeOK
  <2>. QED  BY <2>1, MissedMarks DEF CacheTypeOK, LoadsFresh, CacheFresh
<1>9. ASSUME NEW e \in Editor, DeleteForOther(e) PROVE CacheInv'
  <2>1. /\ editor' \in [Editor -> 0 .. 2] /\ ~EditorsIdle' /\ UNCHANGED <<rules, entry, version, reader>>
    BY <1>9 DEF DeleteForOther, CacheTypeOK, EditorsIdle
  <2>. QED  BY <2>1 DEF CacheTypeOK, LoadsFresh, CacheFresh, EditorsIdle
<1>. QED  BY <1>1, <1>2, <1>3, <1>4, <1>5, <1>6, <1>7, <1>8, <1>9 DEF CacheNext

\* With every invalidation made, the cached rules that a reader would find are the
\* table's, but for an edit elsewhere, a deletion under another tenant's id and an
\* invalidation during a load from before the edit (rule cache).
THEOREM CacheFreshHolds == CacheSpec => []CacheFresh
<1>1. CacheInv => CacheFresh
  BY DEF CacheInv
<1>. QED  BY CacheInvInit, CacheInvNext, <1>1, PTL DEF CacheSpec

(***************************************************************************)
(* The versions of a structured rule                                       *)
(***************************************************************************)
RowFields  == [parent : Nat, version : Nat, enabled : BOOLEAN, current : BOOLEAN, exists : BOOLEAN]
EditFields == [at : {"none", "read", "retire", "insert"}, of : Nat, version : Nat,
               enabled : BOOLEAN, replaces : BOOLEAN]

VersionsTypeOK ==
    /\ row \in Seq(RowFields) /\ edit \in [Edit -> EditFields]
    /\ forks \in Nat /\ cut \in Nat

\* An edit is of a row that there has been; the one that replaces a row is about
\* to insert the next, and the row it is of is current no more.
EditsOK ==
    \A e \in Edit :
        /\ edit[e].at # "none" => edit[e].of \in Row
        /\ edit[e].replaces => edit[e].at = "insert"
        /\ edit[e].at = "insert" => edit[e].of \notin Current

\* A row is made from one before it, and that one is current no more.
LineageOK ==
    \A r \in Row : row[r].parent < r /\ row[r].parent \notin Current

Replacing == {e \in Edit : edit[e].replaces}

CurrentOK ==
    /\ IsFiniteSet(Replacing)
    /\ Cardinality(Current) + cut + Cardinality(Replacing) = 1 + forks

VersionsInv == VersionsTypeOK /\ EditsOK /\ LineageOK /\ CurrentOK

\* What the type of the rows gives the leaves of the proofs below.
LEMMA RowsAre ==
    ASSUME VersionsTypeOK
    PROVE  /\ Row = 1 .. Len(row) /\ Len(row) \in Nat
           /\ \A r \in Row : row[r] \in RowFields
           /\ Current \subseteq Row /\ IsFiniteSet(Current) /\ Cardinality(Current) \in Nat
<1>1. Row = 1 .. Len(row) /\ Len(row) \in Nat
  BY DEF VersionsTypeOK, Row
<1>2. IsFiniteSet(Row)
  BY <1>1, FS_Interval
<1>3. Current \subseteq Row
  BY DEF Current
<1>4. IsFiniteSet(Current) /\ Cardinality(Current) \in Nat
  BY <1>2, <1>3, FS_Subset, FS_CardinalityType
<1>. QED  BY <1>1, <1>3, <1>4 DEF VersionsTypeOK

\* One element more or less.
LEMMA OneMore ==
    ASSUME NEW S, IsFiniteSet(S), NEW x
    PROVE  /\ IsFiniteSet(S \cup {x}) /\ IsFiniteSet(S \ {x}) /\ Cardinality(S) \in Nat
           /\ x \notin S => Cardinality(S \cup {x}) = Cardinality(S) + 1
           /\ x \in S => Cardinality(S \ {x}) = Cardinality(S) - 1
<1>1. IsFiniteSet(S \cup {x}) /\ Cardinality(S) \in Nat
  BY FS_AddElement, FS_CardinalityType
<1>2. x \notin S => Cardinality(S \cup {x}) = Cardinality(S) + 1
  BY FS_AddElement
<1>3. IsFiniteSet(S \ {x}) /\ (x \in S => Cardinality(S \ {x}) = Cardinality(S) - 1)
  BY FS_RemoveElement
<1>. QED  BY <1>1, <1>2, <1>3

\* There is one row at first, and it is current.
LEMMA VersionsInvInit == VersionsInit => VersionsInv
<1> SUFFICES ASSUME VersionsInit PROVE VersionsInv
  OBVIOUS
<1> DEFINE first == NewRow(0, 1, TRUE)
<1>1. /\ row = <<first>> /\ first \in RowFields
      /\ first.parent = 0 /\ first.exists /\ first.current
  BY DEF VersionsInit, NewRow, RowFields
<1> HIDE DEF first
<1>2. row \in Seq(RowFields) /\ Row = {1} /\ row[1] = first
  <2>1. Len(row) = 1 /\ row[1] = first /\ row \in Seq(RowFields)
    BY <1>1
  <2>2. DOMAIN row = 1 .. Len(row)
    BY <2>1
  <2>. QED  BY <2>1, <2>2 DEF Row
<1>3. VersionsTypeOK
  BY <1>2 DEF VersionsInit, VersionsTypeOK, NoEdit, EditFields
<1>4. Current = {1}
  BY <1>1, <1>2 DEF Current
<1>5. Replacing = {}
  BY DEF VersionsInit, NoEdit, Replacing
<1>6. Cardinality(Current) = 1 /\ Cardinality(Replacing) = 0 /\ IsFiniteSet(Replacing)
  BY <1>4, <1>5, FS_EmptySet, FS_Singleton
<1>7. CurrentOK
  BY <1>6 DEF CurrentOK, VersionsInit
<1>8. LineageOK
  BY <1>1, <1>2, <1>4 DEF LineageOK
<1>9. EditsOK
  BY DEF EditsOK, VersionsInit, NoEdit
<1>. QED  BY <1>3, <1>7, <1>8, <1>9 DEF VersionsInv

\* A step that changes no row but in whether it is current, exists or is enabled.
LEMMA RowChanged ==
    ASSUME VersionsInv, NEW r \in Row, NEW new \in RowFields, new.parent = row[r].parent,
           row' = [row EXCEPT ![r] = new], new.exists /\ new.current => r \in Current
    PROVE  /\ row' \in Seq(RowFields) /\ Row' = Row /\ LineageOK'
           /\ Current' = IF new.exists /\ new.current THEN Current ELSE Current \ {r}
<1>1. row \in Seq(RowFields)
  BY DEF VersionsInv, VersionsTypeOK
<1>2. row' \in Seq(RowFields) /\ Row' = Row
  BY <1>1 DEF Row
<1>3. \A s \in Row : row'[s] = IF s = r THEN new ELSE row[s]
  BY <1>1 DEF Row
<1>4. Current' = IF new.exists /\ new.current THEN Current ELSE Current \ {r}
  BY <1>2, <1>3 DEF Current
<1>5. LineageOK'
  BY <1>2, <1>3, <1>4 DEF VersionsInv, LineageOK
<1>. QED  BY <1>2, <1>4, <1>5

\* A step of one edit that touches no row.
LEMMA EditMoves ==
    ASSUME VersionsInv, NEW e \in Edit, NEW there \in EditFields,
           edit' = [edit EXCEPT ![e] = there], UNCHANGED row, ~there.replaces,
           there.at # "none" => there.of \in Row,
           there.at = "insert" => there.of \notin Current
    PROVE  /\ EditsOK' /\ LineageOK' /\ edit' \in [Edit -> EditFields]
           /\ Current' = Current /\ Row' = Row /\ Replacing' = Replacing \ {e}
<1>1. Current' = Current /\ Row' = Row
  BY DEF Current, Row
<1>2. edit' \in [Edit -> EditFields] /\ \A f \in Edit : edit'[f] = IF f = e THEN there ELSE edit[f]
  BY DEF VersionsInv, VersionsTypeOK
<1>3. EditsOK'
  BY <1>1, <1>2 DEF VersionsInv, EditsOK
<1>4. LineageOK'
  BY <1>1 DEF VersionsInv, LineageOK
<1>5. Replacing' = Replacing \ {e}
  BY <1>2 DEF Replacing
<1>. QED  BY <1>1, <1>2, <1>3, <1>4, <1>5

\* Every step of an edit, one that dies between its statements included, keeps the
\* count of the current rows.
LEMMA VersionsInvNext == VersionsInv /\ [VersionsNext]_versionVars => VersionsInv'
<1> SUFFICES ASSUME VersionsInv, [VersionsNext]_versionVars PROVE VersionsInv'
  OBVIOUS
<1>0. /\ forks \in Nat /\ cut \in Nat /\ IsFiniteSet(Current) /\ Cardinality(Current) \in Nat
      /\ IsFiniteSet(Replacing) /\ Cardinality(Replacing) \in Nat
      /\ Cardinality(Current) + cut + Cardinality(Replacing) = 1 + forks
  BY RowsAre, FS_CardinalityType DEF VersionsInv, VersionsTypeOK, CurrentOK
<1>1. CASE UNCHANGED versionVars
  BY <1>1 DEF VersionsInv, VersionsTypeOK, EditsOK, LineageOK, CurrentOK, Replacing, Current, Row,
     versionVars
<1>2. ASSUME NEW e \in Edit, NEW there \in EditFields, ~there.replaces, there.at # "insert",
             edit' = [edit EXCEPT ![e] = there], UNCHANGED <<row, forks>>,
             there.at # "none" => there.of \in Row,
             cut' = IF edit[e].replaces THEN cut + 1 ELSE cut
      PROVE  VersionsInv'
  <2>1. /\ EditsOK' /\ LineageOK' /\ edit' \in [Edit -> EditFields]
        /\ Current' = Current /\ Replacing' = Replacing \ {e}
    BY <1>2, EditMoves
  <2>2. e \in Replacing <=> edit[e].replaces
    BY DEF Replacing
  <2>3. CurrentOK'
    <3>1. CASE edit[e].replaces
      <4>1. IsFiniteSet(Replacing') /\ Cardinality(Replacing') = Cardinality(Replacing) - 1
        BY <1>0, <2>1, <2>2, <3>1, OneMore
      <4>. QED  BY <1>0, <1>2, <2>1, <3>1, <4>1 DEF CurrentOK
    <3>2. CASE ~edit[e].replaces
      <4>1. Replacing' = Replacing
        BY <2>1, <2>2, <3>2
      <4>. QED  BY <1>0, <1>2, <2>1, <3>2, <4>1 DEF CurrentOK
    <3>. QED  BY <3>1, <3>2
  <2>4. VersionsTypeOK'
    BY <1>0, <1>2, <2>1 DEF VersionsInv, VersionsTypeOK
  <2>. QED  BY <2>1, <2>3, <2>4 DEF VersionsInv
<1>3. \A e \in Edit : edit[e] \in EditFields
  BY DEF VersionsInv, VersionsTypeOK
<1>4. ASSUME NEW e \in Edit, BeginEdit(e) PROVE VersionsInv'
  <2>1. ~edit[e].replaces
    BY <1>4 DEF BeginEdit, NoEdit
  <2>2. PICK r \in Row : edit' = [edit EXCEPT ![e] =
                                    [NoEdit EXCEPT !.at = "read", !.of = r, !.enabled = row[r].enabled]]
    BY <1>4 DEF BeginEdit
  <2> DEFINE there == [NoEdit EXCEPT !.at = "read", !.of = r, !.enabled = row[r].enabled]
  <2>3. there \in EditFields /\ ~there.replaces /\ there.at = "read" /\ there.of = r
    <3>1. row[r] \in RowFields /\ r \in Nat
      BY RowsAre DEF VersionsInv
    <3>. QED  BY <3>1 DEF NoEdit, EditFields, RowFields
  <2> HIDE DEF there
  <2>. QED  BY <1>2, <1>4, <2>1, <2>2, <2>3 DEF BeginEdit, there
<1>5. ASSUME NEW e \in Edit, ReadOldVersion(e) PROVE VersionsInv'
  <2> DEFINE v == IF row[edit[e].of].exists THEN row[edit[e].of].version ELSE 1
             there == [edit[e] EXCEPT !.at = "retire", !.version = v]
  <2>1. edit[e].at = "read" /\ edit[e].of \in Row /\ ~edit[e].replaces
    BY <1>5 DEF ReadOldVersion, VersionsInv, EditsOK
  <2>2. v \in Nat
    BY <2>1, RowsAre DEF VersionsInv, RowFields
  <2> HIDE DEF v
  <2>3. there \in EditFields /\ ~there.replaces /\ there.at = "retire" /\ there.of = edit[e].of
    BY <1>3, <2>1, <2>2 DEF EditFields
  <2>4. edit' = [edit EXCEPT ![e] = there]
    BY <1>5 DEF ReadOldVersion, v
  <2> HIDE DEF there
  <2>. QED  BY <1>2, <1>5, <2>1, <2>3, <2>4 DEF ReadOldVersion
<1>6. ASSUME NEW e \in Edit, EditDies(e) PROVE VersionsInv'
  <2>1. edit[e].replaces => edit[e].at = "insert"
    BY DEF VersionsInv, EditsOK
  <2>2. NoEdit \in EditFields /\ ~NoEdit.replaces /\ NoEdit.at = "none"
    BY DEF NoEdit, EditFields
  <2>. QED  BY <1>2, <1>6, <2>1, <2>2 DEF EditDies
<1>7. ASSUME NEW e \in Edit, Retire(e) PROVE VersionsInv'
  <2> DEFINE r == edit[e].of
             replaces == row[r].exists /\ row[r].current
             there == [edit[e] EXCEPT !.at = "insert", !.replaces = replaces]
  <2>1. r \in Row /\ edit[e].at = "retire" /\ ~edit[e].replaces
    BY <1>7 DEF Retire, VersionsInv, EditsOK
  <2>2. row[r] \in RowFields
    BY <2>1, RowsAre DEF VersionsInv
  <2>3. replaces <=> r \in Current
    BY <2>1 DEF Current
  <2>4. /\ there \in EditFields /\ there.at = "insert" /\ there.of = r
        /\ there.replaces <=> replaces
    BY <1>3, <2>2 DEF EditFields, RowFields
  <2>5. edit' = [edit EXCEPT ![e] = there] /\ forks' = forks /\ cut' = cut
    BY <1>7 DEF Retire, Account
  <2>6. /\ row' \in Seq(RowFields) /\ Row' = Row /\ LineageOK' /\ Current' = Current \ {r}
    <3>1. CASE row[r].exists
      <4> DEFINE new == [row[r] EXCEPT !.current = FALSE, !.enabled = FALSE]
      <4>1. /\ new \in RowFields /\ new.parent = row[r].parent /\ ~new.current
            /\ row' = [row EXCEPT ![r] = new]
        BY <1>7, <2>2, <3>1 DEF Retire, RowFields
      <4> HIDE DEF new
      <4>. QED  BY <2>1, <4>1, RowChanged
    <3>2. CASE ~row[r].exists
      <4>1. row' = row
        BY <1>7, <3>2 DEF Retire
      <4>2. Current \ {r} = Current
        BY <3>2 DEF Current
      <4>. QED  BY <4>1, <4>2 DEF VersionsInv, VersionsTypeOK, LineageOK, Row, Current
    <3>. QED  BY <3>1, <3>2
  <2> HIDE DEF there, replaces
  <2>7. edit' \in [Edit -> EditFields] /\ \A f \in Edit : edit'[f] = IF f = e THEN there ELSE edit[f]
    BY <2>4, <2>5 DEF VersionsInv, VersionsTypeOK
  <2>8. Replacing' = IF r \in Current THEN Replacing \cup {e} ELSE Replacing
    BY <2>1, <2>3, <2>4, <2>7 DEF Replacing
  <2>9. e \notin Replacing
    BY <2>1 DEF Replacing
  <2>10. EditsOK'
    BY <2>1, <2>4, <2>6, <2>7 DEF VersionsInv, EditsOK
  <2>11. CurrentOK'
    <3>1. CASE r \in Current
      <4>1. Cardinality(Current') = Cardinality(Current) - 1
        BY <1>0, <2>6, <3>1, OneMore
      <4>2. IsFiniteSet(Replacing') /\ Cardinality(Replacing') = Cardinality(Replacing) + 1
        BY <1>0, <2>8, <2>9, <3>1, OneMore
      <4>. QED  BY <1>0, <2>5, <4>1, <4>2 DEF CurrentOK
    <3>2. CASE r \notin Current
      <4>1. Current' = Current /\ Replacing' = Replacing
        BY <2>6, <2>8, <3>2
      <4>. QED  BY <1>0, <2>5, <4>1 DEF CurrentOK
    <3>. QED  BY <3>1, <3>2
  <2>. QED  BY <1>0, <2>5, <2>6, <2>7, <2>10, <2>11 DEF VersionsInv, VersionsTypeOK
<1>8. ASSUME NEW e \in Edit, Insert(e) PROVE VersionsInv'
  <2> DEFINE n == Len(row) + 1
             new == NewRow(edit[e].of, edit[e].version + 1, edit[e].enabled)
  <2>1. /\ edit[e].at = "insert" /\ edit[e].of \in Row /\ edit[e].of \notin Current
        /\ edit[e] \in EditFields
    BY <1>3, <1>8 DEF Insert, VersionsInv, EditsOK
  <2>2. new \in RowFields /\ new.parent = edit[e].of /\ new.exists /\ new.current
    BY <2>1 DEF NewRow, RowFields, EditFields
  <2>3. Row = 1 .. Len(row) /\ Len(row) \in Nat /\ row \in Seq(RowFields)
    BY RowsAre DEF VersionsInv, VersionsTypeOK
  <2>4. row' = Append(row, new) /\ edit' = [edit EXCEPT ![e] = NoEdit] /\ UNCHANGED cut
    BY <1>8 DEF Insert
  <2> HIDE DEF new
  <2>5. /\ row' \in Seq(RowFields) /\ Row' = Row \cup {n} /\ n \notin Row
        /\ row'[n] = new /\ \A r \in Row : row'[r] = row[r]
    BY <2>2, <2>3, <2>4 DEF Row
  <2>6. Current' = Current \cup {n} /\ n \notin Current
    BY <2>2, <2>5 DEF Current
  <2>7. LineageOK'
    <3>1. ASSUME NEW r \in Row PROVE row'[r].parent < r /\ row'[r].parent # n /\ row'[r].parent \notin Current
      <4>1. row[r] \in RowFields
        BY RowsAre DEF VersionsInv
      <4>2. row[r].parent < r /\ row[r].parent \notin Current
        BY DEF VersionsInv, LineageOK
      <4>3. row[r].parent \in Nat /\ r \in 1 .. Len(row)
        BY <2>3, <4>1 DEF RowFields
      <4>4. row[r].parent # n
        BY <2>3, <4>2, <4>3
      <4>5. row'[r] = row[r]
        BY <2>5
      <4>. QED  BY <4>2, <4>4, <4>5
    <3>2. row'[n].parent < n /\ row'[n].parent # n /\ row'[n].parent \notin Current
      BY <2>1, <2>2, <2>3, <2>5
    <3>. QED  BY <2>5, <2>6, <3>1, <3>2 DEF LineageOK
  <2>8. NoEdit \in EditFields /\ NoEdit.at = "none" /\ ~NoEdit.replaces
    BY DEF NoEdit, EditFields
  <2>9. edit' \in [Edit -> EditFields] /\ \A f \in Edit : edit'[f] = IF f = e THEN NoEdit ELSE edit[f]
    BY <2>4, <2>8 DEF VersionsInv, VersionsTypeOK
  <2>10. EditsOK'
    <3> SUFFICES ASSUME NEW f \in Edit
                 PROVE  /\ edit'[f].at # "none" => edit'[f].of \in Row'
                        /\ edit'[f].replaces => edit'[f].at = "insert"
                        /\ edit'[f].at = "insert" => edit'[f].of \notin Current'
      BY DEF EditsOK
    <3>. QED  BY <2>5, <2>6, <2>8, <2>9 DEF VersionsInv, EditsOK
  <2>11. Replacing' = Replacing \ {e} /\ (e \in Replacing <=> edit[e].replaces)
    BY <2>8, <2>9 DEF Replacing
  <2>12. Cardinality(Current') = Cardinality(Current) + 1
    BY <1>0, <2>6, OneMore
  <2>13. CurrentOK' /\ forks' \in Nat
    <3>1. CASE edit[e].replaces
      <4>1. IsFiniteSet(Replacing') /\ Cardinality(Replacing') = Cardinality(Replacing) - 1
        BY <1>0, <2>11, <3>1, OneMore
      <4>. QED  BY <1>0, <1>8, <2>4, <2>12, <3>1, <4>1 DEF CurrentOK, Insert
    <3>2. CASE ~edit[e].replaces
      <4>1. Replacing' = Replacing
        BY <2>11, <3>2
      <4>. QED  BY <1>0, <1>8, <2>4, <2>12, <3>2, <4>1 DEF CurrentOK, Insert
    <3>. QED  BY <3>1, <3>2
  <2>. QED  BY <1>0, <2>4, <2>5, <2>7, <2>9, <2>10, <2>13 DEF VersionsInv, VersionsTypeOK
<1>9. ASSUME NEW r \in Row, NEW new \in RowFields, new.parent = row[r].parent,
             row' = [row EXCEPT ![r] = new], new.exists /\ new.current => r \in Current,
             UNCHANGED <<edit, forks>>,
             cut' = IF r \in Current /\ ~(new.exists /\ new.current) THEN cut + 1 ELSE cut
      PROVE  VersionsInv'
  <2>1. /\ row' \in Seq(RowFields) /\ Row' = Row /\ LineageOK'
        /\ Current' = IF new.exists /\ new.current THEN Current ELSE Current \ {r}
    BY <1>9, RowChanged
  <2>2. EditsOK' /\ Replacing' = Replacing
    BY <1>9, <2>1 DEF VersionsInv, EditsOK, Replacing
  <2>3. CurrentOK'
    <3>1. CASE r \in Current /\ ~(new.exists /\ new.current)
      <4>1. Cardinality(Current') = Cardinality(Current) - 1
        BY <1>0, <2>1, <3>1, OneMore
      <4>. QED  BY <1>0, <1>9, <2>2, <3>1, <4>1 DEF CurrentOK
    <3>2. CASE ~(r \in Current /\ ~(new.exists /\ new.current))
      <4>1. Current' = Current
        BY <2>1, <3>2
      <4>. QED  BY <1>0, <1>9, <2>2, <3>2, <4>1 DEF CurrentOK
    <3>. QED  BY <3>1, <3>2
  <2>. QED  BY <1>0, <1>9, <2>1, <2>2, <2>3 DEF VersionsInv, VersionsTypeOK
<1>10. \A r \in Row : row[r] \in RowFields /\ (r \in Current <=> row[r].exists /\ row[r].current)
  BY RowsAre DEF VersionsInv, Current
<1>11. ASSUME NEW r \in Row, SetEnabled(r) PROVE VersionsInv'
  <2> DEFINE new == [row[r] EXCEPT !.enabled = ~@]
  <2>1. /\ new \in RowFields /\ new.parent = row[r].parent
        /\ new.exists = row[r].exists /\ new.current = row[r].current
    BY <1>10 DEF RowFields
  <2>2. row' = [row EXCEPT ![r] = new]
    BY <1>11 DEF SetEnabled
  <2> HIDE DEF new
  <2>. QED  BY <1>9, <1>10, <1>11, <2>1, <2>2 DEF SetEnabled
<1>12. ASSUME NEW r \in Row, DeleteRule(r) PROVE VersionsInv'
  <2> DEFINE new == [row[r] EXCEPT !.exists = FALSE]
  <2>1. new \in RowFields /\ new.parent = row[r].parent /\ ~new.exists
    BY <1>10 DEF RowFields
  <2>2. row' = [row EXCEPT ![r] = new]
    BY <1>12 DEF DeleteRule
  <2> HIDE DEF new
  <2>. QED  BY <1>9, <1>10, <1>12, <2>1, <2>2 DEF DeleteRule
<1>. QED  BY <1>1, <1>4, <1>5, <1>6, <1>7, <1>8, <1>11, <1>12 DEF VersionsNext

\* The count without the edits that are between their statements.
LEMMA InvAccounted == VersionsInv => VersionsAccounted
<1> SUFFICES ASSUME VersionsInv PROVE VersionsAccounted
  OBVIOUS
<1>1. Cardinality(Current) + cut + Cardinality({e \in Edit : edit[e].replaces}) = 1 + forks
  BY DEF VersionsInv, CurrentOK, Replacing
<1>2. \A r \in Row, s \in Current : row[s].parent = r => r \notin Current
  BY DEF VersionsInv, LineageOK, Current
<1>. QED  BY <1>1, <1>2 DEF VersionsAccounted

\* A rule has one current version, one more for each made from a row that had been
\* replaced and one less for each edit cut off, and never a row with its successor.
THEOREM VersionsAccountedHolds == VersionsSpec => []VersionsAccounted
BY VersionsInvInit, VersionsInvNext, InvAccounted, PTL DEF VersionsSpec

(***************************************************************************)
(* Generation jobs                                                         *)
(***************************************************************************)
CeleryState   == {"none", "queued", "started", "retry", "success", "failure"}
CeleryType  == [state : CeleryState, retries : Nat, kept : BOOLEAN, found : BOOLEAN]
PollFields == [todo : SUBSET Job, writes : Job \cup {NoJob}, wrote : BOOLEAN]

JobsTypeOK ==
    /\ celery \in [Job -> CeleryType]
    /\ noted \subseteq Job /\ pending \subseteq noted /\ dropped \subseteq Job
    /\ homed \subseteq noted /\ signedOut \subseteq Job
    /\ poll \in [Poll -> PollFields]
    /\ written \in [Job -> Nat] /\ cuts \in Nat

\* A poll asks for ids that were noted, writes one that succeeded and that it asks
\* for no more, and has written it when it says so.
PollsOK ==
    \A p \in Poll :
        /\ poll[p].todo \subseteq noted
        /\ poll[p].writes # NoJob =>
               poll[p].writes \in noted \ poll[p].todo /\ celery[poll[p].writes].state = "success"
        /\ poll[p].wrote => poll[p].writes # NoJob /\ written[poll[p].writes] > 0

UnnotedOK == \A j \in Job \ noted : written[j] = 0

\* An id may be forgotten.
AccountedFor(j) ==
    \/ written[j] > 0 \/ celery[j].state = "failure"
    \/ celery[j].state = "success" /\ (j \in signedOut \/ ~Writes(j))

ForgottenOK == \A j \in noted \ (pending \cup dropped) : AccountedFor(j)

\* The polls that have written the outcome of a job and have its id to remove,
\* and those that may still write it.
HasWritten(j) == {p \in Poll : poll[p].writes = j /\ poll[p].wrote}
MayWrite(j)   == {p \in Poll : j \in poll[p].todo \/ (poll[p].writes = j /\ ~poll[p].wrote)}

\* While the id is in the storage, every write is one whose poll has the id to
\* remove or was cut off; afterwards no poll takes the job up.
WritesOK(j) ==
    IF j \in pending
    THEN written[j] <= Cardinality(HasWritten(j)) + cuts
    ELSE written[j] + Cardinality(MayWrite(j)) <= Cardinality(Poll) + cuts

JobsInv == JobsTypeOK /\ PollsOK /\ UnnotedOK /\ ForgottenOK /\ \A j \in Holiday : WritesOK(j)

\* The polls that have written an outcome and those that may yet are disjoint.
LEMMA PollsCount ==
    ASSUME JobsInv, NEW j \in Job
    PROVE  /\ IsFiniteSet(HasWritten(j)) /\ IsFiniteSet(MayWrite(j))
           /\ Cardinality(HasWritten(j)) \in Nat /\ Cardinality(MayWrite(j)) \in Nat
           /\ Cardinality(Poll) \in Nat
           /\ Cardinality(HasWritten(j)) + Cardinality(MayWrite(j)) <= Cardinality(Poll)
<1>1. HasWritten(j) \subseteq Poll /\ MayWrite(j) \subseteq Poll
  BY DEF HasWritten, MayWrite
<1>2. IsFiniteSet(Poll) /\ IsFiniteSet(HasWritten(j)) /\ IsFiniteSet(MayWrite(j))
  BY <1>1, JobAssumption, FS_Subset
<1>3. HasWritten(j) \cap MayWrite(j) = {}
  BY JobAssumption DEF HasWritten, MayWrite, JobsInv, PollsOK
<1>4. HasWritten(j) \cup MayWrite(j) \subseteq Poll
  BY <1>1
<1>5. Cardinality(HasWritten(j) \cup MayWrite(j)) <= Cardinality(Poll)
  BY <1>2, <1>4, FS_Subset
<1>6. Cardinality(HasWritten(j) \cup MayWrite(j))
        = Cardinality(HasWritten(j)) + Cardinality(MayWrite(j)) - Cardinality(HasWritten(j) \cap MayWrite(j))
  BY <1>2, FS_Union
<1>7. Cardinality({}) = 0
  BY FS_EmptySet
<1>8. /\ Cardinality(HasWritten(j)) \in Nat /\ Cardinality(MayWrite(j)) \in Nat
      /\ Cardinality(Poll) \in Nat
  BY <1>2, FS_CardinalityType
<1>9. Cardinality(HasWritten(j) \cap MayWrite(j)) = 0
  BY <1>3, <1>7
<1>10. Cardinality(HasWritten(j)) + Cardinality(MayWrite(j)) <= Cardinality(Poll)
  BY <1>5, <1>6, <1>8, <1>9
<1>. QED  BY <1>2, <1>8, <1>10

\* A set that only one element enters or leaves.
LEMMA OneMoved ==
    ASSUME NEW S, NEW T, IsFiniteSet(S), NEW x, S \ {x} = T \ {x}
    PROVE  /\ x \in T => x \in S \/ Cardinality(T) = Cardinality(S) + 1
           /\ x \notin T => x \notin S \/ Cardinality(T) = Cardinality(S) - 1
           /\ (x \in T <=> x \in S) => T = S
<1>1. x \in T /\ x \notin S => T = S \cup {x}
  OBVIOUS
<1>2. x \notin T /\ x \in S => T = S \ {x}
  OBVIOUS
<1>. QED  BY <1>1, <1>2, OneMore

\* A step of one poll keeps the count of a holiday job's posts.
LEMMA CountKept ==
    ASSUME JobsInv, NEW j \in Holiday, NEW p \in Poll, NEW there \in PollFields,
           poll' = [poll EXCEPT ![p] = there], written'[j] \in Nat, cuts' \in Nat,
           j \in pending' => j \in pending,
           NEW inW \in BOOLEAN, inW <=> there.writes = j /\ there.wrote,
           NEW inM \in BOOLEAN, inM <=> j \in there.todo \/ (there.writes = j /\ ~there.wrote),
           \/ /\ written'[j] = written[j] /\ cuts' = cuts
              /\ inM => p \in MayWrite(j) \/ j \in pending'
              /\ j \in pending' /\ p \in HasWritten(j) => inW
           \/ written'[j] = written[j] /\ cuts' = cuts + 1 /\ ~inM /\ ~inW
           \/ /\ written'[j] = written[j] + 1 /\ cuts' = cuts /\ (j \in pending => j \in pending')
              /\ p \in MayWrite(j) \ HasWritten(j) /\ inW /\ ~inM
    PROVE  WritesOK(j)'
<1> DEFINE W == HasWritten(j)  M == MayWrite(j)
           W1 == {q \in Poll : poll'[q].writes = j /\ poll'[q].wrote}
           M1 == {q \in Poll : j \in poll'[q].todo \/ (poll'[q].writes = j /\ ~poll'[q].wrote)}
<1>1. /\ IsFiniteSet(W) /\ IsFiniteSet(M) /\ Cardinality(W) \in Nat /\ Cardinality(M) \in Nat
      /\ Cardinality(Poll) \in Nat /\ Cardinality(W) + Cardinality(M) <= Cardinality(Poll)
  BY PollsCount, JobAssumption
<1>2. \A q \in Poll : poll'[q] = IF q = p THEN there ELSE poll[q]
  BY DEF JobsInv, JobsTypeOK
<1>3. W \ {p} = W1 \ {p} /\ (p \in W1 <=> inW)
  BY <1>2 DEF HasWritten
<1>4. M \ {p} = M1 \ {p} /\ (p \in M1 <=> inM)
  BY <1>2 DEF MayWrite
<1>5. HasWritten(j)' = W1 /\ MayWrite(j)' = M1
  BY DEF HasWritten, MayWrite
<1> HIDE DEF W, M, W1, M1
<1>6. /\ inW => p \in W \/ Cardinality(W1) = Cardinality(W) + 1
      /\ ~inW => p \notin W \/ Cardinality(W1) = Cardinality(W) - 1
      /\ (inW <=> p \in W) => W1 = W
  BY <1>1, <1>3, OneMoved
<1>7. /\ inM => p \in M \/ Cardinality(M1) = Cardinality(M) + 1
      /\ ~inM => p \notin M \/ Cardinality(M1) = Cardinality(M) - 1
      /\ (inM <=> p \in M) => M1 = M
  BY <1>1, <1>4, OneMoved
<1>8. written[j] \in Nat /\ cuts \in Nat
  BY JobAssumption DEF JobsInv, JobsTypeOK
<1>9. IF j \in pending THEN written[j] <= Cardinality(W) + cuts
      ELSE written[j] + Cardinality(M) <= Cardinality(Poll) + cuts
  BY DEF JobsInv, WritesOK, W, M
<1>10. IF j \in pending' THEN written'[j] <= Cardinality(W1) + cuts'
       ELSE written'[j] + Cardinality(M1) <= Cardinality(Poll) + cuts'
  <2>1. CASE written'[j] = written[j] /\ cuts' = cuts
    BY <1>1, <1>6, <1>7, <1>8, <1>9, <2>1 DEF W, M
  <2>2. CASE written'[j] = written[j] /\ cuts' = cuts + 1 /\ ~inM /\ ~inW
    BY <1>1, <1>6, <1>7, <1>8, <1>9, <2>2 DEF W, M
  <2>3. CASE /\ written'[j] = written[j] + 1 /\ cuts' = cuts /\ (j \in pending => j \in pending')
             /\ p \in M \ W /\ inW /\ ~inM
    BY <1>1, <1>6, <1>7, <1>8, <1>9, <2>3
  <2>. QED  BY <1>8, <2>1, <2>2, <2>3 DEF W, M
<1>. QED  BY <1>5, <1>10 DEF WritesOK

\* No job has been noted at first.
LEMMA JobsInvInit == JobsInit => JobsInv
<1> SUFFICES ASSUME JobsInit PROVE JobsInv
  OBVIOUS
<1>1. JobsTypeOK
  BY JobAssumption DEF JobsInit, JobsTypeOK, NoPoll, PollFields, CeleryState, CeleryType
<1>2. PollsOK /\ UnnotedOK /\ ForgottenOK
  BY DEF JobsInit, NoPoll, PollsOK, UnnotedOK, ForgottenOK
<1>3. ASSUME NEW j \in Holiday PROVE WritesOK(j)
  <2>1. MayWrite(j) = {}
    BY JobAssumption DEF JobsInit, NoPoll, MayWrite
  <2>2. Cardinality(Poll) \in Nat /\ Cardinality({}) = 0
    BY JobAssumption, FS_EmptySet, FS_CardinalityType
  <2>3. written[j] = 0 /\ cuts = 0 /\ j \notin pending
    BY JobAssumption DEF JobsInit
  <2>. QED  BY <2>1, <2>2, <2>3 DEF WritesOK
<1>. QED  BY <1>1, <1>2, <1>3 DEF JobsInv

\* A step of Celery's: what failed or succeeded stays so, and nothing else matters.
LEMMA CeleryMoves ==
    ASSUME JobsInv, UNCHANGED pageVars, NEW j \in Job,
           NEW there \in CeleryType,
           celery' = [celery EXCEPT ![j] = there],
           celery[j].state \in {"failure", "success"} =>
               there.state = celery[j].state /\ there.found = celery[j].found
    PROVE  JobsInv'
<1>0. /\ \A k \in Job : celery'[k] = IF k = j THEN there ELSE celery[k]
      /\ UNCHANGED <<noted, homed, pending, poll, written, dropped, signedOut, cuts>>
  BY DEF JobsInv, JobsTypeOK, pageVars
<1>1. JobsTypeOK'
  BY <1>0 DEF JobsInv, JobsTypeOK
<1>2. PollsOK' /\ UnnotedOK'
  <2>1. \A p \in Poll : poll[p].writes # NoJob => poll[p].writes \in Job
    BY DEF JobsInv, JobsTypeOK, PollsOK
  <2>. QED  BY <1>0, <2>1 DEF JobsInv, PollsOK, UnnotedOK
<1>3. ForgottenOK'
  BY <1>0 DEF JobsInv, JobsTypeOK, ForgottenOK, AccountedFor, Writes
<1>4. ASSUME NEW k \in Holiday PROVE WritesOK(k)'
  <2>1. WritesOK(k)' <=> WritesOK(k)
    BY DEF WritesOK, HasWritten, MayWrite, pageVars
  <2>. QED  BY <2>1 DEF JobsInv
<1>. QED  BY <1>1, <1>2, <1>3, <1>4 DEF JobsInv

\* A step of one poll that writes nothing: it may forget a job that is settled or
\* dropped.
LEMMA PollMoves ==
    ASSUME JobsInv, NEW p \in Poll, NEW there \in PollFields,
           poll' = [poll EXCEPT ![p] = there], UNCHANGED <<celery, noted, homed, written>>,
           signedOut' \in SUBSET Job, signedOut \subseteq signedOut',
           NEW gone \in SUBSET Job, pending' = pending \ gone,
           dropped' \in SUBSET Job, dropped \subseteq dropped',
           \A j \in gone \ dropped' : AccountedFor(j)',
           there.todo \subseteq noted,
           there.writes # NoJob => there.writes \in noted \ there.todo,
           there.writes # NoJob => celery[there.writes].state = "success",
           ~there.wrote, there.writes # NoJob => ~poll[p].wrote,
           \/ /\ cuts' = cuts
              /\ \A j \in Holiday : p \in HasWritten(j) => j \in gone
              /\ \A j \in there.todo \cup {there.writes} :
                     j \in poll[p].todo \cup {NoJob} \/ j \in pending'
           \/ cuts' = cuts + 1 /\ there = NoPoll
    PROVE  JobsInv'
<1>1. JobsTypeOK'
  BY DEF JobsInv, JobsTypeOK
<1>2. PollsOK' /\ UnnotedOK' /\ ForgottenOK'
  <2>1. \A q \in Poll : poll'[q] = IF q = p THEN there ELSE poll[q]
    BY DEF JobsInv, JobsTypeOK
  <2>2. \A j \in Job : AccountedFor(j) => AccountedFor(j)'
    BY DEF AccountedFor, Writes
  <2>3. noted \subseteq Job
    BY DEF JobsInv, JobsTypeOK
  <2>. QED  BY <2>1, <2>2, <2>3 DEF JobsInv, PollsOK, UnnotedOK, ForgottenOK
<1>3. ASSUME NEW j \in Holiday PROVE WritesOK(j)'
  <2> DEFINE inM == j \in there.todo \/ there.writes = j
  <2>1. j \in Job /\ j # NoJob
    BY JobAssumption
  <2>2. inM <=> j \in there.todo \/ (there.writes = j /\ ~there.wrote)
    OBVIOUS
  <2>3. j \in poll[p].todo => p \in MayWrite(j)
    BY DEF MayWrite
  <2>4. written'[j] = written[j] /\ written'[j] \in Nat /\ cuts' \in Nat
    BY <1>1, <2>1 DEF JobsTypeOK
  <2>5. CASE cuts' = cuts + 1 /\ there = NoPoll
    <3>1. ~inM
      BY <2>1, <2>5 DEF NoPoll
    <3>. QED  BY <2>2, <2>4, <2>5, <3>1, CountKept
  <2>6. CASE /\ cuts' = cuts
             /\ \A k \in Holiday : p \in HasWritten(k) => k \in gone
             /\ \A k \in there.todo \cup {there.writes} :
                    k \in poll[p].todo \cup {NoJob} \/ k \in pending'
    <3>1. inM => p \in MayWrite(j) \/ j \in pending'
      BY <2>1, <2>3, <2>6
    <3>2. ~(j \in pending' /\ p \in HasWritten(j))
      BY <2>6
    <3> HIDE DEF inM
    <3>. QED  BY <2>2, <2>4, <2>6, <3>1, <3>2, CountKept
  <2>. QED  BY <2>5, <2>6
<1>. QED  BY <1>1, <1>2, <1>3 DEF JobsInv

\* Every step of Celery and of a page keeps the outcomes accounted for.
LEMMA JobsInvNext == JobsInv /\ [JobsNext]_jobVars => JobsInv'
<1> SUFFICES ASSUME JobsInv, [JobsNext]_jobVars PROVE JobsInv'
  OBVIOUS
<1>0. /\ \A j \in Job : celery[j] \in CeleryType
      /\ homed \subseteq noted /\ signedOut \in SUBSET Job
      /\ \A p \in Poll : poll[p] \in PollFields
      /\ NoPoll \in PollFields /\ NoPoll.todo = {} /\ NoPoll.writes = NoJob /\ ~NoPoll.wrote
  BY DEF JobsInv, JobsTypeOK, NoPoll, PollFields
<1>1. CASE UNCHANGED jobVars
  <2>1. \A j \in Holiday : WritesOK(j)' <=> WritesOK(j)
    BY <1>1 DEF WritesOK, HasWritten, MayWrite, jobVars
  <2>. QED  BY <1>1, <2>1 DEF JobsInv, JobsTypeOK, PollsOK, UnnotedOK, ForgottenOK, AccountedFor, Writes, jobVars
<1>2. ASSUME NEW j \in Job, NEW from \in SUBSET (CeleryState \ {"failure", "success"}), NEW to \in CeleryState,
             GoTo(j, from, to)
      PROVE  JobsInv'
  <2> DEFINE there == [celery[j] EXCEPT !.state = to]
  <2>1. there \in CeleryType
    BY <1>0 DEF CeleryType
  <2>2. /\ celery' = [celery EXCEPT ![j] = there] /\ UNCHANGED pageVars
        /\ celery[j].state \notin {"failure", "success"}
    BY <1>2 DEF GoTo
  <2> HIDE DEF there
  <2>. QED  BY <2>1, <2>2, CeleryMoves
<1>3. ASSUME NEW j \in Job, DispatchJob(j) \/ StartJob(j) \/ Redeliver(j) PROVE JobsInv'
  BY <1>2, <1>3 DEF DispatchJob, StartJob, Redeliver, CeleryState
<1>12. ASSUME NEW j \in Job, JobSucceeds(j) PROVE JobsInv'
  <2>1. PICK found \in BOOLEAN :
            celery' = [celery EXCEPT ![j].state = "success", ![j].found = found]
    BY <1>12 DEF JobSucceeds
  <2> DEFINE there == [celery[j] EXCEPT !.state = "success", !.found = found]
  <2>2. there \in CeleryType
    BY <1>0 DEF CeleryType, CeleryState
  <2>3. /\ celery' = [celery EXCEPT ![j] = there] /\ UNCHANGED pageVars
        /\ celery[j].state \notin {"failure", "success"}
    BY <1>12, <2>1 DEF JobSucceeds, JobsInv, JobsTypeOK
  <2> HIDE DEF there
  <2>. QED  BY <2>2, <2>3, CeleryMoves
<1>4. ASSUME NEW j \in Job, JobRaises(j) PROVE JobsInv'
  <2>1. celery[j].state \notin {"failure", "success"} /\ UNCHANGED pageVars
    BY <1>4 DEF JobRaises
  <2>2. CASE celery[j].retries < JobRetries
    <3> DEFINE there == [state |-> "retry", retries |-> celery[j].retries + 1, kept |-> celery[j].kept,
                         found |-> celery[j].found]
    <3>1. there \in CeleryType
      BY <1>0 DEF CeleryState, CeleryType
    <3>2. celery' = [celery EXCEPT ![j] = there]
      BY <1>4, <2>2 DEF JobRaises, JobsInv, JobsTypeOK, CeleryType
    <3> HIDE DEF there
    <3>. QED  BY <2>1, <3>1, <3>2, CeleryMoves
  <2>3. CASE ~(celery[j].retries < JobRetries)
    <3> DEFINE there == [celery[j] EXCEPT !.state = "failure"]
    <3>1. there \in CeleryType
      BY <1>0 DEF CeleryState, CeleryType
    <3>2. celery' = [celery EXCEPT ![j] = there]
      BY <1>4, <2>3 DEF JobRaises, JobsInv, JobsTypeOK
    <3> HIDE DEF there
    <3>. QED  BY <2>1, <3>1, <3>2, CeleryMoves
  <2>. QED  BY <2>2, <2>3
<1>5. ASSUME NEW j \in Job, ResultExpires(j) PROVE JobsInv'
  <2> DEFINE there == [celery[j] EXCEPT !.kept = FALSE]
  <2>1. there \in CeleryType /\ there.state = celery[j].state /\ there.found = celery[j].found
    BY <1>0 DEF CeleryType
  <2>2. celery' = [celery EXCEPT ![j] = there] /\ UNCHANGED pageVars
    BY <1>5 DEF ResultExpires
  <2> HIDE DEF there
  <2>. QED  BY <2>1, <2>2, CeleryMoves
<1>6. ASSUME NEW j \in Job, NoteJob(j) PROVE JobsInv'
  <2>1. /\ noted' = noted \cup {j} /\ pending' = pending \cup {j} /\ j \notin noted
        /\ UNCHANGED <<celery, poll, written, dropped, signedOut, cuts>>
        /\ homed \subseteq homed' /\ homed' \subseteq homed \cup {j}
    BY <1>6 DEF NoteJob
  <2>2. written[j] = 0
    BY <2>1 DEF JobsInv, UnnotedOK
  <2>5. \A k \in noted : AccountedFor(k) => AccountedFor(k)'
    BY <2>1 DEF AccountedFor, Writes
  <2>3. JobsTypeOK' /\ PollsOK' /\ UnnotedOK' /\ ForgottenOK'
    BY <2>1, <2>5 DEF JobsInv, JobsTypeOK, PollsOK, UnnotedOK, ForgottenOK
  <2>4. ASSUME NEW k \in Holiday PROVE WritesOK(k)'
    <3>1. HasWritten(k)' = HasWritten(k) /\ MayWrite(k)' = MayWrite(k)
      BY <2>1 DEF HasWritten, MayWrite
    <3>2. CASE k = j
      <4>1. Cardinality(HasWritten(k)) \in Nat /\ cuts \in Nat
        BY PollsCount, JobAssumption DEF JobsInv, JobsTypeOK
      <4>. QED  BY <2>1, <2>2, <3>1, <3>2, <4>1 DEF WritesOK
    <3>3. CASE k # j
      <4>1. k \in pending' <=> k \in pending
        BY <2>1, <3>3
      <4>2. WritesOK(k)
        BY DEF JobsInv
      <4>. QED  BY <2>1, <3>1, <4>1, <4>2 DEF WritesOK
    <3>. QED  BY <3>2, <3>3
  <2>. QED  BY <2>3, <2>4 DEF JobsInv
<1>7. ASSUME NEW p \in Poll, BeginPoll(p) PROVE JobsInv'
  <2> DEFINE there == [NoPoll EXCEPT !.todo = pending]
  <2>1. there \in PollFields /\ there.todo = pending /\ there.writes = NoJob /\ ~there.wrote
    BY DEF NoPoll, PollFields, JobsInv, JobsTypeOK
  <2>2. /\ poll' = [poll EXCEPT ![p] = there]
        /\ UNCHANGED <<celery, noted, homed, pending, written, dropped, signedOut, cuts>>
    BY <1>7 DEF BeginPoll, SetPoll
  <2>3. \A j \in Holiday : p \notin HasWritten(j)
    BY <1>0, <1>7 DEF BeginPoll, HasWritten
  <2>4. pending \subseteq noted /\ dropped \in SUBSET Job
    BY DEF JobsInv, JobsTypeOK
  <2> HIDE DEF there
  <2>5. pending' = pending \ {} /\ {} \in SUBSET Job
    BY <2>2
  <2>. QED  BY <1>0, <2>1, <2>2, <2>3, <2>4, <2>5, PollMoves
<1>8. ASSUME NEW p \in Poll, AskStatus(p) PROVE JobsInv'
  <2>1. poll[p].writes = NoJob /\ ~poll[p].wrote /\ poll[p].todo \subseteq noted /\ poll[p] \in PollFields
    BY <1>0, <1>8 DEF AskStatus, JobsInv, PollsOK
  <2>2. PICK j \in poll[p].todo :
          LET next == [poll[p] EXCEPT !.todo = @ \ {j}]
          IN  \/ SetPoll(p, next) /\ UNCHANGED <<pending, dropped>>
              \/ SetPoll(p, next) /\ Forget(j) /\ dropped' = dropped \cup {j}
              \/ /\ Status(j) = "failure" /\ SetPoll(p, next)
                 /\ Forget(j) /\ UNCHANGED dropped
              \/ /\ Status(j) = "success" /\ SetPoll(p, [next EXCEPT !.writes = j])
                 /\ UNCHANGED <<pending, dropped>>
    BY <1>8 DEF AskStatus
  <2> DEFINE next == [poll[p] EXCEPT !.todo = @ \ {j}]
             writing == [next EXCEPT !.writes = j]
  <2>3. j \in Job /\ j \in noted /\ j # NoJob /\ dropped \in SUBSET Job
    BY <2>1, JobAssumption DEF JobsInv, JobsTypeOK
  <2>4. /\ next \in PollFields /\ next.todo = poll[p].todo \ {j} /\ next.writes = NoJob /\ ~next.wrote
        /\ writing \in PollFields /\ writing.todo = poll[p].todo \ {j} /\ writing.writes = j
        /\ ~writing.wrote
    BY <2>1, <2>3 DEF PollFields
  <2>5. \A k \in Holiday : p \notin HasWritten(k)
    BY <2>1 DEF HasWritten
  <2>6. UNCHANGED <<celery, noted, homed, written, signedOut, cuts>>
    BY <1>8 DEF AskStatus
  <2>7. /\ Status(j) = "failure" => celery[j].state = "failure"
        /\ Status(j) = "success" => celery[j].state = "success"
    BY DEF Status
  <2>13. celery[j].state = "failure" => AccountedFor(j)'
    BY <2>6 DEF AccountedFor
  <2>8. \/ poll' = [poll EXCEPT ![p] = next] /\ UNCHANGED <<pending, dropped>>
        \/ /\ poll' = [poll EXCEPT ![p] = next] /\ pending' = pending \ {j}
           /\ dropped' = dropped \cup {j} \/ (celery[j].state = "failure" /\ dropped' = dropped)
        \/ /\ poll' = [poll EXCEPT ![p] = writing] /\ UNCHANGED <<pending, dropped>>
           /\ celery[j].state = "success"
    BY <2>2, <2>7 DEF SetPoll, Forget
  <2> HIDE DEF next, writing
  <2>12. pending = pending \ {} /\ {} \in SUBSET Job
    OBVIOUS
  <2>9. CASE poll' = [poll EXCEPT ![p] = next] /\ UNCHANGED <<pending, dropped>>
    BY <1>0, <2>1, <2>3, <2>4, <2>5, <2>6, <2>9, <2>12, PollMoves
  <2>10. CASE /\ poll' = [poll EXCEPT ![p] = next] /\ pending' = pending \ {j}
              /\ dropped' = dropped \cup {j} \/ (celery[j].state = "failure" /\ dropped' = dropped)
    <3>1. \A k \in {j} \ dropped' : AccountedFor(k)'
      BY <2>10, <2>13
    <3>2. {j} \in SUBSET Job /\ dropped' \in SUBSET Job /\ dropped \subseteq dropped'
      BY <2>3, <2>10
    <3>. QED  BY <1>0, <2>1, <2>3, <2>4, <2>5, <2>6, <2>10, <3>1, <3>2, PollMoves
  <2>11. CASE /\ poll' = [poll EXCEPT ![p] = writing] /\ UNCHANGED <<pending, dropped>>
              /\ celery[j].state = "success"
    BY <1>0, <2>1, <2>3, <2>4, <2>5, <2>6, <2>11, <2>12, PollMoves
  <2>. QED  BY <2>8, <2>9, <2>10, <2>11
<1>9. ASSUME NEW p \in Poll, WriteOutcome(p) PROVE JobsInv'
  <2> DEFINE j == poll[p].writes
             there == [poll[p] EXCEPT !.wrote = TRUE]
  <2>1. j \in Job /\ j \in noted /\ j \notin poll[p].todo /\ ~poll[p].wrote
    BY <1>9 DEF WriteOutcome, JobsInv, JobsTypeOK, PollsOK
  <2>2. /\ there \in PollFields /\ there.todo = poll[p].todo /\ there.writes = j /\ there.wrote
        /\ poll' = [poll EXCEPT ![p] = there]
        /\ UNCHANGED <<celery, noted, homed, pending, dropped, signedOut, cuts>>
    BY <1>0, <1>9 DEF WriteOutcome, SetPoll, PollFields
  <2>3. /\ written' \in [Job -> Nat] /\ written'[j] > 0
        /\ \A k \in Job : written'[k] = IF k # j THEN written[k]
                                        ELSE IF k \in Holiday THEN written[k] + 1 ELSE 1
    BY <1>9, <2>1 DEF WriteOutcome, JobsInv, JobsTypeOK
  <2> HIDE DEF there
  <2>4. \A q \in Poll : poll'[q] = IF q = p THEN there ELSE poll[q]
    BY <2>2 DEF JobsInv, JobsTypeOK
  <2>5. \A k \in Job : written[k] > 0 => written'[k] > 0
    BY <2>3 DEF JobsInv, JobsTypeOK
  <2>6. JobsTypeOK'
    BY <2>2, <2>3 DEF JobsInv, JobsTypeOK
  <2>7. PollsOK'
    <3> SUFFICES ASSUME NEW q \in Poll
                 PROVE  /\ poll'[q].todo \subseteq noted
                        /\ poll'[q].writes # NoJob => /\ poll'[q].writes \in noted \ poll'[q].todo
                                                      /\ celery[poll'[q].writes].state = "success"
                        /\ poll'[q].wrote => poll'[q].writes # NoJob /\ written'[poll'[q].writes] > 0
      BY <2>2 DEF PollsOK
    <3>1. CASE q = p
      BY <2>1, <2>2, <2>3, <2>4, <3>1, JobAssumption DEF JobsInv, PollsOK
    <3>2. CASE q # p
      BY <2>4, <2>5, <3>2 DEF JobsInv, JobsTypeOK, PollsOK
    <3>. QED  BY <3>1, <3>2
  <2>10. \A k \in Job : AccountedFor(k) => AccountedFor(k)'
    BY <2>2, <2>5 DEF AccountedFor, Writes
  <2>8. UnnotedOK' /\ ForgottenOK'
    BY <2>1, <2>2, <2>3, <2>5, <2>10 DEF JobsInv, JobsTypeOK, UnnotedOK, ForgottenOK
  <2>9. ASSUME NEW k \in Holiday PROVE WritesOK(k)'
    <3>1. k \in Job /\ written[k] \in Nat /\ written'[k] \in Nat /\ cuts' \in Nat
      BY <2>3, <2>6, JobAssumption DEF JobsInv, JobsTypeOK
    <3>2. CASE k = j
      <4>1. p \in MayWrite(k) \ HasWritten(k)
        BY <2>1, <3>2 DEF MayWrite, HasWritten
      <4> DEFINE inW == TRUE  inM == FALSE
      <4>2. /\ inW <=> there.writes = k /\ there.wrote
            /\ inM <=> k \in there.todo \/ (there.writes = k /\ ~there.wrote)
        BY <2>1, <2>2, <3>2
      <4>3. written'[k] = written[k] + 1
        BY <2>3, <3>1, <3>2
      <4>. QED  BY <2>2, <3>1, <4>1, <4>2, <4>3, CountKept
    <3>3. CASE k # j
      <4> DEFINE inM == k \in there.todo
      <4>1. /\ FALSE <=> there.writes = k /\ there.wrote
            /\ inM <=> k \in there.todo \/ (there.writes = k /\ ~there.wrote)
            /\ inM => p \in MayWrite(k)
            /\ p \notin HasWritten(k)
        BY <2>2, <3>3 DEF MayWrite, HasWritten
      <4>2. written'[k] = written[k]
        BY <2>3, <3>1, <3>3
      <4> HIDE DEF inM
      <4>3. inM \in BOOLEAN
        BY DEF inM
      <4>. QED  BY <2>2, <3>1, <4>1, <4>2, <4>3, CountKept
    <3>. QED  BY <3>2, <3>3
  <2>. QED  BY <2>6, <2>7, <2>8, <2>9 DEF JobsInv
<1>10. ASSUME NEW p \in Poll,
              WriteFails(p) \/ RemoveWritten(p) \/ RemoveUnwritten(p) \/ RemoveSignedOut(p)
       PROVE  JobsInv'
  <2> DEFINE there == [NoPoll EXCEPT !.todo = poll[p].todo]
  <2>1. poll[p].writes # NoJob
    BY <1>10, JobAssumption
       DEF WriteFails, RemoveWritten, RemoveUnwritten, RemoveSignedOut, JobsInv, PollsOK
  <2>2. PICK j \in Job : j = poll[p].writes
    BY <2>1 DEF JobsInv, JobsTypeOK, PollsOK
  <2>3. poll[p].todo \subseteq noted /\ dropped \in SUBSET Job /\ celery[j].state = "success"
    BY <2>1, <2>2 DEF JobsInv, JobsTypeOK, PollsOK
  <2>4. there \in PollFields /\ there.todo = poll[p].todo /\ there.writes = NoJob /\ ~there.wrote
    BY <1>0 DEF NoPoll, PollFields
  <2>5. \A k \in Holiday : p \in HasWritten(k) => k = j
    BY <2>2 DEF HasWritten
  <2>6. /\ UNCHANGED <<celery, noted, homed, written, cuts>>
        /\ signedOut' \in SUBSET Job /\ signedOut \subseteq signedOut'
        /\ \/ /\ poll' = [poll EXCEPT ![p] = there] /\ pending' = pending \ {j}
              /\ \/ dropped' = dropped \cup {j}
                 \/ dropped' = dropped /\ (poll[p].wrote \/ j \in signedOut' \/ ~Writes(j))
           \/ poll' = [poll EXCEPT ![p] = NoPoll] /\ UNCHANGED <<pending, dropped>> /\ j \notin Holiday
    <3>1. CASE WriteFails(p)
      BY <1>0, <2>2, <3>1 DEF WriteFails, SetPoll, Forget
    <3>2. CASE RemoveWritten(p)
      BY <1>0, <2>2, <3>2 DEF RemoveWritten, SetPoll, Forget
    <3>3. CASE RemoveUnwritten(p)
      BY <1>0, <2>2, <3>3 DEF RemoveUnwritten, SetPoll, Forget
    <3>4. CASE RemoveSignedOut(p)
      BY <1>0, <2>2, <3>4 DEF RemoveSignedOut, SetPoll, Forget
    <3>. QED  BY <1>10, <3>1, <3>2, <3>3, <3>4
  <2>7. poll[p].wrote \/ j \in signedOut' \/ ~Writes(j) => AccountedFor(j)'
    <3>1. poll[p].wrote => written[j] > 0
      BY <2>2 DEF JobsInv, PollsOK
    <3>. QED  BY <2>3, <2>6, <3>1 DEF AccountedFor, Writes
  <2> HIDE DEF there
  <2>8. CASE /\ poll' = [poll EXCEPT ![p] = there] /\ pending' = pending \ {j}
             /\ \/ dropped' = dropped \cup {j}
                \/ dropped' = dropped /\ (poll[p].wrote \/ j \in signedOut' \/ ~Writes(j))
    <3>1. \A k \in {j} \ dropped' : AccountedFor(k)'
      BY <2>7, <2>8
    <3>2. /\ {j} \in SUBSET Job /\ dropped' \in SUBSET Job /\ dropped \subseteq dropped'
          /\ \A k \in Holiday : p \in HasWritten(k) => k \in {j}
      BY <2>3, <2>5, <2>8
    <3>. QED  BY <2>3, <2>4, <2>6, <2>8, <3>1, <3>2, PollMoves
  <2>9. CASE poll' = [poll EXCEPT ![p] = NoPoll] /\ UNCHANGED <<pending, dropped>> /\ j \notin Holiday
    <3>1. NoPoll \in PollFields /\ NoPoll.todo = {} /\ NoPoll.writes = NoJob /\ ~NoPoll.wrote
      BY <1>0 DEF NoPoll
    <3>2. /\ pending' = pending \ {} /\ dropped' \in SUBSET Job /\ dropped \subseteq dropped'
          /\ cuts' = cuts /\ \A k \in Holiday : p \notin HasWritten(k)
      BY <2>3, <2>5, <2>6, <2>9
    <3> HIDE DEF NoPoll
    <3>. QED  BY <2>6, <2>9, <3>1, <3>2, PollMoves
  <2>. QED  BY <2>6, <2>8, <2>9
<1>11. ASSUME NEW p \in Poll, ClosePage(p) PROVE JobsInv'
  <2>1. /\ poll' = [poll EXCEPT ![p] = NoPoll]
        /\ UNCHANGED <<celery, noted, homed, pending, written, dropped, signedOut>>
        /\ cuts' = IF poll[p].wrote THEN cuts + 1 ELSE cuts
    BY <1>11 DEF ClosePage, SetPoll
  <2>2. ~poll[p].wrote => \A j \in Holiday : p \notin HasWritten(j)
    BY DEF HasWritten
  <2>3. dropped \in SUBSET Job
    BY DEF JobsInv, JobsTypeOK
  <2>4. pending' = pending \ {} /\ {} \in SUBSET Job
    BY <2>1
  <2>5. CASE poll[p].wrote
    BY <1>0, <2>1, <2>3, <2>4, <2>5, PollMoves
  <2>6. CASE ~poll[p].wrote
    BY <1>0, <2>1, <2>2, <2>3, <2>4, <2>6, PollMoves
  <2>. QED  BY <2>5, <2>6
<1>. QED  BY <1>1, <1>3, <1>4, <1>5, <1>6, <1>7, <1>8, <1>9, <1>10, <1>11, <1>12 DEF JobsNext

\* A poll writes an outcome once, so the writes are bounded by the polls.
LEMMA InvOutcomes == JobsInv => OutcomesAccounted
<1> SUFFICES ASSUME JobsInv PROVE OutcomesAccounted
  OBVIOUS
<1>1. ASSUME NEW j \in Holiday PROVE written[j] <= Cardinality(Poll) + cuts
  <2>1. /\ Cardinality(HasWritten(j)) \in Nat /\ Cardinality(MayWrite(j)) \in Nat
        /\ Cardinality(Poll) \in Nat
        /\ Cardinality(HasWritten(j)) + Cardinality(MayWrite(j)) <= Cardinality(Poll)
    BY PollsCount, JobAssumption
  <2>2. written[j] \in Nat /\ cuts \in Nat /\ WritesOK(j)
    BY JobAssumption DEF JobsInv, JobsTypeOK
  <2>. QED  BY <2>1, <2>2 DEF WritesOK
<1>. QED  BY <1>1 DEF OutcomesAccounted, JobsInv, ForgottenOK, AccountedFor

\* A job the page forgets has had its outcome written, or failed, or was dropped over
\* an error, or succeeded with nothing to write, nowhere to write it or nobody signed
\* in; and a holiday job is written once for each poll and each page closed in between.
THEOREM OutcomesAccountedHolds == JobsSpec => []OutcomesAccounted
BY JobsInvInit, JobsInvNext, InvOutcomes, PTL DEF JobsSpec

(***************************************************************************)
(* The timeline and its copy                                               *)
(***************************************************************************)
TellType == [about : Thing \cup {Echo}, version : Nat]
Stage    == {"poll", "fetching", "copying", "duties", "recording", "marking", "moving"}
WorkType == [mark : {"pending", "processed", "error"}, tried : [1 .. Duties -> Nat],
             passedOver : BOOLEAN, unrecorded : BOOLEAN, interrupted : BOOLEAN, cut : Nat]

TimelineTypeOK ==
    /\ shop \in [Thing -> Nat] /\ copy \in [Copied -> Nat]
    /\ writer \in [Writer -> Seq(TellType)] /\ timeline \in Seq(TellType)
    /\ cursor \in Nat /\ listener \in [at : Stage, event : Nat, duty : Nat, got : Nat]
    /\ work \in WorkType

\* The listener is at the event after the cursor, and copies what it should.
ListenerOK ==
    /\ cursor <= Len(timeline)
    /\ listener.at # "poll" => listener.event = cursor + 1 /\ cursor + 1 <= Len(timeline)
    /\ listener.at \in {"fetching", "copying"} => This.about \in Copied /\ listener.duty = 1
    /\ listener.at = "duties" => This.about # Echo /\ listener.duty > 0

\* The version v of a row is the shop's, or the shop's is still to be told of,
\* by a writer or by an event after the n-th, or was missed.
Telling(s) == \E w \in Writer : Tell(s, shop[s]) \in Range(writer[w])
Coming(s, n) == \E e \in Event : e > n /\ timeline[e] = Tell(s, shop[s])
Good(s, v, n) == v = shop[s] \/ s \in missed \/ Telling(s) \/ Coming(s, n)

\* What the listener has read or copied is good without the event it is at.
HandOK ==
    /\ listener.at = "copying" => Good(This.about, listener.got, listener.event)
    /\ listener.at \in {"duties", "recording", "marking", "moving"} /\ This.about \in Copied =>
           Good(This.about, copy[This.about], listener.event)

BaseInv == TimelineTypeOK /\ ListenerOK

CopyInv == CopyCatchesUp /\ HandOK

\* The property as a statement about each copied thing.
LEMMA CatchesUpIs == CopyCatchesUp <=> \A s \in Copied : Good(s, copy[s], cursor)
BY DEF CopyCatchesUp, Good, Telling, Coming

\* What the type of the timeline gives the leaves of the proofs below.
LEMMA EventsAre ==
    ASSUME TimelineTypeOK
    PROVE  Event = 1 .. Len(timeline) /\ Len(timeline) \in Nat /\ \A e \in Event : timeline[e] \in TellType
BY DEF TimelineTypeOK, Event

\* The timeline with an event more.
LEMMA AppendIs ==
    ASSUME TimelineTypeOK, NEW told \in TellType, timeline' = Append(timeline, told)
    PROVE  /\ timeline' \in Seq(TellType) /\ Len(timeline') = Len(timeline) + 1
           /\ Event' = 1 .. Len(timeline') /\ Event \subseteq Event'
           /\ \A e \in Event : timeline'[e] = timeline[e]
           /\ timeline'[Len(timeline) + 1] = told /\ Len(timeline) + 1 \in Event'
BY AppendProperties, EventsAre DEF TimelineTypeOK, Event

\* A step of the shop's: the events there are stay, and the listener too.
LEMMA ShopBase ==
    ASSUME BaseInv, UNCHANGED listenerSide, timeline' \in Seq(TellType),
           Len(timeline) <= Len(timeline'), \A e \in Event : timeline'[e] = timeline[e],
           shop' \in [Thing -> Nat], writer' \in [Writer -> Seq(TellType)]
    PROVE  BaseInv' /\ (listener.at # "poll" => This' = This)
<1>1. UNCHANGED <<cursor, copy, listener, work>>
  BY DEF listenerSide
<1>2. Event = 1 .. Len(timeline) /\ Len(timeline) \in Nat /\ Len(timeline') \in Nat
  BY EventsAre DEF BaseInv
<1>3. listener.at # "poll" => This' = This
  BY <1>1, <1>2 DEF BaseInv, ListenerOK, TimelineTypeOK, This
<1>4. TimelineTypeOK'
  BY <1>1 DEF BaseInv, TimelineTypeOK
<1>5. ListenerOK'
  BY <1>1, <1>2, <1>3 DEF BaseInv, ListenerOK, TimelineTypeOK
<1>. QED  BY <1>3, <1>4, <1>5 DEF BaseInv

\* A change of the shop moves the shop of one thing by one.
LEMMA ShopCopies ==
    ASSUME BaseInv, CopyInv, UNCHANGED listenerSide, listener.at # "poll" => This' = This,
           \A s \in Copied : \A v, n \in Nat :
               n <= Len(timeline) /\ Good(s, v, n) => Good(s, v, n)'
    PROVE  CopyInv'
<1>1. UNCHANGED <<cursor, copy, listener, work>>
  BY DEF listenerSide
<1>2. CopyCatchesUp'
  <2>1. ASSUME NEW s \in Copied PROVE Good(s, copy[s], cursor)'
    <3>1. PICK v, n \in Nat : v = copy[s] /\ n = cursor /\ n <= Len(timeline)
      BY DEF BaseInv, TimelineTypeOK, ListenerOK
    <3>2. Good(s, v, n)
      BY <3>1, CatchesUpIs DEF CopyInv
    <3>3. Good(s, v, n)'
      BY <3>1, <3>2
    <3>. QED  BY <1>1, <3>1, <3>3 DEF Good, Coming
  <2>. QED  BY <2>1 DEF CopyCatchesUp, Good, Telling, Coming
<1>3. HandOK'
  <2>1. ASSUME listener.at = "copying" PROVE Good(This.about, listener.got, listener.event)'
    <3>1. /\ This.about \in Copied /\ This' = This /\ listener.event <= Len(timeline)
          /\ Good(This.about, listener.got, listener.event)
          /\ listener.got \in Nat /\ listener.event \in Nat
      BY <2>1 DEF BaseInv, TimelineTypeOK, ListenerOK, CopyInv, HandOK
    <3>2. PICK s \in Copied, v, n \in Nat :
             s = This.about /\ v = listener.got /\ n = listener.event
      BY <3>1
    <3>3. Good(s, v, n)'
      BY <3>1, <3>2
    <3>. QED  BY <1>1, <3>1, <3>2, <3>3 DEF Good, Telling, Coming
  <2>2. ASSUME listener.at \in {"duties", "recording", "marking", "moving"}, This'.about \in Copied
        PROVE  Good(This.about, copy[This.about], listener.event)'
    <3>1. /\ This.about \in Copied /\ This' = This /\ listener.event <= Len(timeline)
          /\ Good(This.about, copy[This.about], listener.event)
          /\ copy[This.about] \in Nat /\ listener.event \in Nat
      BY <2>2 DEF BaseInv, TimelineTypeOK, ListenerOK, CopyInv, HandOK
    <3>2. PICK s \in Copied, v, n \in Nat :
             s = This.about /\ v = copy[This.about] /\ n = listener.event
      BY <3>1
    <3>3. Good(s, v, n)'
      BY <3>1, <3>2
    <3>. QED  BY <1>1, <3>1, <3>2, <3>3 DEF Good, Telling, Coming
  <2>. QED  BY <1>1, <2>1, <2>2 DEF HandOK
<1>. QED  BY <1>2, <1>3 DEF CopyInv

\* A change of the shop is told by the events its writer has yet to emit.
LEMMA ChangeInv ==
    ASSUME BaseInv, CopyInv, NEW w \in Writer, Change(w)
    PROVE  BaseInv' /\ CopyInv'
<1>1. PICK op \in Operation : Write(w, op, Len(op))
  BY DEF Change
<1>2. op \in Seq(Thing)
  <2>1. CASE \E s \in Thing : op = <<s>>
    BY <2>1
  <2>2. CASE \E o, i \in Thing : op = <<o, i>>
    BY <2>2
  <2>. QED  BY <2>1, <2>2 DEF Operation, Thing, Copied
<1>3. /\ writer[w] = <<>> /\ UNCHANGED <<timeline, listenerSide>>
      /\ shop' = [s \in Thing |-> IF s \in Range(op) THEN shop[s] + 1 ELSE shop[s]]
      /\ writer' = [writer EXCEPT ![w] = [n \in 1 .. Len(op) |-> Tell(op[n], shop'[op[n]])]]
      /\ missed' = missed \ Range(op)
  BY <1>1 DEF Write
<1>4. shop' \in [Thing -> Nat]
  BY <1>3 DEF BaseInv, TimelineTypeOK
<1> DEFINE told == [n \in 1 .. Len(op) |-> Tell(op[n], shop'[op[n]])]
<1>5. told \in Seq(TellType) /\ DOMAIN told = 1 .. Len(op)
  <2>1. \A n \in 1 .. Len(op) : Tell(op[n], shop'[op[n]]) \in TellType
    BY <1>2, <1>4 DEF Tell, TellType
  <2>2. Len(op) \in Nat
    BY <1>2
  <2>. QED  BY <2>1, <2>2
<1>6. writer' \in [Writer -> Seq(TellType)]
  BY <1>3, <1>5 DEF BaseInv, TimelineTypeOK
<1>7. BaseInv' /\ (listener.at # "poll" => This' = This)
  <2>1. timeline' = timeline /\ Len(timeline) <= Len(timeline') /\ timeline' \in Seq(TellType)
    BY <1>3, EventsAre DEF BaseInv, TimelineTypeOK
  <2>. QED  BY <1>3, <1>4, <1>6, <2>1, ShopBase
<1>8. ASSUME NEW s \in Copied, NEW v \in Nat, NEW n \in Nat, Good(s, v, n) PROVE Good(s, v, n)'
  <2>0. s \in Thing
    BY DEF Thing
  <2>1. CASE s \in Range(op)
    <3>1. PICK m \in 1 .. Len(op) : op[m] = s
      BY <1>2, <2>1 DEF Range
    <3>2. told[m] = Tell(s, shop'[s]) /\ writer'[w] = told
      BY <1>3, <3>1 DEF BaseInv, TimelineTypeOK
    <3>3. Tell(s, shop'[s]) \in Range(writer'[w])
      BY <1>5, <3>1, <3>2 DEF Range
    <3>. QED  BY <3>3 DEF Good, Telling, Tell
  <2>2. CASE s \notin Range(op)
    <3>1. shop'[s] = shop[s] /\ (s \in missed' <=> s \in missed)
      BY <1>3, <2>0, <2>2
    <3>2. Coming(s, n)' <=> Coming(s, n)
      BY <1>3, <3>1 DEF Coming, Event, Tell
    <3>3. Telling(s) => Telling(s)'
      <4> SUFFICES ASSUME NEW u \in Writer, Tell(s, shop[s]) \in Range(writer[u])
                   PROVE  Telling(s)'
        BY DEF Telling
      <4>1. u # w
        BY <1>3 DEF Range
      <4>2. writer'[u] = writer[u]
        BY <1>3, <4>1 DEF BaseInv, TimelineTypeOK
      <4>3. Tell(s, shop'[s]) \in Range(writer'[u])
        BY <3>1, <4>2
      <4>. QED  BY <4>3 DEF Telling, Tell
    <3>. QED  BY <1>8, <3>1, <3>2, <3>3 DEF Good
  <2>. QED  BY <2>1, <2>2
<1>. QED  BY <1>3, <1>7, <1>8, ShopCopies

\* A step of the shop's that changes no row: what a writer had to tell it still
\* has, or it is an event after all others, or missed.
LEMMA TellingInv ==
    ASSUME BaseInv, CopyInv, UNCHANGED <<shop, listenerSide>>, timeline' \in Seq(TellType),
           Len(timeline) <= Len(timeline'), \A e \in Event : timeline'[e] = timeline[e],
           writer' \in [Writer -> Seq(TellType)], missed \subseteq missed',
           \A u \in Writer : \A told \in Range(writer[u]) :
               \/ told \in Range(writer'[u])
               \/ \E e \in Event' : e > Len(timeline) /\ timeline'[e] = told
               \/ Latest(told) => told.about \in missed'
    PROVE  BaseInv' /\ CopyInv'
<1>1. BaseInv' /\ (listener.at # "poll" => This' = This)
  BY ShopBase DEF BaseInv, TimelineTypeOK
<1>2. Event = 1 .. Len(timeline) /\ Len(timeline) \in Nat /\ Event' = 1 .. Len(timeline')
      /\ Len(timeline') \in Nat
  <2>1. timeline \in Seq(TellType) /\ timeline' \in Seq(TellType)
    BY DEF BaseInv, TimelineTypeOK
  <2>. QED  BY <2>1 DEF Event
<1>3. ASSUME NEW s \in Copied, NEW v \in Nat, NEW n \in Nat, n <= Len(timeline), Good(s, v, n)
      PROVE  Good(s, v, n)'
  <2>1. shop'[s] = shop[s]
    OBVIOUS
  <2>2. CASE v = shop[s] \/ s \in missed
    BY <2>1, <2>2 DEF Good
  <2>3. CASE Coming(s, n)
    <3>1. PICK e \in Event : e > n /\ timeline[e] = Tell(s, shop[s])
      BY <2>3 DEF Coming
    <3>2. e \in Event' /\ timeline'[e] = Tell(s, shop'[s])
      BY <1>2, <2>1, <3>1
    <3>. QED  BY <3>1, <3>2 DEF Good, Coming, Tell
  <2>4. CASE Telling(s)
    <3> DEFINE told == Tell(s, shop[s])
    <3>1. PICK u \in Writer : told \in Range(writer[u])
      BY <2>4 DEF Telling
    <3>2. told.about = s /\ Latest(told) /\ told = Tell(s, shop'[s])
      BY <2>1 DEF Tell, Latest
    <3> HIDE DEF told
    <3>3. CASE told \in Range(writer'[u])
      BY <3>2, <3>3 DEF Good, Telling, Tell
    <3>4. CASE \E e \in Event' : e > Len(timeline) /\ timeline'[e] = told
      <4>1. PICK e \in Event' : e > Len(timeline) /\ timeline'[e] = told
        BY <3>4
      <4>2. e > n
        BY <1>2, <1>3, <4>1
      <4>. QED  BY <3>2, <4>1, <4>2 DEF Good, Coming, Tell
    <3>5. CASE s \in missed'
      BY <3>5 DEF Good
    <3>. QED  BY <3>1, <3>2, <3>3, <3>4, <3>5
  <2>. QED  BY <1>3, <2>2, <2>3, <2>4 DEF Good
<1>. QED  BY <1>1, <1>3, ShopCopies

\* An event the writer emits tells of a change already made.
LEMMA EmitInv ==
    ASSUME BaseInv, CopyInv, NEW w \in Writer, Emit(w)
    PROVE  BaseInv' /\ CopyInv'
<1> DEFINE told == Head(writer[w])
<1>1. writer[w] \in Seq(TellType) /\ writer[w] # <<>>
  BY DEF Emit, BaseInv, TimelineTypeOK
<1>2. /\ told \in TellType /\ Tail(writer[w]) \in Seq(TellType)
      /\ \A t \in Range(writer[w]) : t = told \/ t \in Range(Tail(writer[w]))
  <2>1. /\ told \in TellType /\ Tail(writer[w]) \in Seq(TellType) /\ told = writer[w][1]
        /\ Len(writer[w]) \in Nat /\ Len(Tail(writer[w])) = Len(writer[w]) - 1
        /\ \A n \in 1 .. Len(Tail(writer[w])) : Tail(writer[w])[n] = writer[w][n + 1]
    BY <1>1, HeadTailProperties
  <2>2. ASSUME NEW t \in Range(writer[w]), t # told PROVE t \in Range(Tail(writer[w]))
    <3>1. PICK n \in 1 .. Len(writer[w]) : writer[w][n] = t
      BY <1>1 DEF Range
    <3>2. n - 1 \in 1 .. Len(Tail(writer[w])) /\ (n - 1) + 1 = n
      BY <2>1, <2>2, <3>1
    <3>3. Tail(writer[w])[n - 1] = t
      BY <2>1, <3>1, <3>2
    <3>4. DOMAIN Tail(writer[w]) = 1 .. Len(Tail(writer[w]))
      BY <2>1
    <3>. QED  BY <3>2, <3>3, <3>4 DEF Range
  <2>. QED  BY <2>1, <2>2
<1>3. /\ timeline' = Append(timeline, told) /\ writer' = [writer EXCEPT ![w] = Tail(writer[w])]
      /\ UNCHANGED <<shop, listenerSide, missed>>
  BY DEF Emit
<1> HIDE DEF told
<1>4. /\ timeline' \in Seq(TellType) /\ Len(timeline') = Len(timeline) + 1
      /\ \A e \in Event : timeline'[e] = timeline[e]
      /\ timeline'[Len(timeline) + 1] = told /\ Len(timeline) + 1 \in Event'
  BY <1>2, <1>3, AppendIs DEF BaseInv
<1>5. Len(timeline) \in Nat
  BY EventsAre DEF BaseInv
<1>6. /\ writer' \in [Writer -> Seq(TellType)]
      /\ \A u \in Writer : writer'[u] = IF u = w THEN Tail(writer[w]) ELSE writer[u]
  BY <1>2, <1>3 DEF BaseInv, TimelineTypeOK
<1>7. ASSUME NEW u \in Writer, NEW t \in Range(writer[u])
      PROVE  t \in Range(writer'[u]) \/ \E e \in Event' : e > Len(timeline) /\ timeline'[e] = t
  <2>1. CASE u = w /\ t = told
    <3>1. Len(timeline) + 1 > Len(timeline)
      BY <1>5
    <3>. QED  BY <1>4, <2>1, <3>1
  <2>2. CASE u # w \/ t # told
    <3>1. t \in Range(writer'[u])
      BY <1>2, <1>6, <2>2
    <3>. QED  BY <3>1
  <2>. QED  BY <2>1, <2>2
<1>8. Len(timeline) <= Len(timeline') /\ missed \subseteq missed' /\ UNCHANGED <<shop, listenerSide>>
  BY <1>3, <1>4, <1>5
<1>9. timeline' \in Seq(TellType) /\ \A e \in Event : timeline'[e] = timeline[e]
  BY <1>4
<1>10. writer' \in [Writer -> Seq(TellType)]
  BY <1>6
<1>. QED  BY <1>7, <1>8, <1>9, <1>10, TellingInv

\* A writer that dies has its untold changes noted as missed.
LEMMA WriterDiesInv ==
    ASSUME BaseInv, CopyInv, NEW w \in Writer, WriterDies(w)
    PROVE  BaseInv' /\ CopyInv'
<1>1. /\ missed' = missed \cup {told.about : told \in {t \in Range(writer[w]) : Latest(t)}}
      /\ writer' = [writer EXCEPT ![w] = <<>>] /\ UNCHANGED <<shop, timeline, listenerSide>>
  BY DEF WriterDies
<1>2. /\ writer' \in [Writer -> Seq(TellType)]
      /\ \A u \in Writer : u # w => writer'[u] = writer[u]
  BY <1>1 DEF BaseInv, TimelineTypeOK
<1>3. ASSUME NEW u \in Writer, NEW t \in Range(writer[u])
      PROVE  t \in Range(writer'[u]) \/ (Latest(t) => t.about \in missed')
  BY <1>1, <1>2
<1>4. timeline' \in Seq(TellType) /\ Len(timeline) <= Len(timeline') /\ timeline' = timeline
  BY <1>1, EventsAre DEF BaseInv, TimelineTypeOK
<1>. QED  BY <1>1, <1>2, <1>3, <1>4, TellingInv

\* An event of a tool about nothing copied changes nothing.
LEMMA EmitToolEventInv ==
    ASSUME BaseInv, CopyInv, EmitToolEvent
    PROVE  BaseInv' /\ CopyInv'
<1>1. /\ timeline' = Append(timeline, Tell(Echo, 0)) /\ UNCHANGED <<shopSide, listenerSide, missed>>
  BY DEF EmitToolEvent
<1>2. Tell(Echo, 0) \in TellType
  BY DEF Tell, TellType
<1>3. /\ timeline' \in Seq(TellType) /\ Len(timeline') = Len(timeline) + 1
      /\ \A e \in Event : timeline'[e] = timeline[e]
  BY <1>1, <1>2, AppendIs DEF BaseInv
<1>4. Len(timeline) <= Len(timeline')
  BY <1>3, EventsAre DEF BaseInv
<1>5. writer' = writer /\ shop' = shop /\ writer' \in [Writer -> Seq(TellType)]
  BY <1>1 DEF shopSide, BaseInv, TimelineTypeOK
<1>. QED  BY <1>1, <1>3, <1>4, <1>5, TellingInv

\* A step of the listener's that copies nothing and does not move the cursor.
LEMMA ListenerInv ==
    ASSUME BaseInv, CopyInv, UNCHANGED <<shopSide, timeline, cursor, copy>>, missed \subseteq missed',
           listener' \in [at : Stage, event : Nat, duty : Nat, got : Nat], work' \in WorkType,
           ListenerOK', HandOK'
    PROVE  BaseInv' /\ CopyInv'
<1>1. UNCHANGED <<shop, writer>>
  BY DEF shopSide
<1>2. BaseInv'
  BY <1>1 DEF BaseInv, TimelineTypeOK
<1>3. CopyCatchesUp'
  BY <1>1 DEF CopyInv, CopyCatchesUp, Event, Tell
<1>. QED  BY <1>2, <1>3 DEF CopyInv

\* What is good stays so as long as the listener works.
LEMMA GoodStays ==
    ASSUME UNCHANGED <<shopSide, timeline>>, missed \subseteq missed', NEW s, NEW v, NEW n, Good(s, v, n)
    PROVE  Good(s, v, n)'
BY DEF shopSide, Good, Telling, Coming, Tell, Event

\* Every step of the shop's writers and of the listener keeps the copy on its way.
LEMMA CopyInvNext ==
    ASSUME BaseInv, CopyInv, [TimelineNext]_timelineVars
    PROVE  BaseInv' /\ CopyInv'
<1>0. /\ listener \in [at : Stage, event : Nat, duty : Nat, got : Nat] /\ work \in WorkType
      /\ cursor \in Nat /\ Len(timeline) \in Nat /\ cursor <= Len(timeline)
      /\ Event = 1 .. Len(timeline) /\ \A e \in Event : timeline[e] \in TellType
      /\ shop \in [Thing -> Nat] /\ copy \in [Copied -> Nat]
  BY EventsAre DEF BaseInv, TimelineTypeOK, ListenerOK
<1>00. listener.at # "poll" => /\ listener.event = cursor + 1 /\ listener.event \in Event
                               /\ This \in TellType
  BY <1>0 DEF BaseInv, ListenerOK, This
<1>1. CASE UNCHANGED timelineVars
  BY <1>1 DEF timelineVars, BaseInv, TimelineTypeOK, ListenerOK, This, CopyInv, CopyCatchesUp,
     HandOK, Good, Telling, Coming, Event, Tell
<1>2. ASSUME NEW w \in Writer, Change(w) \/ Emit(w) \/ WriterDies(w) PROVE BaseInv' /\ CopyInv'
  BY <1>2, ChangeInv, EmitInv, WriterDiesInv
<1>3. ASSUME EmitToolEvent PROVE BaseInv' /\ CopyInv'
  BY <1>3, EmitToolEventInv
<1>4. ASSUME PollTimeline PROVE BaseInv' /\ CopyInv'
  <2>1. /\ listener' = [Resting EXCEPT !.at = FirstStep(cursor + 1), !.event = cursor + 1, !.duty = 1]
        /\ cursor < Len(timeline) /\ UNCHANGED <<shopSide, timeline, cursor, copy, work, missed>>
    BY <1>4 DEF PollTimeline
  <2>2. /\ cursor + 1 \in Event
        /\ timeline[cursor + 1].about = Echo => FirstStep(cursor + 1) = "marking"
        /\ timeline[cursor + 1].about \in Copied => FirstStep(cursor + 1) = "fetching"
        /\ timeline[cursor + 1].about \notin Copied \cup {Echo} => FirstStep(cursor + 1) = "duties"
    BY <1>0, <2>1, EchoAssumption DEF FirstStep, Thing
  <2>3. FirstStep(cursor + 1) \in {"fetching", "marking", "duties"}
    BY <2>2
  <2>4. /\ listener' \in [at : Stage, event : Nat, duty : Nat, got : Nat]
        /\ listener'.at = FirstStep(cursor + 1) /\ listener'.event = cursor + 1 /\ listener'.duty = 1
    <3>1. PICK first \in {"fetching", "marking", "duties"} : first = FirstStep(cursor + 1)
      BY <2>3
    <3>2. listener' = [at |-> first, event |-> cursor + 1, duty |-> 1, got |-> 0]
      BY <2>1, <3>1 DEF Resting
    <3>. QED  BY <1>0, <3>1, <3>2 DEF Stage
  <2>5. This' = timeline[cursor + 1]
    BY <2>1, <2>4 DEF This
  <2>6. ListenerOK'
    BY <1>0, <2>1, <2>2, <2>4, <2>5 DEF ListenerOK
  <2>7. HandOK'
    BY <2>2, <2>4, <2>5, EchoAssumption DEF HandOK, Thing
  <2>. QED  BY <1>0, <2>1, <2>4, <2>6, <2>7, ListenerInv
<1>5. ASSUME Fetch PROVE BaseInv' /\ CopyInv'
  <2>1. /\ listener.at = "fetching" /\ This.about \in Copied
        /\ listener' = [listener EXCEPT !.at = "copying", !.got = shop[This.about]]
        /\ UNCHANGED <<shopSide, timeline, cursor, copy, work, missed>>
    BY <1>5 DEF Fetch, BaseInv, ListenerOK
  <2>2. shop[This.about] \in Nat
    BY <1>0, <2>1 DEF Thing
  <2>3. /\ listener' \in [at : Stage, event : Nat, duty : Nat, got : Nat]
        /\ listener'.at = "copying" /\ listener'.event = listener.event
        /\ listener'.got = shop[This.about] /\ listener'.duty = listener.duty
    BY <1>0, <2>1, <2>2 DEF Stage
  <2>4. This' = This /\ shop' = shop
    BY <2>1, <2>3 DEF This, shopSide
  <2>5. ListenerOK'
    BY <1>00, <1>0, <2>1, <2>3, <2>4 DEF ListenerOK, BaseInv
  <2>6. HandOK'
    BY <2>3, <2>4 DEF HandOK, Good
  <2>. QED  BY <1>0, <2>1, <2>3, <2>5, <2>6, ListenerInv
<1>6. ASSUME NEW there \in {"duties", "recording", "marking", "moving"},
             there = "duties" => listener.at = "duties" /\ listener'.duty > 0,
             UNCHANGED <<shopSide, timeline, cursor, copy>>, missed \subseteq missed',
             listener.at # "poll", listener' \in [at : Stage, event : Nat, duty : Nat, got : Nat],
             listener'.at = there, listener'.event = listener.event, work' \in WorkType,
             \/ listener.at \in {"duties", "recording", "marking", "moving"}
             \/ Latest(This) => This.about \in missed'
      PROVE  BaseInv' /\ CopyInv'
  <2>1. This' = This /\ shop' = shop /\ copy' = copy
    BY <1>6 DEF This, shopSide
  <2>2. ListenerOK'
    BY <1>00, <1>0, <1>6, <2>1 DEF ListenerOK, BaseInv
  <2>3. HandOK'
    <3> SUFFICES ASSUME This.about \in Copied PROVE Good(This.about, copy[This.about], listener.event)'
      BY <1>6, <2>1 DEF HandOK
    <3>1. PICK s \in Copied, v \in Nat, n \in Nat :
             s = This.about /\ v = copy[This.about] /\ n = listener.event /\ n = cursor + 1
      BY <1>0, <1>00, <1>6
    <3>2. CASE listener.at \in {"duties", "recording", "marking", "moving"}
      <4>1. Good(s, v, n)
        BY <3>1, <3>2 DEF CopyInv, HandOK
      <4>2. Good(s, v, n)'
        BY <1>6, <4>1, GoodStays
      <4>. QED  BY <1>6, <2>1, <3>1, <4>2 DEF Good, Telling, Coming
    <3>3. CASE Latest(This) => This.about \in missed'
      <4>1. CASE Latest(This)
        BY <2>1, <3>3, <4>1 DEF Good
      <4>2. CASE ~Latest(This)
        <5>1. This.version # shop[s]
          BY <3>1, <4>2 DEF Latest
        <5>2. Good(s, v, cursor)
          BY <3>1, CatchesUpIs DEF CopyInv
        <5>3. Coming(s, cursor) => Coming(s, n)
          <6> SUFFICES ASSUME NEW e \in Event, e > cursor, timeline[e] = Tell(s, shop[s])
                       PROVE  Coming(s, n)
            BY DEF Coming
          <6>1. e # n
            BY <3>1, <5>1 DEF This, Tell
          <6>2. e > n
            BY <1>0, <3>1, <6>1
          <6>. QED  BY <6>2 DEF Coming
        <5>4. Good(s, v, n)
          BY <5>2, <5>3 DEF Good
        <5>5. Good(s, v, n)'
          BY <1>6, <5>4, GoodStays
        <5>. QED  BY <1>6, <2>1, <3>1, <5>5 DEF Good, Telling, Coming
      <4>. QED  BY <4>1, <4>2
    <3>. QED  BY <1>6, <3>2, <3>3
  <2>. QED  BY <1>6, <2>2, <2>3, ListenerInv
<1>7. ASSUME Upsert PROVE BaseInv' /\ CopyInv'
  <2> DEFINE s == This.about
  <2>1. /\ listener.at = "copying" /\ s \in Copied /\ listener.duty = 1
        /\ copy' = [copy EXCEPT ![s] = listener.got] /\ listener' = [listener EXCEPT !.at = "duties"]
        /\ UNCHANGED <<shopSide, timeline, cursor, work, missed>>
    BY <1>7 DEF Upsert, GoOn, BaseInv, ListenerOK
  <2>2. /\ listener' \in [at : Stage, event : Nat, duty : Nat, got : Nat]
        /\ listener'.at = "duties" /\ listener'.event = listener.event /\ listener'.duty = 1
    BY <1>0, <2>1 DEF Stage
  <2>3. This' = This /\ shop' = shop /\ writer' = writer
    BY <2>1, <2>2 DEF This, shopSide
  <2>4. copy' \in [Copied -> Nat]
    BY <1>0, <2>1
  <2>5. This.about # Echo
    BY <2>1, EchoAssumption DEF Thing
  <2>6. BaseInv'
    BY <1>00, <1>0, <2>1, <2>2, <2>3, <2>4, <2>5 DEF BaseInv, TimelineTypeOK, ListenerOK
  <2>7. Good(s, listener.got, listener.event)
    BY <2>1 DEF CopyInv, HandOK
  <2>8. copy'[s] = listener.got
    BY <1>0, <2>1
  <2>9. HandOK'
    <3>1. PICK x \in Copied, v \in Nat, n \in Nat : x = s /\ v = listener.got /\ n = listener.event
      BY <1>0, <2>1
    <3>2. Good(x, v, n)'
      BY <2>1, <2>7, <3>1, GoodStays
    <3>3. x = This'.about /\ v = copy'[This'.about] /\ n = listener'.event
      BY <2>2, <2>3, <2>8, <3>1
    <3>. QED  BY <2>2, <3>2, <3>3 DEF HandOK, Good, Telling, Coming
  <2>10. CopyCatchesUp'
    <3> SUFFICES ASSUME NEW x \in Copied PROVE Good(x, copy[x], cursor)'
      BY DEF CopyCatchesUp, Good, Telling, Coming
    <3>1. PICK v \in Nat, n \in Nat : v = copy'[x] /\ n = cursor
      BY <1>0, <2>4
    <3>2. Good(x, v, n)
      <4>1. CASE x = s
        <5>1. listener.event > n
          BY <1>0, <1>00, <2>1, <3>1
        <5>2. Coming(x, listener.event) => Coming(x, n)
          BY <1>0, <1>00, <2>1, <3>1 DEF Coming
        <5>. QED  BY <2>7, <2>8, <3>1, <4>1, <5>2 DEF Good
      <4>2. CASE x # s
        <5>1. copy'[x] = copy[x]
          BY <1>0, <2>1, <4>2
        <5>. QED  BY <3>1, <5>1, CatchesUpIs DEF CopyInv
      <4>. QED  BY <4>1, <4>2
    <3>3. Good(x, v, n)'
      BY <2>1, <3>2, GoodStays
    <3>. QED  BY <2>1, <3>1, <3>3 DEF Good, Coming
  <2>. QED  BY <2>6, <2>9, <2>10 DEF CopyInv
<1>8. ASSUME TryDuty PROVE BaseInv' /\ CopyInv'
  <2>1. /\ listener.at = "duties" /\ listener.duty <= Duties /\ listener.duty > 0
        /\ work' = [work EXCEPT !.tried[listener.duty] = @ + 1]
        /\ UNCHANGED <<shopSide, timeline, cursor, copy, missed>>
    BY <1>8 DEF TryDuty, BaseInv, ListenerOK
  <2>2. work' \in WorkType
    <3>1. work.tried \in [1 .. Duties -> Nat] /\ listener.duty \in 1 .. Duties
      BY <1>0, <2>1, TimelineAssumption DEF WorkType
    <3>2. work' = [work EXCEPT !.tried = [work.tried EXCEPT ![listener.duty] = work.tried[listener.duty] + 1]]
      BY <2>1
    <3>3. work.tried[listener.duty] \in Nat
      BY <3>1
    <3>4. work.tried[listener.duty] + 1 \in Nat
      BY <3>3
    <3>5. [work.tried EXCEPT ![listener.duty] = work.tried[listener.duty] + 1] \in [1 .. Duties -> Nat]
      BY <3>1, <3>4
    <3>. QED  BY <1>0, <3>2, <3>5 DEF WorkType
  <2>3. CASE listener' = AfterDuty
    <3>1. PICK there \in {"marking", "duties"} :
             listener' = [listener EXCEPT !.duty = listener.duty + 1, !.at = there]
      BY <2>1, <2>3 DEF AfterDuty
    <3>2. /\ listener' \in [at : Stage, event : Nat, duty : Nat, got : Nat]
          /\ listener'.at = there /\ listener'.event = listener.event /\ listener'.duty > 0
      <4>1. listener.duty \in Nat
        BY <1>0
      <4>2. PICK next \in Nat : next = listener.duty + 1 /\ next > 0
        BY <4>1
      <4>3. listener' = [listener EXCEPT !.duty = next, !.at = there]
        BY <3>1, <4>2
      <4>. QED  BY <1>0, <4>2, <4>3 DEF Stage
    <3>. QED  BY <1>6, <2>1, <2>2, <3>2
  <2>4. CASE GoOn("recording")
    <3>1. /\ listener' \in [at : Stage, event : Nat, duty : Nat, got : Nat]
          /\ listener'.at = "recording" /\ listener'.event = listener.event
      BY <1>0, <2>4 DEF Stage, GoOn
    <3>. QED  BY <1>6, <2>1, <2>2, <3>1
  <2>. QED  BY <1>8, <2>3, <2>4 DEF TryDuty
<1>9. ASSUME PassOver PROVE BaseInv' /\ CopyInv'
  <2>1. /\ listener.at = "duties" /\ work' = [work EXCEPT !.passedOver = TRUE]
        /\ UNCHANGED <<shopSide, timeline, cursor, copy, missed>>
    BY <1>9 DEF PassOver
  <2>2. work' \in WorkType
    BY <1>0, <2>1 DEF WorkType
  <2>3. PICK there \in {"marking", "duties"} :
           listener' = [listener EXCEPT !.duty = Structured + 1, !.at = there]
    BY <1>9, <2>1 DEF PassOver
  <2>4. /\ listener' \in [at : Stage, event : Nat, duty : Nat, got : Nat]
        /\ listener'.at = there /\ listener'.event = listener.event /\ listener'.duty > 0
    <3>1. PICK next \in Nat : next = Structured + 1 /\ next > 0
      BY TimelineAssumption
    <3>2. listener' = [listener EXCEPT !.duty = next, !.at = there]
      BY <2>3, <3>1
    <3>. QED  BY <1>0, <3>1, <3>2 DEF Stage
  <2>. QED  BY <1>6, <2>1, <2>2, <2>4
<1>10. ASSUME Raise PROVE BaseInv' /\ CopyInv'
  <2>1. /\ listener.at \in {"fetching", "copying", "duties", "marking"}
        /\ listener' = [listener EXCEPT !.at = "recording"]
        /\ UNCHANGED <<shopSide, timeline, cursor, copy, work>> /\ missed \subseteq missed'
        /\ listener.at \in {"fetching", "copying"} /\ Latest(This) => This.about \in missed'
    BY <1>10 DEF Raise, BreakOff, GoOn
  <2>2. /\ listener' \in [at : Stage, event : Nat, duty : Nat, got : Nat]
        /\ listener'.at = "recording" /\ listener'.event = listener.event
    BY <1>0, <2>1 DEF Stage
  <2>. QED  BY <1>0, <1>6, <2>1, <2>2
<1>11. ASSUME Mark PROVE BaseInv' /\ CopyInv'
  <2>1. /\ listener.at = "marking" /\ listener' = [listener EXCEPT !.at = "moving"]
        /\ work' = [work EXCEPT !.mark = "processed"]
        /\ UNCHANGED <<shopSide, timeline, cursor, copy, missed>>
    BY <1>11 DEF Mark, GoOn, SetMark
  <2>2. /\ listener' \in [at : Stage, event : Nat, duty : Nat, got : Nat] /\ work' \in WorkType
        /\ listener'.at = "moving" /\ listener'.event = listener.event
    BY <1>0, <2>1 DEF Stage, WorkType
  <2>. QED  BY <1>6, <2>1, <2>2
<1>12. ASSUME RecordError PROVE BaseInv' /\ CopyInv'
  <2>1. /\ listener.at = "recording" /\ listener' = [listener EXCEPT !.at = "moving"]
        /\ work' = [work EXCEPT !.mark = "error"] \/ work' = [work EXCEPT !.unrecorded = TRUE]
        /\ UNCHANGED <<shopSide, timeline, cursor, copy, missed>>
    BY <1>12 DEF RecordError, GoOn, SetMark
  <2>2. /\ listener' \in [at : Stage, event : Nat, duty : Nat, got : Nat] /\ work' \in WorkType
        /\ listener'.at = "moving" /\ listener'.event = listener.event
    BY <1>0, <2>1 DEF Stage, WorkType
  <2>. QED  BY <1>6, <2>1, <2>2
<1>13. /\ Resting \in [at : Stage, event : Nat, duty : Nat, got : Nat] /\ Resting.at = "poll"
       /\ NoWork \in WorkType
  BY DEF Resting, Stage, NoWork, WorkType
<1>14. ASSUME MoveCursor PROVE BaseInv' /\ CopyInv'
  <2>1. /\ listener.at = "moving" /\ cursor' = listener.event /\ work' = NoWork /\ listener' = Resting
        /\ UNCHANGED <<shopSide, timeline, copy, missed>>
    BY <1>14 DEF MoveCursor, MoveTo
  <2>2. BaseInv'
    BY <1>0, <1>00, <1>13, <2>1 DEF BaseInv, TimelineTypeOK, ListenerOK, shopSide
  <2>3. CopyCatchesUp'
    <3> SUFFICES ASSUME NEW x \in Copied PROVE Good(x, copy[x], cursor)'
      BY DEF CopyCatchesUp, Good, Telling, Coming
    <3>1. PICK v \in Nat, n \in Nat : v = copy[x] /\ n = listener.event
      BY <1>0
    <3>2. Good(x, v, n)
      <4>1. CASE x = This.about
        BY <2>1, <3>1, <4>1 DEF CopyInv, HandOK
      <4>2. CASE x # This.about
        <5>1. Good(x, v, cursor)
          BY <3>1, CatchesUpIs DEF CopyInv
        <5>2. Coming(x, cursor) => Coming(x, n)
          <6> SUFFICES ASSUME NEW e \in Event, e > cursor, timeline[e] = Tell(x, shop[x])
                       PROVE  Coming(x, n)
            BY DEF Coming
          <6>1. e # n
            BY <3>1, <4>2 DEF This, Tell
          <6>2. e > n
            BY <1>0, <1>00, <2>1, <3>1, <6>1
          <6>. QED  BY <6>2 DEF Coming
        <5>. QED  BY <5>1, <5>2 DEF Good
      <4>. QED  BY <4>1, <4>2
    <3>3. Good(x, v, n)'
      BY <2>1, <3>2, GoodStays
    <3>. QED  BY <2>1, <3>1, <3>3 DEF Good, Coming
  <2>4. HandOK'
    BY <1>13, <2>1 DEF HandOK
  <2>. QED  BY <2>2, <2>3, <2>4 DEF CopyInv
<1>15. ASSUME CutOff PROVE BaseInv' /\ CopyInv'
  <2>1. /\ work' = [work EXCEPT !.cut = work.cut + 1, !.interrupted = FALSE] /\ listener' = Resting
        /\ UNCHANGED <<shopSide, timeline, cursor, copy, missed>>
    BY <1>15 DEF CutOff
  <2>2. work' \in WorkType
    <3>1. work.cut \in Nat
      BY <1>0 DEF WorkType
    <3>2. work.cut + 1 \in Nat
      BY <3>1
    <3>. QED  BY <1>0, <2>1, <3>2 DEF WorkType
  <2>3. ListenerOK' /\ HandOK'
    BY <1>0, <1>13, <2>1 DEF ListenerOK, HandOK
  <2>. QED  BY <1>13, <2>1, <2>2, <2>3, ListenerInv
<1>16. ASSUME Interrupted PROVE BaseInv' /\ CopyInv'
  <2>1. /\ listener.at \in {"fetching", "copying", "duties", "marking", "recording"}
        /\ listener' = [listener EXCEPT !.at = "moving"] /\ work' = [work EXCEPT !.interrupted = TRUE]
        /\ UNCHANGED <<shopSide, timeline, cursor, copy>> /\ missed \subseteq missed'
        /\ listener.at \in {"fetching", "copying"} /\ Latest(This) => This.about \in missed'
    BY <1>16 DEF Interrupted, BreakOff, GoOn
  <2>2. /\ listener' \in [at : Stage, event : Nat, duty : Nat, got : Nat] /\ work' \in WorkType
        /\ listener'.at = "moving" /\ listener'.event = listener.event
    BY <1>0, <2>1 DEF Stage, WorkType
  <2>. QED  BY <1>0, <1>6, <2>1, <2>2
<1>. QED  BY <1>1, <1>2, <1>3, <1>4, <1>5, <1>7, <1>8, <1>9, <1>10, <1>11, <1>12, <1>14, <1>15, <1>16 DEF
             TimelineNext

\* The copy is the shop at first.
LEMMA CopyInvInit == TimelineInit => BaseInv /\ CopyInv
<1> SUFFICES ASSUME TimelineInit PROVE BaseInv /\ CopyInv
  OBVIOUS
<1>1. /\ timeline = <<>> /\ Len(timeline) = 0 /\ timeline \in Seq(TellType)
      /\ <<>> \in Seq(TellType)
  BY EmptySeq DEF TimelineInit
<1>2. /\ listener \in [at : Stage, event : Nat, duty : Nat, got : Nat] /\ listener.at = "poll"
      /\ work \in WorkType
  BY DEF TimelineInit, Resting, Stage, NoWork, WorkType
<1>3. TimelineTypeOK /\ ListenerOK /\ HandOK
  BY <1>1, <1>2 DEF TimelineInit, TimelineTypeOK, ListenerOK, HandOK
<1>4. CopyCatchesUp
  BY DEF TimelineInit, CopyCatchesUp, Copied, Thing
<1>. QED  BY <1>3, <1>4 DEF BaseInv, CopyInv

\* The copy of a thing catches up with the shop once the events past the cursor are
\* applied, unless its event was never written, or ended in an error or an interrupt
\* before the copy (listener.py).
THEOREM CopyCatchesUpHolds == TimelineSpec => []CopyCatchesUp
<1>1. BaseInv /\ CopyInv => CopyCatchesUp
  BY DEF CopyInv
<1>. QED  BY CopyInvInit, CopyInvNext, <1>1, PTL DEF TimelineSpec

\* The event at hand is one that a tool emitted.
AtEcho == cursor + 1 \in Event /\ timeline[cursor + 1].about = Echo

\* A duty is tried once in a round, and a round ends once it is cut off.
TriedOK ==
    \A d \in 1 .. Duties :
        work.tried[d] <= IF AtEcho THEN 0
                         ELSE IF \/ listener.at \in {"poll", "fetching", "copying"}
                                 \/ listener.at = "duties" /\ listener.duty <= d
                              THEN work.cut ELSE 1 + work.cut

Finished(d) == work.tried[d] > 0 \/ (work.passedOver /\ d <= Structured)

\* The duties before the one at hand were tried or passed over.
DutiesOK ==
    listener.at \in {"duties", "marking"} /\ ~AtEcho =>
        \A d \in 1 .. Duties : listener.at = "marking" \/ d < listener.duty => Finished(d)

MovingOK ==
    listener.at = "moving" =>
        \/ work.mark = "error" \/ work.unrecorded \/ work.interrupted
        \/ work.mark = "processed" /\ (AtEcho \/ \A d \in 1 .. Duties : Finished(d))

WorkOK ==
    /\ cursor = Len(timeline) => work = NoWork
    /\ TriedOK /\ DutiesOK /\ MovingOK

\* The listener holds no event at first.
LEMMA WorkOKInit == TimelineInit => WorkOK
<1> SUFFICES ASSUME TimelineInit PROVE WorkOK
  OBVIOUS
<1>1. work = NoWork /\ listener.at = "poll" /\ NoWork.cut = 0 /\ \A d \in 1 .. Duties : NoWork.tried[d] = 0
  BY DEF TimelineInit, NoWork, Resting
<1>. QED  BY <1>1 DEF WorkOK, TriedOK, DutiesOK, MovingOK

\* A step of the shop's only adds events.
LEMMA ShopWork ==
    ASSUME BaseInv, WorkOK, UNCHANGED listenerSide, timeline' \in Seq(TellType),
           Len(timeline) <= Len(timeline'), \A e \in Event : timeline'[e] = timeline[e]
    PROVE  WorkOK'
<1>1. UNCHANGED <<cursor, listener, work>>
  BY DEF listenerSide
<1>2. /\ Event = 1 .. Len(timeline) /\ Len(timeline) \in Nat /\ cursor \in Nat
      /\ Len(timeline') \in Nat /\ Event' = 1 .. Len(timeline') /\ cursor <= Len(timeline)
  BY EventsAre DEF BaseInv, TimelineTypeOK, ListenerOK, Event
<1>3. CASE cursor = Len(timeline)
  <2>1. work' = NoWork /\ listener'.at = "poll"
    BY <1>1, <1>2, <1>3 DEF WorkOK, BaseInv, ListenerOK
  <2>2. NoWork.cut = 0 /\ \A d \in 1 .. Duties : NoWork.tried[d] = 0
    BY DEF NoWork
  <2>. QED  BY <2>1, <2>2 DEF WorkOK, TriedOK, DutiesOK, MovingOK
<1>4. CASE cursor # Len(timeline)
  <2>1. cursor + 1 \in Event /\ cursor' + 1 \in Event' /\ cursor' # Len(timeline')
    BY <1>1, <1>2, <1>4
  <2>2. AtEcho' <=> AtEcho
    BY <1>1, <2>1 DEF AtEcho
  <2>. QED  BY <1>1, <2>1, <2>2 DEF WorkOK, TriedOK, DutiesOK, MovingOK, Finished
<1>. QED  BY <1>3, <1>4

\* Every step of the listener keeps the duties of the event it holds in order.
LEMMA WorkOKNext ==
    ASSUME BaseInv, WorkOK, BaseInv', [TimelineNext]_timelineVars
    PROVE  WorkOK' /\ \A e \in Event : cursor < e /\ e <= cursor' => TakenUp(e)
<1> DEFINE Taken == \A e \in Event : cursor < e /\ e <= cursor' => TakenUp(e)
<1>0. /\ work \in WorkType /\ work.tried \in [1 .. Duties -> Nat] /\ work.cut \in Nat
      /\ listener.duty \in Nat
      /\ cursor \in Nat /\ Len(timeline) \in Nat /\ cursor <= Len(timeline)
      /\ Event = 1 .. Len(timeline)
  BY EventsAre DEF BaseInv, TimelineTypeOK, ListenerOK, WorkType
<1>1. cursor' = cursor => Taken
  BY <1>0
<1>2. listener.at # "poll" => /\ listener.event = cursor + 1 /\ cursor < Len(timeline)
                              /\ cursor + 1 \in Event /\ This = timeline[cursor + 1]
  BY <1>0 DEF BaseInv, ListenerOK, This
<1>3. listener.at = "duties" => ~AtEcho
  BY <1>2 DEF BaseInv, ListenerOK, AtEcho
<1>4. UNCHANGED <<timeline, cursor>> => (AtEcho' <=> AtEcho)
  BY DEF AtEcho, Event
<1>5. CASE UNCHANGED timelineVars
  <2>1. UNCHANGED <<timeline, cursor, listener, work>>
    BY <1>5 DEF timelineVars
  <2>2. WorkOK'
    BY <1>4, <2>1 DEF WorkOK, TriedOK, DutiesOK, MovingOK, Finished
  <2>. QED  BY <1>1, <2>1, <2>2
<1>6. ASSUME NEW w \in Writer, Change(w) \/ Emit(w) \/ WriterDies(w) PROVE WorkOK' /\ Taken
  <2>1. UNCHANGED listenerSide /\ timeline' \in Seq(TellType)
    BY <1>6 DEF Change, Write, Emit, WriterDies, BaseInv, TimelineTypeOK
  <2>2. Len(timeline) <= Len(timeline') /\ \A e \in Event : timeline'[e] = timeline[e]
    <3>1. CASE timeline' = timeline
      BY <1>0, <3>1
    <3>2. CASE Emit(w)
      <4>1. Head(writer[w]) \in TellType
        BY <3>2 DEF Emit, BaseInv, TimelineTypeOK
      <4>2. timeline' = Append(timeline, Head(writer[w]))
        BY <3>2 DEF Emit
      <4>. QED  BY <1>0, <4>1, <4>2, AppendIs DEF BaseInv
    <3>. QED  BY <1>6, <3>1, <3>2 DEF Change, Write, WriterDies
  <2>3. cursor' = cursor
    BY <2>1 DEF listenerSide
  <2>. QED  BY <1>1, <2>1, <2>2, <2>3, ShopWork
<1>7. ASSUME EmitToolEvent PROVE WorkOK' /\ Taken
  <2>1. /\ timeline' = Append(timeline, Tell(Echo, 0)) /\ UNCHANGED listenerSide
        /\ Tell(Echo, 0) \in TellType
    BY <1>7 DEF EmitToolEvent, Tell, TellType
  <2>2. /\ timeline' \in Seq(TellType) /\ Len(timeline) <= Len(timeline')
        /\ \A e \in Event : timeline'[e] = timeline[e]
    BY <1>0, <2>1, AppendIs DEF BaseInv
  <2>3. cursor' = cursor
    BY <2>1 DEF listenerSide
  <2>. QED  BY <1>1, <2>1, <2>2, <2>3, ShopWork
<1>8. ASSUME PollTimeline PROVE WorkOK' /\ Taken
  <2>1. /\ listener' = [Resting EXCEPT !.at = FirstStep(cursor + 1), !.event = cursor + 1, !.duty = 1]
        /\ listener.at = "poll" /\ cursor < Len(timeline) /\ UNCHANGED <<timeline, cursor, work>>
    BY <1>8 DEF PollTimeline
  <2>2. listener'.at = FirstStep(cursor + 1) /\ listener'.duty = 1
    BY <2>1 DEF Resting
  <2>3. /\ AtEcho => FirstStep(cursor + 1) = "marking"
        /\ ~AtEcho => FirstStep(cursor + 1) \in {"fetching", "duties"}
    BY <1>0, <2>1, EchoAssumption DEF AtEcho, FirstStep, Thing
  <2>4. TriedOK'
    BY <1>0, <1>4, <2>1, <2>2, <2>3 DEF WorkOK, TriedOK
  <2>5. DutiesOK' /\ MovingOK'
    BY <1>0, <1>4, <2>1, <2>2, <2>3 DEF DutiesOK, MovingOK
  <2>. QED  BY <1>1, <2>1, <2>4, <2>5 DEF WorkOK
<1>9. ASSUME UNCHANGED <<timeline, cursor, work>>, listener.at # "poll",
             \/ listener.at = "fetching" /\ listener'.at = "copying"
             \/ listener.at = "copying" /\ listener'.at = "duties" /\ listener'.duty = 1
             \/ listener'.at = "recording"
      PROVE  WorkOK' /\ Taken
  <2>1. TriedOK'
    <3> SUFFICES ASSUME NEW d \in 1 .. Duties
                 PROVE  work.tried[d] <= IF AtEcho THEN 0
                                        ELSE IF \/ listener'.at \in {"poll", "fetching", "copying"}
                                                \/ listener'.at = "duties" /\ listener'.duty <= d
                                             THEN work.cut ELSE 1 + work.cut
      BY <1>4, <1>9 DEF TriedOK
    <3>1. work.tried[d] \in Nat
      BY <1>0
    <3>. QED  BY <1>0, <1>9, <3>1 DEF WorkOK, TriedOK
  <2>2. DutiesOK' /\ MovingOK'
    BY <1>0, <1>9 DEF DutiesOK, MovingOK
  <2>. QED  BY <1>1, <1>2, <1>9, <2>1, <2>2 DEF WorkOK
<1>10. ASSUME Fetch \/ Upsert \/ Raise PROVE WorkOK' /\ Taken
  <2>1. UNCHANGED <<timeline, cursor, work>> /\ listener.at # "poll"
    BY <1>10 DEF Fetch, Upsert, Raise, BreakOff
  <2>2. CASE Fetch
    <3>1. listener.at = "fetching" /\ listener'.at = "copying"
      BY <2>2 DEF Fetch, BaseInv, TimelineTypeOK
    <3>. QED  BY <1>9, <2>1, <3>1
  <2>3. CASE Upsert
    <3>1. listener.at = "copying" /\ listener'.at = "duties" /\ listener'.duty = 1
      BY <2>3 DEF Upsert, GoOn, BaseInv, TimelineTypeOK, ListenerOK
    <3>. QED  BY <1>9, <2>1, <3>1
  <2>4. CASE Raise
    <3>1. listener'.at = "recording"
      BY <2>4 DEF Raise, BreakOff, GoOn, BaseInv, TimelineTypeOK
    <3>. QED  BY <1>9, <2>1, <3>1
  <2>. QED  BY <1>10, <2>2, <2>3, <2>4
<1>11. ASSUME TryDuty PROVE WorkOK' /\ Taken
  <2> DEFINE k == listener.duty
  <2>1. /\ listener.at = "duties" /\ k <= Duties /\ k > 0 /\ ~AtEcho /\ ~AtEcho'
        /\ work' = [work EXCEPT !.tried[k] = @ + 1] /\ UNCHANGED <<timeline, cursor>>
    BY <1>3, <1>4, <1>11 DEF TryDuty, BaseInv, ListenerOK
  <2>2. k \in 1 .. Duties
    BY <1>0, <2>1, TimelineAssumption
  <2>3. /\ work'.cut = work.cut /\ work'.passedOver = work.passedOver
        /\ \A d \in 1 .. Duties : work'.tried[d] = IF d = k THEN work.tried[d] + 1 ELSE work.tried[d]
    BY <1>0, <2>1, <2>2 DEF WorkType
  <2>4. /\ listener'.at \in {"recording", "duties", "marking"}
        /\ listener'.at # "recording" => listener'.duty = k + 1
        /\ listener'.at = "marking" => k = Duties
    BY <1>11, <2>1 DEF TryDuty, AfterDuty, GoOn, BaseInv, TimelineTypeOK
  <2>5. \A d \in 1 .. Duties : work.tried[d] \in Nat /\ d \in Nat
    <3>1. ASSUME NEW d \in 1 .. Duties PROVE work.tried[d] \in Nat
      BY <1>0
    <3>. QED  BY <3>1, TimelineAssumption
  <2>6. TriedOK'
    <3> SUFFICES ASSUME NEW d \in 1 .. Duties
                 PROVE  work'.tried[d] <= IF \/ listener'.at \in {"poll", "fetching", "copying"}
                                             \/ listener'.at = "duties" /\ listener'.duty <= d
                                          THEN work'.cut ELSE 1 + work'.cut
      BY <2>1 DEF TriedOK
    <3>1. work.tried[d] <= IF k <= d THEN work.cut ELSE 1 + work.cut
      BY <2>1 DEF WorkOK, TriedOK
    <3>. QED  BY <1>0, <2>3, <2>4, <2>5, <3>1
  <2>7. DutiesOK'
    <3> SUFFICES ASSUME listener'.at \in {"duties", "marking"}, NEW d \in 1 .. Duties,
                        listener'.at = "marking" \/ d < listener'.duty
                 PROVE  work'.tried[d] > 0 \/ (work'.passedOver /\ d <= Structured)
      BY DEF DutiesOK, Finished
    <3>1. d = k \/ d < k
      BY <1>0, <2>2, <2>4, <2>5, TimelineAssumption
    <3>2. d < k => Finished(d)
      BY <2>1 DEF WorkOK, DutiesOK
    <3>. QED  BY <2>3, <2>5, <3>1, <3>2 DEF Finished
  <2>8. MovingOK'
    BY <2>4 DEF MovingOK
  <2>. QED  BY <1>1, <1>2, <2>1, <2>6, <2>7, <2>8 DEF WorkOK
<1>12. ASSUME PassOver PROVE WorkOK' /\ Taken
  <2>1. /\ listener.at = "duties" /\ listener.duty = 1 /\ ~AtEcho /\ ~AtEcho'
        /\ work' = [work EXCEPT !.passedOver = TRUE] /\ UNCHANGED <<timeline, cursor>>
    BY <1>3, <1>4, <1>12 DEF PassOver
  <2>2. /\ work'.cut = work.cut /\ work'.passedOver /\ work'.tried = work.tried
    BY <1>0, <2>1 DEF WorkType
  <2>3. /\ listener'.at \in {"duties", "marking"} /\ listener'.duty = Structured + 1
        /\ listener'.at = "marking" => Structured = Duties
    BY <1>12, <2>1 DEF PassOver, BaseInv, TimelineTypeOK
  <2>4. TriedOK'
    <3> SUFFICES ASSUME NEW d \in 1 .. Duties
                 PROVE  work'.tried[d] <= IF \/ listener'.at \in {"poll", "fetching", "copying"}
                                             \/ listener'.at = "duties" /\ listener'.duty <= d
                                          THEN work'.cut ELSE 1 + work'.cut
      BY <2>1 DEF TriedOK
    <3>0. work.tried[d] \in Nat
      BY <1>0
    <3>1. work.tried[d] \in Nat /\ 1 <= d
      BY <3>0, TimelineAssumption
    <3>2. work.tried[d] <= work.cut
      BY <2>1, <3>1 DEF WorkOK, TriedOK
    <3>. QED  BY <1>0, <2>2, <3>1, <3>2
  <2>5. DutiesOK' /\ MovingOK'
    BY <2>2, <2>3, TimelineAssumption DEF DutiesOK, MovingOK, Finished
  <2>. QED  BY <1>1, <1>2, <2>1, <2>4, <2>5 DEF WorkOK
<1>13. ASSUME Mark \/ RecordError PROVE WorkOK' /\ Taken
  <2>1. /\ listener.at \in {"marking", "recording"} /\ listener'.at = "moving"
        /\ UNCHANGED <<timeline, cursor>>
        /\ work'.tried = work.tried /\ work'.cut = work.cut /\ work'.passedOver = work.passedOver
        /\ listener.at = "marking" => work'.mark = "processed"
        /\ listener.at = "recording" => work'.mark = "error" \/ work'.unrecorded
    BY <1>0, <1>13 DEF Mark, RecordError, GoOn, SetMark, WorkType, BaseInv, TimelineTypeOK
  <2>2. TriedOK'
    <3> SUFFICES ASSUME NEW d \in 1 .. Duties
                 PROVE  work.tried[d] <= IF AtEcho THEN 0 ELSE 1 + work.cut
      BY <1>4, <2>1 DEF TriedOK
    <3>. QED  BY <2>1 DEF WorkOK, TriedOK
  <2>3. DutiesOK'
    BY <2>1 DEF DutiesOK
  <2>4. MovingOK'
    BY <1>4, <2>1 DEF WorkOK, DutiesOK, MovingOK, Finished
  <2>. QED  BY <1>1, <1>2, <2>1, <2>2, <2>3, <2>4 DEF WorkOK
<1>14. ASSUME MoveCursor PROVE WorkOK' /\ Taken
  <2>1. /\ listener.at = "moving" /\ cursor' = cursor + 1 /\ work' = NoWork /\ listener'.at = "poll"
    BY <1>2, <1>14 DEF MoveCursor, MoveTo, Resting
  <2>2. NoWork.cut = 0 /\ \A d \in 1 .. Duties : NoWork.tried[d] = 0
    BY DEF NoWork
  <2>3. WorkOK'
    BY <2>1, <2>2 DEF WorkOK, TriedOK, DutiesOK, MovingOK
  <2>4. Taken
    <3> SUFFICES ASSUME NEW e \in Event, e = cursor + 1 PROVE TakenUp(e)
      BY <1>0, <2>1
    <3>1. AtEcho <=> timeline[e].about = Echo
      BY DEF AtEcho
    <3>2. ASSUME NEW d \in 1 .. Duties
          PROVE  work.tried[d] <= IF timeline[e].about = Echo THEN 0 ELSE 1 + work.cut
      BY <2>1, <3>1 DEF WorkOK, TriedOK
    <3>3. \/ work.mark = "error" \/ work.unrecorded \/ work.interrupted
          \/ work.mark = "processed" /\ (AtEcho \/ \A d \in 1 .. Duties : Finished(d))
      BY <2>1 DEF WorkOK, MovingOK
    <3>4. \A d \in 1 .. Duties : work.tried[d] = 0 /\ Finished(d) => work.passedOver /\ d <= Structured
      BY DEF Finished
    <3>. QED  BY <3>1, <3>2, <3>3, <3>4 DEF TakenUp
  <2>. QED  BY <2>3, <2>4
<1>15. ASSUME CutOff PROVE WorkOK' /\ Taken
  <2>1. /\ listener'.at = "poll" /\ UNCHANGED <<timeline, cursor>> /\ listener.at # "poll"
        /\ work'.tried = work.tried /\ work'.cut = work.cut + 1
    BY <1>0, <1>15 DEF CutOff, Resting, WorkType
  <2>2. TriedOK'
    <3> SUFFICES ASSUME NEW d \in 1 .. Duties
                 PROVE  work.tried[d] <= IF AtEcho THEN 0 ELSE work.cut + 1
      BY <1>4, <2>1 DEF TriedOK
    <3>1. work.tried[d] \in Nat
      BY <1>0
    <3>. QED  BY <1>0, <3>1 DEF WorkOK, TriedOK
  <2>3. DutiesOK' /\ MovingOK'
    BY <2>1 DEF DutiesOK, MovingOK
  <2>. QED  BY <1>1, <1>2, <2>1, <2>2, <2>3 DEF WorkOK
<1>16. ASSUME Interrupted PROVE WorkOK' /\ Taken
  <2>1. /\ listener.at # "poll" /\ listener'.at = "moving" /\ UNCHANGED <<timeline, cursor>>
        /\ work' = [work EXCEPT !.interrupted = TRUE]
    BY <1>16 DEF Interrupted, BreakOff, GoOn, BaseInv, TimelineTypeOK
  <2>2. work'.interrupted /\ work'.tried = work.tried /\ work'.cut = work.cut
    BY <1>0, <2>1 DEF WorkType
  <2>3. TriedOK'
    <3> SUFFICES ASSUME NEW d \in 1 .. Duties
                 PROVE  work.tried[d] <= IF AtEcho THEN 0 ELSE 1 + work.cut
      BY <1>4, <2>1, <2>2 DEF TriedOK
    <3>1. work.tried[d] \in Nat
      BY <1>0
    <3>. QED  BY <1>0, <3>1 DEF WorkOK, TriedOK
  <2>4. DutiesOK' /\ MovingOK'
    BY <2>1, <2>2 DEF DutiesOK, MovingOK
  <2>. QED  BY <1>1, <1>2, <2>1, <2>3, <2>4 DEF WorkOK
<1>. QED  BY <1>5, <1>6, <1>7, <1>8, <1>10, <1>11, <1>12, <1>13, <1>14, <1>15, <1>16 DEF TimelineNext

\* The listener's cursor passes an event only with its duties tried, none more often
\* than its work was begun, or with its error on record, unless that was refused or
\* the listener interrupted (listener.py).
THEOREM EventsTakenUpHolds == TimelineSpec => EventsTakenUp
<1>1. BaseInv /\ CopyInv /\ WorkOK /\ [TimelineNext]_timelineVars
        => /\ (BaseInv /\ CopyInv /\ WorkOK)'
           /\ [\A e \in Event : cursor < e /\ e <= cursor' => TakenUp(e)]_timelineVars
  BY CopyInvNext, WorkOKNext
<1>2. TimelineInit => BaseInv /\ CopyInv /\ WorkOK
  BY CopyInvInit, WorkOKInit
<1>. QED  BY <1>1, <1>2, PTL DEF TimelineSpec, EventsTakenUp

(***************************************************************************)
(* Publishing to the Graph API                                             *)
(***************************************************************************)
Goal == {"feed", "story", "page"}
Positive == Nat \ {0}

AtType == [step : {"make", "wait", "publish"}, piece : Nat, child : Positive, spare : Nat,
           again : BOOLEAN]

GraphTypeOK ==
    /\ post \in [photos : Nat, videos : Nat] /\ at \in AtType
    /\ todo \in Seq(Goal) /\ \A m, n \in 1 .. Len(todo) : todo[m] = todo[n] => m = n
    /\ \A t \in DOMAIN live : live[t] \in [1 .. PieceCount(t) -> Nat]

\* The request is made once, of at least one piece.
AskedOK ==
    IF post.photos + post.videos = 0
    THEN todo = <<>> /\ DOMAIN live = {} /\ lost = {} /\ results = {}
    ELSE \A t \in Goal : PieceCount(t) \in Nat /\ PieceCount(t) > 0

\* The target at work is at one of its pieces.
AtOK ==
    IF todo = <<>> THEN at.step = "make" /\ at.piece = 1 ELSE at.piece \in 1 .. PieceCount(todo[1])

\* Of the targets still to be served nothing is out but the pieces before the
\* one the first is at, and nothing was lost.
TodoOK ==
    \A n \in 1 .. Len(todo) :
        /\ todo[n] \in DOMAIN live /\ todo[n] \notin results
        /\ \A p \in 1 .. PieceCount(todo[n]) :
               /\ <<todo[n], p>> \notin lost
               /\ live[todo[n]][p] = IF n = 1 /\ p < at.piece THEN 1 ELSE 0

\* How a target that was served has ended: what the answer says of it is so.
StoppedAt(t, p) ==
    /\ \A q \in 1 .. p - 1 : live[t][q] = 1
    /\ \A q \in p + 1 .. PieceCount(t) : live[t][q] = 0
    /\ live[t][p] = IF <<t, p>> \in lost THEN 1 ELSE 0

AsAnswered(t) ==
    IF t \in results THEN \A p \in 1 .. PieceCount(t) : live[t][p] = 1
    ELSE t \in errors /\ \E p \in 1 .. PieceCount(t) : StoppedAt(t, p)

ServedOK ==
    \A t \in DOMAIN live : (\A n \in 1 .. Len(todo) : todo[n] # t) => AsAnswered(t)

GraphInv == GraphTypeOK /\ AskedOK /\ AtOK /\ TodoOK /\ ServedOK

\* Where the publisher begins with a target.
LEMMA StartIs ==
    /\ Start \in AtType /\ Start.step = "make" /\ Start.piece = 1
    /\ \A n \in Nat : /\ [Start EXCEPT !.piece = n] \in AtType
                      /\ [Start EXCEPT !.piece = n].piece = n
                      /\ n > 0 => [Start EXCEPT !.child = n] \in AtType
                      /\ [Start EXCEPT !.child = n].piece = 1
    /\ [Start EXCEPT !.again = TRUE] \in AtType /\ [Start EXCEPT !.again = TRUE].piece = 1
<1>0. 1 \in Positive /\ \A n \in Nat : n > 0 => n \in Positive
  BY DEF Positive
<1>1. /\ Start \in AtType /\ Start.step = "make" /\ Start.piece = 1
      /\ [Start EXCEPT !.again = TRUE] \in AtType /\ [Start EXCEPT !.again = TRUE].piece = 1
  BY <1>0 DEF Start, AtType
<1>2. ASSUME NEW n \in Nat
      PROVE  [Start EXCEPT !.piece = n] \in AtType /\ [Start EXCEPT !.piece = n].piece = n
  BY <1>0 DEF Start, AtType
<1>3. ASSUME NEW n \in Nat
      PROVE  /\ n > 0 => [Start EXCEPT !.child = n] \in AtType
             /\ [Start EXCEPT !.child = n].piece = 1
  BY <1>0 DEF Start, AtType
<1>. QED  BY <1>1, <1>2, <1>3

\* Nothing is asked of the publisher at first.
LEMMA GraphInvInit == GraphInit => GraphInv
<1> SUFFICES ASSUME GraphInit PROVE GraphInv
  OBVIOUS
<1>1. todo = <<>> /\ Len(todo) = 0 /\ todo \in Seq(Goal) /\ 1 .. Len(todo) = {}
  BY EmptySeq DEF GraphInit
<1>2. DOMAIN live = {}
  BY DEF GraphInit
<1>3. GraphTypeOK /\ AtOK
  BY <1>1, <1>2, StartIs DEF GraphInit, GraphTypeOK, AtOK
<1>4. AskedOK /\ TodoOK /\ ServedOK
  BY <1>1, <1>2 DEF GraphInit, AskedOK, TodoOK, ServedOK
<1>. QED  BY <1>3, <1>4 DEF GraphInv

\* A step that only moves within the piece at hand.
LEMMA AtMoves ==
    ASSUME GraphInv, UNCHANGED <<post, todo, live, answer, lost>>, at' \in AtType,
           at'.piece = at.piece, todo # <<>> \/ at' = at
    PROVE  GraphInv'
<1>1. UNCHANGED <<results, errors>>
  BY DEF answer
<1>2. \A t : PieceCount(t)' = PieceCount(t)
  BY DEF PieceCount
<1>3. GraphTypeOK' /\ AskedOK' /\ AtOK'
  BY <1>1, <1>2 DEF GraphInv, GraphTypeOK, AskedOK, AtOK
<1>4. TodoOK'
  <2>1. CASE todo = <<>>
    <3>1. 1 .. Len(todo') = {}
      BY <2>1
    <3>. QED  BY <3>1 DEF TodoOK
  <2>2. CASE todo # <<>>
    BY <1>1, <1>2, <2>2 DEF GraphInv, TodoOK
  <2>. QED  BY <2>1, <2>2
<1>5. ServedOK'
  BY <1>1, <1>2 DEF GraphInv, ServedOK, AsAnswered, StoppedAt
<1>. QED  BY <1>3, <1>4, <1>5 DEF GraphInv

\* What follows the first target moves up.
LEMMA TodoTail ==
    ASSUME GraphTypeOK, todo # <<>>, todo' = Tail(todo)
    PROVE  /\ todo' \in Seq(Goal) /\ Len(todo) \in Nat /\ Len(todo) > 0 /\ todo[1] \in Goal
           /\ Head(todo) = todo[1] /\ Len(todo') = Len(todo) - 1
           /\ \A n \in 1 .. Len(todo') : todo'[n] = todo[n + 1] /\ n + 1 \in 1 .. Len(todo)
           /\ \A n \in 1 .. Len(todo') : todo'[n] # todo[1]
           /\ \A m, n \in 1 .. Len(todo') : todo'[m] = todo'[n] => m = n
<1>1. todo \in Seq(Goal)
  BY DEF GraphTypeOK
<1>2. /\ todo' \in Seq(Goal) /\ Len(todo) \in Nat /\ Len(todo) > 0 /\ Len(todo') = Len(todo) - 1
      /\ \A n \in 1 .. Len(todo') : todo'[n] = todo[n + 1]
  BY <1>1, HeadTailProperties, EmptySeq
<1>3. todo[1] \in Goal /\ Head(todo) = todo[1]
  BY <1>1, <1>2
<1>4. \A n \in 1 .. Len(todo') : n + 1 \in 1 .. Len(todo) /\ n + 1 # 1
  BY <1>2
<1>. QED  BY <1>2, <1>3, <1>4 DEF GraphTypeOK

\* The first target is left behind, with an answer that is so.
LEMMA LeaveInv ==
    ASSUME GraphInv, todo # <<>>, todo' = Tail(todo), at' = Start, UNCHANGED post,
           NEW h, h = todo[1],
           DOMAIN live' = DOMAIN live, live'[h] \in [1 .. PieceCount(h) -> Nat],
           \A t \in DOMAIN live : t # h => live'[t] = live[t],
           \A t : t # h => /\ t \in results' <=> t \in results
                           /\ t \in errors' <=> t \in errors
                           /\ \A p : <<t, p>> \in lost' <=> <<t, p>> \in lost,
           AsAnswered(h)'
    PROVE  GraphInv'
<1>1. \A t : PieceCount(t)' = PieceCount(t)
  BY DEF PieceCount
<1>2. /\ todo' \in Seq(Goal) /\ Len(todo) \in Nat /\ Len(todo) > 0 /\ todo[1] \in Goal
      /\ Len(todo') = Len(todo) - 1
      /\ \A n \in 1 .. Len(todo') : todo'[n] = todo[n + 1] /\ n + 1 \in 1 .. Len(todo)
      /\ \A n \in 1 .. Len(todo') : todo'[n] # h
      /\ \A m, n \in 1 .. Len(todo') : todo'[m] = todo'[n] => m = n
  BY TodoTail DEF GraphInv
<1>3. GraphTypeOK'
  BY <1>1, <1>2, StartIs DEF GraphInv, GraphTypeOK
<1>4. post.photos + post.videos # 0 /\ \A t \in Goal : PieceCount(t) \in Nat /\ PieceCount(t) > 0
  BY DEF GraphInv, AskedOK
<1>5. AskedOK'
  BY <1>1, <1>4 DEF AskedOK
<1>6. AtOK'
  <2>1. CASE todo' = <<>>
    BY <2>1, StartIs DEF AtOK
  <2>2. CASE todo' # <<>>
    <3>1. todo'[1] \in Goal
      BY <1>2, <2>2
    <3>. QED  BY <1>1, <1>4, <2>2, <3>1, StartIs DEF AtOK
  <2>. QED  BY <2>1, <2>2
<1>7. TodoOK'
  <2> SUFFICES ASSUME NEW n \in 1 .. Len(todo')
               PROVE  /\ todo'[n] \in DOMAIN live' /\ todo'[n] \notin results'
                      /\ \A p \in 1 .. PieceCount(todo'[n]) :
                             <<todo'[n], p>> \notin lost' /\ live'[todo'[n]][p] = 0
    <3>1. at'.piece = 1
      BY StartIs
    <3>2. \A n \in 1 .. Len(todo') : \A p \in 1 .. PieceCount(todo'[n]) : ~(p < 1)
      OBVIOUS
    <3>3. \A n \in 1 .. Len(todo') : PieceCount(todo[n])' = PieceCount(todo'[n])
      BY <1>1 DEF PieceCount
    <3>. QED  BY <3>1, <3>2, <3>3 DEF TodoOK
  <2> DEFINE t == todo[n + 1]
  <2>1. t = todo'[n] /\ t # h /\ n + 1 \in 1 .. Len(todo) /\ n + 1 # 1
    BY <1>2
  <2>2. /\ t \in DOMAIN live /\ t \notin results
        /\ \A p \in 1 .. PieceCount(t) : <<t, p>> \notin lost /\ live[t][p] = 0
    BY <2>1 DEF GraphInv, TodoOK
  <2> HIDE DEF t
  <2>. QED  BY <2>1, <2>2
<1>8. ServedOK'
  <2> SUFFICES ASSUME NEW t \in DOMAIN live', \A n \in 1 .. Len(todo') : todo'[n] # t
               PROVE  AsAnswered(t)'
    BY DEF ServedOK
  <2>1. CASE t = h
    BY <2>1
  <2>2. CASE t # h
    <3>1. \A n \in 1 .. Len(todo) : todo[n] # t
      <4> SUFFICES ASSUME NEW n \in 1 .. Len(todo), n # 1 PROVE todo[n] # t
        BY <2>2
      <4>1. n - 1 \in 1 .. Len(todo') /\ (n - 1) + 1 = n
        BY <1>2
      <4> DEFINE m == n - 1
      <4>2. m \in 1 .. Len(todo') /\ m + 1 = n
        BY <4>1
      <4>3. todo'[m] # t
        BY <4>2
      <4> HIDE DEF m
      <4>4. todo'[m] = todo[m + 1]
        BY <1>2, <4>2
      <4>. QED  BY <4>2, <4>3, <4>4
    <3>2. AsAnswered(t)
      BY <3>1 DEF GraphInv, ServedOK
    <3>3. live'[t] = live[t]
      BY <2>2
    <3>4. PieceCount(t)' = PieceCount(t)
      BY <1>1
    <3>5. \A p : StoppedAt(t, p)' <=> StoppedAt(t, p)
      BY <2>2, <3>3, <3>4 DEF StoppedAt
    <3>. QED  BY <2>2, <3>2, <3>3, <3>4, <3>5 DEF AsAnswered
  <2>. QED  BY <2>1, <2>2
<1>. QED  BY <1>3, <1>5, <1>6, <1>7, <1>8 DEF GraphInv

\* The target at work and the piece it is at.
LEMMA AtWork ==
    ASSUME GraphInv, todo # <<>>, NEW h, h = Head(todo)
    PROVE  /\ h = todo[1] /\ h \in Goal /\ h \in DOMAIN live /\ h \notin results
           /\ Len(todo) \in Nat /\ Len(todo) > 0
           /\ at \in AtType /\ at.piece \in 1 .. PieceCount(h) /\ PieceCount(h) \in Nat
           /\ live[h] \in [1 .. PieceCount(h) -> Nat]
           /\ \A p \in 1 .. PieceCount(h) :
                  <<h, p>> \notin lost /\ live[h][p] = IF p < at.piece THEN 1 ELSE 0
<1>1. todo \in Seq(Goal) /\ Len(todo) \in Nat /\ Len(todo) > 0 /\ h = todo[1] /\ h \in Goal
  BY DEF GraphInv, GraphTypeOK
<1>2. /\ h \in DOMAIN live /\ h \notin results
      /\ \A p \in 1 .. PieceCount(h) :
             <<h, p>> \notin lost /\ live[h][p] = IF p < at.piece THEN 1 ELSE 0
  BY <1>1 DEF GraphInv, TodoOK
<1>3. at.piece \in 1 .. PieceCount(h)
  BY <1>1 DEF GraphInv, AtOK
<1>4. PieceCount(h) \in Nat
  BY <1>1 DEF GraphInv, AskedOK
<1>. QED  BY <1>1, <1>2, <1>3, <1>4 DEF GraphInv, GraphTypeOK

\* What the publication of a piece changes.
LEMMA PutOutIs ==
    ASSUME GraphInv, todo # <<>>, PutOut, NEW h, h = Head(todo)
    PROVE  /\ DOMAIN live' = DOMAIN live /\ live'[h] \in [1 .. PieceCount(h) -> Nat]
           /\ \A t \in DOMAIN live : t # h => live'[t] = live[t]
           /\ \A p \in 1 .. PieceCount(h) : live'[h][p] = IF p <= at.piece THEN 1 ELSE 0
           /\ UNCHANGED post
<1>1. live' = [live EXCEPT ![h][at.piece] = @ + 1] /\ UNCHANGED post
  BY DEF PutOut
<1>2. /\ h \in DOMAIN live /\ at.piece \in 1 .. PieceCount(h) /\ PieceCount(h) \in Nat
      /\ live[h] \in [1 .. PieceCount(h) -> Nat]
      /\ \A p \in 1 .. PieceCount(h) : live[h][p] = IF p < at.piece THEN 1 ELSE 0
  BY AtWork
<1>3. DOMAIN live' = DOMAIN live /\ \A t \in DOMAIN live : t # h => live'[t] = live[t]
  BY <1>1
<1>4. live'[h] = [live[h] EXCEPT ![at.piece] = @ + 1]
  BY <1>1, <1>2
<1>5. live'[h] \in [1 .. PieceCount(h) -> Nat]
  BY <1>2, <1>4
<1>6. ASSUME NEW p \in 1 .. PieceCount(h) PROVE live'[h][p] = IF p <= at.piece THEN 1 ELSE 0
  BY <1>2, <1>4
<1>. QED  BY <1>1, <1>3, <1>5, <1>6

\* The first target fails: before the piece it is at is out, or behind an
\* answer that was lost.
LEMMA FailInv ==
    ASSUME GraphInv, todo # <<>>, Fail, NEW h, h = Head(todo),
           \/ UNCHANGED <<post, live, lost>>
           \/ PutOut /\ lost' = lost \cup {<<h, at.piece>>}
    PROVE  GraphInv'
<1>1. /\ todo' = Tail(todo) /\ at' = Start /\ errors' = errors \cup {h} /\ UNCHANGED results
  BY DEF Fail, Leave
<1>2. /\ h = todo[1] /\ h \in Goal /\ h \in DOMAIN live /\ h \notin results
      /\ at.piece \in 1 .. PieceCount(h) /\ PieceCount(h) \in Nat
      /\ live[h] \in [1 .. PieceCount(h) -> Nat]
      /\ \A p \in 1 .. PieceCount(h) :
             <<h, p>> \notin lost /\ live[h][p] = IF p < at.piece THEN 1 ELSE 0
  BY AtWork
<1>3. /\ UNCHANGED post
      /\ DOMAIN live' = DOMAIN live /\ live'[h] \in [1 .. PieceCount(h) -> Nat]
      /\ \A t \in DOMAIN live : t # h => live'[t] = live[t]
      /\ \A t : t # h => \A p : <<t, p>> \in lost' <=> <<t, p>> \in lost
      /\ \A p \in 1 .. PieceCount(h) : p < at.piece => live'[h][p] = 1
      /\ \A p \in 1 .. PieceCount(h) : p > at.piece => live'[h][p] = 0
      /\ live'[h][at.piece] = IF <<h, at.piece>> \in lost' THEN 1 ELSE 0
  <2>1. CASE UNCHANGED <<post, live, lost>>
    <3>1. ~(at.piece < at.piece)
      BY <1>2
    <3>2. post' = post /\ live' = live /\ lost' = lost
      BY <2>1
    <3>3. \A p \in 1 .. PieceCount(h) : p > at.piece => ~(p < at.piece)
      BY <1>2
    <3>4. live[h][at.piece] = 0 /\ <<h, at.piece>> \notin lost
      BY <1>2, <3>1
    <3>. QED  BY <1>2, <3>2, <3>3, <3>4
  <2>2. CASE PutOut /\ lost' = lost \cup {<<h, at.piece>>}
    <3>1. /\ DOMAIN live' = DOMAIN live /\ live'[h] \in [1 .. PieceCount(h) -> Nat]
          /\ \A t \in DOMAIN live : t # h => live'[t] = live[t]
          /\ \A p \in 1 .. PieceCount(h) : live'[h][p] = IF p <= at.piece THEN 1 ELSE 0
          /\ UNCHANGED post
      BY <2>2, PutOutIs
    <3>. QED  BY <1>2, <2>2, <3>1
  <2>. QED  BY <2>1, <2>2
<1>4. PieceCount(h)' = PieceCount(h)
  BY <1>3 DEF PieceCount
<1>5. AsAnswered(h)'
  <2>1. h \notin results' /\ h \in errors'
    BY <1>1, <1>2
  <2>2. \A q \in 1 .. at.piece - 1 : live'[h][q] = 1
    BY <1>2, <1>3
  <2>3. \A q \in at.piece + 1 .. PieceCount(h) : live'[h][q] = 0
    BY <1>2, <1>3
  <2>4. PICK n \in 1 .. PieceCount(h) : n = at.piece
    BY <1>2
  <2>5. StoppedAt(h, n)'
    BY <1>3, <1>4, <2>2, <2>3, <2>4 DEF StoppedAt
  <2>. QED  BY <1>4, <2>1, <2>5 DEF AsAnswered
<1>6. \A t : t # h => /\ t \in results' <=> t \in results
                     /\ t \in errors' <=> t \in errors
                     /\ \A p : <<t, p>> \in lost' <=> <<t, p>> \in lost
  BY <1>1, <1>3
<1>. QED  BY <1>1, <1>2, <1>3, <1>5, <1>6, LeaveInv

\* A piece is out: the next one follows, or the target is answered.
LEMMA PieceDoneInv ==
    ASSUME GraphInv, todo # <<>>, PutOut, PieceDone, UNCHANGED lost, NEW h, h = Head(todo)
    PROVE  GraphInv'
<1>1. /\ h = todo[1] /\ h \in Goal /\ h \in DOMAIN live /\ h \notin results
      /\ Len(todo) \in Nat /\ Len(todo) > 0
      /\ at \in AtType /\ at.piece \in 1 .. PieceCount(h) /\ PieceCount(h) \in Nat
      /\ live[h] \in [1 .. PieceCount(h) -> Nat]
      /\ \A p \in 1 .. PieceCount(h) :
             <<h, p>> \notin lost /\ live[h][p] = IF p < at.piece THEN 1 ELSE 0
  BY AtWork
<1>2. /\ DOMAIN live' = DOMAIN live /\ live'[h] \in [1 .. PieceCount(h) -> Nat]
      /\ \A t \in DOMAIN live : t # h => live'[t] = live[t]
      /\ \A p \in 1 .. PieceCount(h) : live'[h][p] = IF p <= at.piece THEN 1 ELSE 0
      /\ UNCHANGED post
  BY PutOutIs
<1>3. \A t : PieceCount(t)' = PieceCount(t)
  BY <1>2 DEF PieceCount
<1>4. CASE at.piece < PieceCount(h)
  <2>1. /\ at' = [Start EXCEPT !.piece = at.piece + 1] /\ UNCHANGED <<todo, results, errors>>
    BY <1>4 DEF PieceDone, answer
  <2>2. at.piece + 1 \in Nat /\ at.piece + 1 \in 1 .. PieceCount(h)
    BY <1>1, <1>4
  <2>3. at' \in AtType /\ at'.piece = at.piece + 1
    BY <2>1, <2>2, StartIs
  <2>4. GraphTypeOK' /\ AskedOK'
    BY <1>1, <1>2, <1>3, <2>1, <2>3 DEF GraphInv, GraphTypeOK, AskedOK
  <2>5. AtOK'
    <3>1. todo' # <<>> /\ todo'[1] = h
      BY <1>1, <2>1
    <3>. QED  BY <1>3, <2>2, <2>3, <3>1 DEF AtOK
  <2>6. TodoOK'
    <3> SUFFICES ASSUME NEW n \in 1 .. Len(todo)
                 PROVE  /\ todo[n] \in DOMAIN live' /\ todo[n] \notin results
                        /\ \A p \in 1 .. PieceCount(todo[n]) :
                               /\ <<todo[n], p>> \notin lost
                               /\ live'[todo[n]][p] = IF n = 1 /\ p < at.piece + 1 THEN 1 ELSE 0
      <4>1. \A n \in 1 .. Len(todo') : PieceCount(todo[n])' = PieceCount(todo[n])
        BY <1>3, <2>1 DEF PieceCount
      <4>. QED  BY <2>1, <2>3, <4>1 DEF TodoOK
    <3>1. CASE n = 1
      <4>1. \A p \in 1 .. PieceCount(h) : p <= at.piece <=> p < at.piece + 1
        BY <1>1
      <4>. QED  BY <1>1, <1>2, <3>1, <4>1
    <3>2. CASE n # 1
      <4>1. todo[n] # h /\ todo[n] \in DOMAIN live
        BY <1>1, <3>2 DEF GraphInv, GraphTypeOK, TodoOK
      <4>. QED  BY <1>2, <3>2, <4>1 DEF GraphInv, TodoOK
    <3>. QED  BY <3>1, <3>2
  <2>7. ServedOK'
    <3> SUFFICES ASSUME NEW t \in DOMAIN live, \A n \in 1 .. Len(todo) : todo[n] # t
                 PROVE  AsAnswered(t)'
      BY <1>2, <2>1 DEF ServedOK
    <3>1. t # h
      BY <1>1
    <3>2. AsAnswered(t)
      BY DEF GraphInv, ServedOK
    <3>3. live'[t] = live[t] /\ PieceCount(t)' = PieceCount(t)
      BY <1>2, <1>3, <3>1
    <3>4. \A p : StoppedAt(t, p)' <=> StoppedAt(t, p)
      BY <3>3 DEF StoppedAt
    <3>. QED  BY <2>1, <3>2, <3>3, <3>4 DEF AsAnswered
  <2>. QED  BY <2>4, <2>5, <2>6, <2>7 DEF GraphInv
<1>5. CASE ~(at.piece < PieceCount(h))
  <2>1. /\ todo' = Tail(todo) /\ at' = Start /\ results' = results \cup {h} /\ UNCHANGED errors
    BY <1>5 DEF PieceDone, Leave
  <2>2. \A p \in 1 .. PieceCount(h) : p <= at.piece
    BY <1>1, <1>5
  <2>3. AsAnswered(h)'
    BY <1>2, <1>3, <2>1, <2>2 DEF AsAnswered
  <2>4. \A t : t # h => /\ t \in results' <=> t \in results
                       /\ t \in errors' <=> t \in errors
                       /\ \A p : <<t, p>> \in lost' <=> <<t, p>> \in lost
    BY <2>1
  <2>. QED  BY <1>1, <1>2, <2>1, <2>3, <2>4, LeaveInv
<1>. QED  BY <1>4, <1>5

\* The wanted targets, each once.
LEMMA InOrderIs ==
    ASSUME NEW wanted \in SUBSET Goal
    PROVE  /\ InOrder(wanted) \in Seq(Goal)
           /\ \A n \in 1 .. Len(InOrder(wanted)) : InOrder(wanted)[n] \in wanted
           /\ \A t \in wanted : \E n \in 1 .. Len(InOrder(wanted)) : InOrder(wanted)[n] = t
           /\ \A m, n \in 1 .. Len(InOrder(wanted)) : InOrder(wanted)[m] = InOrder(wanted)[n] => m = n
<1> DEFINE OrderOK(s) ==
             /\ s \in Seq(Goal)
             /\ \A n \in 1 .. Len(s) : s[n] \in wanted
             /\ \A t \in wanted : \E n \in 1 .. Len(s) : s[n] = t
             /\ \A m, n \in 1 .. Len(s) : s[m] = s[n] => m = n
           F == IF "feed" \in wanted THEN <<"feed">> ELSE <<>>
           S == IF "story" \in wanted THEN <<"story">> ELSE <<>>
           P == IF "page" \in wanted THEN <<"page">> ELSE <<>>
<1>1. InOrder(wanted) = F \o S \o P
  BY DEF InOrder
<1>2. OrderOK(F \o S \o P)
  <2>1. CASE "feed" \in wanted /\ "story" \in wanted /\ "page" \in wanted
    BY <2>1 DEF Goal
  <2>2. CASE "feed" \in wanted /\ "story" \in wanted /\ "page" \notin wanted
    BY <2>2 DEF Goal
  <2>3. CASE "feed" \in wanted /\ "story" \notin wanted /\ "page" \in wanted
    BY <2>3 DEF Goal
  <2>4. CASE "feed" \in wanted /\ "story" \notin wanted /\ "page" \notin wanted
    BY <2>4 DEF Goal
  <2>5. CASE "feed" \notin wanted /\ "story" \in wanted /\ "page" \in wanted
    BY <2>5 DEF Goal
  <2>6. CASE "feed" \notin wanted /\ "story" \in wanted /\ "page" \notin wanted
    BY <2>6 DEF Goal
  <2>7. CASE "feed" \notin wanted /\ "story" \notin wanted /\ "page" \in wanted
    BY <2>7 DEF Goal
  <2>8. CASE "feed" \notin wanted /\ "story" \notin wanted /\ "page" \notin wanted
    BY <2>8 DEF Goal
  <2>. QED  BY <2>1, <2>2, <2>3, <2>4, <2>5, <2>6, <2>7, <2>8
<1>. QED  BY <1>1, <1>2

\* Every request and every answer of Graph keeps the targets in order.
LEMMA GraphInvNext == GraphInv /\ [GraphNext]_graphVars => GraphInv'
<1> SUFFICES ASSUME GraphInv, [GraphNext]_graphVars PROVE GraphInv'
  OBVIOUS
<1>0. at \in AtType
  BY DEF GraphInv, GraphTypeOK
<1>1. CASE UNCHANGED graphVars
  BY <1>0, <1>1, AtMoves DEF graphVars, answer
<1>2. at.step # "make" => todo # <<>>
  BY DEF GraphInv, AtOK
<1>3. ASSUME AskToPost PROVE GraphInv'
  <2>1. /\ todo = <<>> /\ DOMAIN live = {} /\ lost = {} /\ results = {}
        /\ at.step = "make" /\ at.piece = 1
    BY <1>3 DEF AskToPost, GraphInv, AskedOK, AtOK
  <2>2. PICK wanted \in SUBSET Goal :
           todo' = InOrder(wanted) /\ live' = [t \in wanted |-> [p \in 1 .. PieceCount(t)' |-> 0]]
    BY <1>3 DEF AskToPost, Goal
  <2>3. /\ post' \in [photos : Nat, videos : Nat] /\ post'.photos + post'.videos > 0
        /\ post'.photos + post'.videos # 0
    BY <1>3, GraphAssumption DEF AskToPost
  <2>4. \A t \in Goal : PieceCount(t)' \in Nat /\ PieceCount(t)' > 0
    BY <2>3 DEF PieceCount
  <2>5. at' = at /\ lost' = {} /\ results' = {}
    BY <1>3, <2>1 DEF AskToPost, answer
  <2>6. /\ todo' \in Seq(Goal) /\ Len(todo') \in Nat
        /\ \A n \in 1 .. Len(todo') : todo'[n] \in wanted
        /\ \A t \in wanted : \E n \in 1 .. Len(todo') : todo'[n] = t
        /\ \A m, n \in 1 .. Len(todo') : todo'[m] = todo'[n] => m = n
    BY <2>2, InOrderIs
  <2>7. /\ DOMAIN live' = wanted
        /\ \A t \in wanted : live'[t] = [p \in 1 .. PieceCount(t)' |-> 0]
    BY <2>2
  <2>8. \A t \in wanted : live'[t] \in [1 .. PieceCount(t)' -> Nat]
    BY <2>7
  <2>9. GraphTypeOK'
    BY <1>0, <2>3, <2>5, <2>6, <2>7, <2>8 DEF GraphTypeOK
  <2>10. AskedOK'
    BY <2>3, <2>4 DEF AskedOK
  <2>11. AtOK'
    <3>1. CASE todo' = <<>>
      BY <2>1, <2>5, <3>1 DEF AtOK
    <3>2. CASE todo' # <<>>
      <4>1. todo'[1] \in Goal
        BY <2>6, <3>2
      <4>. QED  BY <2>1, <2>4, <2>5, <3>2, <4>1 DEF AtOK
    <3>. QED  BY <3>1, <3>2
  <2>12. TodoOK'
    <3> SUFFICES ASSUME NEW n \in 1 .. Len(todo')
                 PROVE  /\ todo'[n] \in DOMAIN live' /\ todo'[n] \notin results'
                        /\ \A p \in 1 .. PieceCount(todo[n])' :
                               /\ <<todo'[n], p>> \notin lost'
                               /\ live'[todo'[n]][p] = IF n = 1 /\ p < at'.piece THEN 1 ELSE 0
      BY DEF TodoOK
    <3>1. PICK t \in wanted : t = todo'[n]
      BY <2>6
    <3>2. PieceCount(todo[n])' = PieceCount(t)'
      BY <3>1 DEF PieceCount
    <3>3. \A p \in 1 .. PieceCount(todo[n])' : live'[t][p] = 0 /\ ~(p < 1)
      <4>1. live'[t] = [p \in 1 .. PieceCount(t)' |-> 0]
        BY <2>7, <3>1
      <4>2. \A p \in 1 .. PieceCount(t)' : live'[t][p] = 0 /\ ~(p < 1)
        BY <4>1
      <4>. QED  BY <3>2, <4>2
    <3>. QED  BY <2>1, <2>5, <2>7, <3>1, <3>3
  <2>13. ServedOK'
    BY <2>6, <2>7 DEF ServedOK
  <2>. QED  BY <2>9, <2>10, <2>11, <2>12, <2>13 DEF GraphInv
<1>4. ASSUME todo # <<>>, StepOn, UNCHANGED <<post, todo, live, answer, lost>> PROVE GraphInv'
  <2>1. Head(todo) \in Goal /\ at.piece \in 1 .. PieceCount(Head(todo))
    BY <1>4, AtWork
  <2>2. CASE IsChild
    <3>1. at' = [Start EXCEPT !.child = at.child + 1]
      BY <1>4, <2>2 DEF StepOn
    <3>2. at.child \in Nat /\ at.child > 0
      BY <1>0 DEF AtType, Positive
    <3>3. at.child + 1 \in Nat /\ at.child + 1 > 0
      BY <3>2
    <3>4. Children(Head(todo)) > 0
      BY <2>2, <3>2 DEF IsChild, Children, GraphInv, GraphTypeOK
    <3>5. PieceCount(Head(todo)) = 1
      BY <2>1, <3>4 DEF Children, PieceCount
    <3>6. at.piece = 1
      BY <2>1, <3>5
    <3>7. at' \in AtType /\ at'.piece = at.piece
      BY <3>1, <3>3, <3>6, StartIs
    <3>. QED  BY <1>4, <3>7, AtMoves
  <2>3. CASE ~IsChild
    <3>1. at' = [at EXCEPT !.step = "publish", !.spare = 1]
      BY <1>4, <2>3 DEF StepOn
    <3>2. at' \in AtType /\ at'.piece = at.piece
      BY <1>0, <3>1 DEF AtType
    <3>. QED  BY <1>4, <3>2, AtMoves
  <2>. QED  BY <2>2, <2>3
<1>5. ASSUME Make PROVE GraphInv'
  <2>1. CASE Head(todo) = "page"
    BY <1>4, <1>5, <2>1 DEF Make
  <2>2. CASE Head(todo) # "page"
    <3>1. /\ at' = [at EXCEPT !.step = "wait"] /\ todo # <<>>
          /\ UNCHANGED <<post, todo, live, answer, lost>>
      BY <1>5, <2>2 DEF Make
    <3>2. at' \in AtType /\ at'.piece = at.piece
      BY <1>0, <3>1 DEF AtType
    <3>. QED  BY <3>1, <3>2, AtMoves
  <2>. QED  BY <2>1, <2>2
<1>6. ASSUME Process PROVE GraphInv'
  BY <1>0, <1>6, AtMoves DEF Process
<1>7. ASSUME Ready PROVE GraphInv'
  BY <1>2, <1>4, <1>7 DEF Ready
<1>8. ASSUME SeeError PROVE GraphInv'
  <2>1. todo # <<>> /\ UNCHANGED <<post, todo, live, answer, lost>>
    BY <1>2, <1>8 DEF SeeError
  <2>2. CASE at' = [at EXCEPT !.spare = 0]
    <3>1. at' \in AtType /\ at'.piece = at.piece
      BY <1>0, <2>2 DEF AtType
    <3>. QED  BY <2>1, <3>1, AtMoves
  <2>3. CASE Reel /\ at' = [Start EXCEPT !.again = TRUE]
    <3>1. at.piece \in 1 .. PieceCount(Head(todo)) /\ PieceCount(Head(todo)) = 1
      BY <2>1, <2>3, AtWork DEF Reel, PieceCount
    <3>2. at.piece = 1
      BY <3>1
    <3>3. at' \in AtType /\ at'.piece = at.piece
      BY <2>3, <3>2, StartIs
    <3>. QED  BY <2>1, <3>3, AtMoves
  <2>. QED  BY <1>8, <2>2, <2>3 DEF SeeError
<1>9. ASSUME Publish PROVE GraphInv'
  <2>1. todo # <<>>
    BY <1>2, <1>9 DEF Publish
  <2>2. CASE PutOut /\ PieceDone /\ UNCHANGED lost
    BY <2>1, <2>2, PieceDoneInv
  <2>3. CASE Unanswered
    BY <2>1, <2>3, FailInv DEF Unanswered
  <2>4. CASE NotReady
    <3>1. at' = [at EXCEPT !.spare = 0] /\ UNCHANGED <<post, todo, live, answer, lost>>
      BY <2>4 DEF NotReady
    <3>2. at' \in AtType /\ at'.piece = at.piece
      BY <1>0, <3>1 DEF AtType
    <3>. QED  BY <2>1, <3>1, <3>2, AtMoves
  <2>. QED  BY <1>9, <2>2, <2>3, <2>4 DEF Publish
<1>10. ASSUME GraphRaises PROVE GraphInv'
  BY <1>10, FailInv DEF GraphRaises
<1>. QED  BY <1>1, <1>3, <1>5, <1>6, <1>7, <1>8, <1>9, <1>10 DEF GraphNext

\* With no target left, each wanted one is as its answer says.
LEMMA InvAsAnswered == GraphInv => PostsAsAnswered
<1> SUFFICES ASSUME GraphInv, todo = <<>>, NEW t \in DOMAIN live
             PROVE  CASE t \in results -> \A p \in 1 .. PieceCount(t) : live[t][p] = 1
                      [] OTHER -> /\ t \in errors
                                  /\ \E p \in 1 .. PieceCount(t) :
                                         /\ \A q \in 1 .. p - 1 : live[t][q] = 1
                                         /\ \A q \in p + 1 .. PieceCount(t) : live[t][q] = 0
                                         /\ live[t][p] = IF <<t, p>> \in lost THEN 1 ELSE 0
  BY DEF PostsAsAnswered
<1>1. 1 .. Len(todo) = {}
  OBVIOUS
<1>2. AsAnswered(t)
  BY <1>1 DEF GraphInv, ServedOK
<1>. QED  BY <1>2 DEF AsAnswered, StoppedAt

\* What the posting endpoint answers is so on the accounts: a result for a target that
\* is out in full, an error for one that stopped at a piece (social_media.py).
THEOREM PostsAsAnsweredHolds == GraphSpec => []PostsAsAnswered
BY GraphInvInit, GraphInvNext, InvAsAnswered, PTL DEF GraphSpec
=============================================================================
