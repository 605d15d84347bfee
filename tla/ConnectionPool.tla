--------------------------- MODULE ConnectionPool ---------------------------
(***************************************************************************)
(* The SQLite connection pool of a process.  A thread takes a connection   *)
(* from the queue, opens one while the pool is below its size, or waits    *)
(* for one to come back, and it waits with the pool's lock in its hand.    *)
(* db_connection gives its connection back whatever happens; a user of     *)
(* get_db that raises before close() does not.                             *)
(***************************************************************************)
CONSTANTS
    Thread,     \* threads of the process
    Slot        \* connections the pool may open, POOL_SIZE of them

None == "none"
ASSUME PoolAssumption == None \notin Thread \cup Slot

VARIABLES
    unopened,   \* slots without a connection yet
    queue,      \* connections waiting in the queue
    leaked,     \* connections whose user went away without close()
    poolLock,   \* the thread that holds the pool's lock
    thread      \* where each thread is, how it uses the pool, what it holds

poolVars == <<unopened, queue, leaked, poolLock, thread>>

Away == [at |-> "away", managed |-> TRUE, conn |-> None]

PoolInit ==
    /\ unopened = Slot /\ queue = {} /\ leaked = {} /\ poolLock = None
    /\ thread = [t \in Thread |-> Away]

At(t, at)    == thread' = [thread EXCEPT ![t].at = at]
Hold(t, c)   == thread' = [thread EXCEPT ![t].at = "using", ![t].conn = c]
GoAway(t)    == thread' = [thread EXCEPT ![t] = Away]

\* A thread enters db_connection, or calls get_db.
Ask(t) ==
    /\ thread[t].at = "away"
    /\ \E managed \in BOOLEAN :
          thread' = [thread EXCEPT ![t] = [Away EXCEPT !.at = "asking", !.managed = managed]]
    /\ UNCHANGED <<unopened, queue, leaked, poolLock>>

\* get_nowait: a connection, or Empty.
TryQueue(t) ==
    /\ thread[t].at = "asking"
    /\ IF queue = {} THEN At(t, "empty") /\ UNCHANGED queue
       ELSE \E c \in queue : queue' = queue \ {c} /\ Hold(t, c)
    /\ UNCHANGED <<unopened, leaked, poolLock>>

Lock(t) ==
    /\ thread[t].at = "empty" /\ poolLock = None
    /\ poolLock' = t
    /\ At(t, IF unopened # {} THEN "opening" ELSE "waiting")
    /\ UNCHANGED <<unopened, queue, leaked>>

Open(t) ==
    /\ thread[t].at = "opening"
    /\ \E c \in unopened : unopened' = unopened \ {c} /\ Hold(t, c)
    /\ poolLock' = None
    /\ UNCHANGED <<queue, leaked>>

\* Slip: the pool counts a connection before it is open.
OpenFailsCounted(t) ==
    /\ thread[t].at = "opening"
    /\ \E c \in unopened : unopened' = unopened \ {c}
    /\ GoAway(t) /\ poolLock' = None
    /\ UNCHANGED <<queue, leaked>>

\* sqlite3.connect raises: nothing is counted, the lock is given back.
OpenFails(t) ==
    /\ thread[t].at = "opening"
    /\ GoAway(t) /\ poolLock' = None
    /\ UNCHANGED <<unopened, queue, leaked>>

\* get() returns; the thread has held the lock for as long as it waited.
TakeReturned(t) ==
    /\ thread[t].at = "waiting" /\ queue # {}
    /\ \E c \in queue : queue' = queue \ {c} /\ Hold(t, c)
    /\ poolLock' = None
    /\ UNCHANGED <<unopened, leaked>>

\* close(), at the end of the use or while an exception leaves db_connection.
GiveBack(t) ==
    /\ thread[t].at = "using"
    /\ queue' = queue \cup {thread[t].conn} /\ GoAway(t)
    /\ UNCHANGED <<unopened, leaked, poolLock>>

\* An exception between get_db() and close().
LoseConnection(t) ==
    /\ thread[t].at = "using" /\ ~thread[t].managed
    /\ leaked' = leaked \cup {thread[t].conn} /\ GoAway(t)
    /\ UNCHANGED <<unopened, queue, poolLock>>

PoolNext ==
    \E t \in Thread :
        \/ Ask(t) \/ TryQueue(t) \/ Lock(t) \/ Open(t) \/ OpenFails(t)
        \/ TakeReturned(t) \/ GiveBack(t) \/ LoseConnection(t)

PoolSpec == PoolInit /\ [][PoolNext]_poolVars

(***************************************************************************)
(* Properties                                                              *)
(***************************************************************************)
\* A connection is unopened, in the queue, lost, or in the hands of one thread:
\* two threads never share one, and none disappears but by a raw user's fault.
NoneMislaid ==
    /\ Slot = unopened \cup queue \cup leaked
                \cup {c \in Slot : \E t \in Thread : thread[t].conn = c}
    /\ unopened \cap queue = {} /\ leaked \cap (unopened \cup queue) = {}
    /\ \A t \in Thread : thread[t].conn \notin unopened \cup queue \cup leaked
    /\ \A t, u \in Thread : thread[t].conn = thread[u].conn /\ thread[t].conn # None => t = u

\* Nobody waits in vain: the thread that waits for a connection, and with it
\* every thread that waits for its lock, waits for somebody, as a connection is
\* in the queue or in use until raw users have lost every one of the pool; and
\* no connection is mislaid.
SomeoneGivesBack ==
    /\ NoneMislaid
    /\ \A t \in Thread :
           thread[t].at = "waiting" /\ leaked # Slot =>
               queue # {} \/ \E u \in Thread : thread[u].at = "using"
=============================================================================
