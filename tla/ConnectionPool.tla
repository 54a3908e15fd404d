--------------------------- MODULE ConnectionPool ---------------------------
(***************************************************************************)
(* The engine's connection pool (database/session.py) under the scan       *)
(* service, with a Postgres that never goes away: it only refuses a `ref'  *)
(* longer than its column.                                                 *)
(*                                                                         *)
(* A session checks a connection out with its first statement and gives it *)
(* back at commit; ScanRepository follows every commit with a refresh,     *)
(* which checks one out again and keeps it.  So create_scan leaves get_db's*)
(* session holding a connection until the response's background task is    *)
(* over, and that task needs a second one.  A checkout waits while the     *)
(* pool is exhausted and raises after the pool timeout (30 s).             *)
(***************************************************************************)
EXTENDS Naturals, FiniteSets

CONSTANTS
    Scans,      \* the scans posted, each by its own request
    LongRefs,   \* those whose `ref' may exceed the column's 100 characters
    Readers,    \* clients that GET
    Capacities  \* the pool sizes considered (pool_size + max_overflow is 15)

ASSUME PoolAssumption ==
    /\ IsFiniteSet(Scans) /\ IsFiniteSet(Readers) /\ LongRefs \subseteq Scans
    /\ Capacities \subseteq Nat \ {0}

VARIABLES
    capacity,   \* pool_size + max_overflow, fixed
    available,  \* session._db_available
    pc,         \* where each request's coroutine is
    reqConn,    \* the scans whose request session holds a connection
    taskConn,   \* the scans whose task session holds one
    lock,       \* scans._LOCK: the set of its holders
    status,     \* workflow_status of each scan's row
    reader,     \* what each reader is doing
    misled      \* history: get_db took a 404 or a refused insert for an outage

vars == <<capacity, available, pc, reqConn, taskConn, lock, status, reader, misled>>

PCs == {"new",
        "inserting",     \* create: flush and commit            waits for a connection
        "inserted",      \* create: refresh                     waits for a connection
        "acked",         \* 202 sent; next: StartTask
        "detached",      \* the task runs on the memory store and finds no record
        "locking",       \* waits for _LOCK
        "marking",       \* first update, under _LOCK           waits for a connection
        "marked",        \* its refresh, under _LOCK            waits for a connection
        "scanning",      \* _sync_scan, connection held
        "profiled",      \* refresh after the profile           waits for a connection
        "supervising",   \* supervisor, connection held
        "outcome",       \* refresh after the outcome           waits for a connection
        "failing",       \* except block's update               waits if it holds none
        "failed",        \* its refresh                         waits for a connection
        "closing",       \* next: Exit
        "ended", "refused"}

InUse == Cardinality(reqConn) + Cardinality(taskConn)
         + Cardinality({r \in Readers : reader[r] = "reading"})

\* Variant: one connection is always held back.
FreeSparing == InUse + 1 < capacity

Free == InUse < capacity

Init ==
    /\ capacity \in Capacities
    /\ available = TRUE
    /\ pc = [s \in Scans |-> "new"]
    /\ reqConn = {} /\ taskConn = {} /\ lock = {}
    /\ status = [s \in Scans |-> "absent"]
    /\ reader = [r \in Readers |-> "idle"]
    /\ misled = FALSE
-----------------------------------------------------------------------------
Goto(s, next) == pc' = [pc EXCEPT ![s] = next]
Record(s, value) == status' = [status EXCEPT ![s] = value]

\* get_db on entry; without a session create writes the memory store, which
\* this module does not follow.
Post(s) ==
    /\ pc[s] = "new" /\ available
    /\ Goto(s, "inserting")
    /\ UNCHANGED <<capacity, available, reqConn, taskConn, lock, status, reader, misled>>

\* create: the insert is committed and its connection is back in the pool.
Insert(s) ==
    /\ pc[s] = "inserting" /\ Free
    /\ Record(s, "queued")
    /\ Goto(s, "inserted")
    /\ UNCHANGED <<capacity, available, reqConn, taskConn, lock, reader, misled>>

\* create: refresh takes the connection the request keeps from now on.
Acknowledge(s) ==
    /\ pc[s] = "inserted" /\ Free
    /\ reqConn' = reqConn \cup {s}
    /\ Goto(s, "acked")
    /\ UNCHANGED <<capacity, available, taskConn, lock, status, reader, misled>>

\* The checkout times out inside create_scan: get_db clears the flag.
Refuse(s) ==
    /\ pc[s] \in {"inserting", "inserted"} /\ ~Free
    /\ available' = FALSE
    /\ Goto(s, "refused")
    /\ UNCHANGED <<capacity, reqConn, taskConn, lock, status, reader, misled>>

\* get_db's outer except takes any exception for a database that is down.
Misled ==
    /\ available' = FALSE
    /\ misled' = TRUE
    /\ UNCHANGED <<capacity, reqConn, taskConn, lock, status>>

\* The insert itself raises; its connection is back in the pool after rollback.
RefuseLongRef(s) ==
    /\ pc[s] = "inserting" /\ s \in LongRefs /\ Free
    /\ Misled
    /\ Goto(s, "refused")
    /\ UNCHANGED reader

StartTask(s) ==
    /\ pc[s] = "acked"
    /\ Goto(s, IF available THEN "locking" ELSE "detached")
    /\ UNCHANGED <<capacity, available, reqConn, taskConn, lock, status, reader, misled>>

\* Every update of a detached task returns None.
RunDetached(s) ==
    /\ pc[s] = "detached"
    /\ Goto(s, "closing")
    /\ UNCHANGED <<capacity, available, reqConn, taskConn, lock, status, reader, misled>>
-----------------------------------------------------------------------------
TakeLock(s) ==
    /\ pc[s] = "locking" /\ lock = {}
    /\ lock' = {s}
    /\ Goto(s, "marking")
    /\ UNCHANGED <<capacity, available, reqConn, taskConn, status, reader, misled>>

\* A commit: the value is in the row, the task's connection is in the pool.
Commit(s, value, next) ==
    /\ Record(s, value)
    /\ taskConn' = taskConn \ {s}
    /\ Goto(s, next)
    /\ UNCHANGED <<capacity, available, reqConn, lock, reader, misled>>

Mark(s) == pc[s] = "marking" /\ Free /\ Commit(s, "running", "marked")

\* The scan raises with the connection in hand, or its profile is committed.
Scan(s) ==
    /\ pc[s] = "scanning"
    /\ \/ Commit(s, status[s], "profiled")
       \/ /\ Goto(s, "failing")
          /\ UNCHANGED <<capacity, available, reqConn, taskConn, lock, status, reader, misled>>

Supervise(s) ==
    /\ pc[s] = "supervising"
    /\ \E outcome \in {"completed", "failed"} : Commit(s, outcome, "outcome")

RecordFailure(s) ==
    /\ pc[s] = "failing" /\ (s \in taskConn \/ Free)
    /\ Commit(s, "failed", "failed")

AfterRefresh == [marked |-> "scanning", profiled |-> "supervising",
                 outcome |-> "closing", failed |-> "closing"]

\* refresh after a commit; the first one ends the block under _LOCK.
Refresh(s) ==
    /\ pc[s] \in DOMAIN AfterRefresh /\ Free
    /\ taskConn' = taskConn \cup {s}
    /\ lock' = lock \ {s}
    /\ Goto(s, AfterRefresh[pc[s]])
    /\ UNCHANGED <<capacity, available, reqConn, status, reader, misled>>

\* Variants: the lock is not left by an exception; a checkout waits forever.
TaskTimeoutLocked(s) ==
    /\ ~Free
    /\ \/ /\ pc[s] \in {"marking", "marked", "profiled", "outcome"}
          /\ Goto(s, "failing")
       \/ /\ \/ pc[s] = "failing" /\ s \notin taskConn
             \/ pc[s] = "failed"
          /\ Goto(s, "closing")
    /\ UNCHANGED <<capacity, available, reqConn, taskConn, lock, status, reader, misled>>
TaskTimeoutNever(s) == pc[s] = "ended" /\ UNCHANGED vars

\* The task's checkout times out: to the except block, or, inside it, swallowed.
TaskTimeout(s) ==
    /\ ~Free
    /\ \/ /\ pc[s] \in {"marking", "marked", "profiled", "outcome"}
          /\ Goto(s, "failing")
       \/ /\ \/ pc[s] = "failing" /\ s \notin taskConn
             \/ pc[s] = "failed"
          /\ Goto(s, "closing")
    /\ lock' = lock \ {s}
    /\ UNCHANGED <<capacity, available, reqConn, taskConn, status, reader, misled>>

\* The task closes its session; the response is complete and get_db commits.
Exit(s) ==
    /\ pc[s] = "closing"
    /\ taskConn' = taskConn \ {s}
    /\ reqConn' = reqConn \ {s}
    /\ Goto(s, "ended")
    /\ UNCHANGED <<capacity, available, lock, status, reader, misled>>
-----------------------------------------------------------------------------
\* A GET holds one connection from its first statement to the end of get_db.
ReadBegin(r) ==
    /\ reader[r] = "idle" /\ available /\ Free
    /\ reader' = [reader EXCEPT ![r] = "reading"]
    /\ UNCHANGED <<capacity, available, pc, reqConn, taskConn, lock, status, misled>>

ReadEnd(r) ==
    /\ reader[r] = "reading"
    /\ reader' = [reader EXCEPT ![r] = "idle"]
    /\ UNCHANGED <<capacity, available, pc, reqConn, taskConn, lock, status, misled>>

\* A GET that ends in a 404: HTTPException passes through get_db's excepts, the
\* connection is given back and the flag cleared.
ReadNotFound(r) ==
    /\ reader[r] = "reading"
    /\ reader' = [reader EXCEPT ![r] = "idle"]
    /\ Misled
    /\ UNCHANGED pc

\* A GET whose checkout times out: get_db takes that for a database that is down.
ReadTimeout(r) ==
    /\ reader[r] = "idle" /\ available /\ ~Free
    /\ available' = FALSE
    /\ UNCHANGED <<capacity, pc, reqConn, taskConn, lock, status, reader, misled>>
-----------------------------------------------------------------------------
Coroutine(s) ==
    \/ Insert(s) \/ RefuseLongRef(s) \/ Acknowledge(s) \/ Refuse(s)
    \/ StartTask(s) \/ RunDetached(s) \/ TakeLock(s) \/ Mark(s) \/ Scan(s) \/ Supervise(s) \/ RecordFailure(s)
    \/ Refresh(s) \/ TaskTimeout(s) \/ Exit(s)

Next ==
    \/ \E s \in Scans : Post(s) \/ Coroutine(s)
    \/ \E r \in Readers : ReadBegin(r) \/ ReadEnd(r) \/ ReadNotFound(r) \/ ReadTimeout(r)

Spec == Init /\ [][Next]_vars

\* A waiting checkout is served or times out, asyncio.Lock is handed to its
\* waiters in turn, scans and supervisor runs return, readers finish reading.
FairSpec ==
    /\ Spec
    /\ \A s \in Scans : WF_vars(Coroutine(s)) /\ SF_vars(TakeLock(s))
    /\ \A r \in Readers : WF_vars(ReadEnd(r) \/ ReadNotFound(r))
-----------------------------------------------------------------------------
Statuses == {"absent", "queued", "running", "completed", "failed"}

TypeOK ==
    /\ capacity \in Capacities /\ available \in BOOLEAN
    /\ pc \in [Scans -> PCs]
    /\ reqConn \subseteq Scans /\ taskConn \subseteq Scans /\ lock \subseteq Scans
    /\ status \in [Scans -> Statuses]
    /\ reader \in [Readers -> {"idle", "reading"}]
    /\ misled \in BOOLEAN

\* What a request takes it gives back, whatever failed or timed out on the way:
\* _LOCK is held by one task and only inside its first update, so no later scan
\* waits for it forever, and a request that is over holds no connection.
GivenBack ==
    /\ \A s, t \in lock : s = t
    /\ \A s \in Scans :
           /\ s \in lock <=> pc[s] \in {"marking", "marked"}
           /\ pc[s] \in {"new", "ended", "refused"} => s \notin reqConn \cup taskConn

(* The coroutines that cannot go on without a connection. *)
Waits(s) ==
    \/ pc[s] \in {"inserting", "inserted", "marking", "marked", "profiled", "outcome", "failed"}
    \/ pc[s] = "failing" /\ s \notin taskConn

Ample == capacity >= 2 * Cardinality(Scans) + Cardinality(Readers)

\* Two connections per scan in flight and one per reader are enough for the pool:
\* then no checkout ever times out.  The flag is cleared only by what get_db
\* mistakes for an outage, a POST is refused only for its ref, and a request that
\* is over has settled its scan, unless that flag sent its task elsewhere while
\* the row was still queued: a scan once running is never lost.
AmplePoolServes ==
    Ample =>
        /\ (\E s \in Scans : Waits(s)) => Free
        /\ ~available => misled
        /\ \A s \in Scans :
              /\ pc[s] = "refused" => s \in LongRefs
              /\ pc[s] = "ended" =>
                    status[s] \in {"completed", "failed"} \/ (misled /\ status[s] = "queued")

\* Requests that hold a connection and wait for a second one cannot block each
\* other forever: every acknowledged request comes to its end at any pool size.
EveryRequestEnds == \A s \in Scans : pc[s] = "acked" ~> pc[s] = "ended"
=============================================================================
