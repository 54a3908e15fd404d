---------------------------- MODULE ScanService ----------------------------
(***************************************************************************)
(* The orchestrator's scan service: the HTTP handlers of api/scans.py, the *)
(* get_db dependency and its _db_available flag (database/session.py), the *)
(* repository over two stores (database/repository.py) and the background  *)
(* task that drives one scan.                                              *)
(*                                                                         *)
(* One coroutine per POST runs the whole life of a scan: get_db is entered,*)
(* create_scan commits the queued record and answers 202, the response     *)
(* runs _run_scan_task as its background task, and only then is get_db     *)
(* left.  Coroutines of different scans and the GET handlers interleave at *)
(* every await; Postgres can go away and come back, the process can stop   *)
(* and be started again.                                                   *)
(***************************************************************************)
EXTENDS Naturals

CONSTANTS
    Scans,          \* the ids uuid4 will hand out, one per POST
    Enriched,       \* the scans whose request has enrich_with_kg = True
    LongRefs,       \* the scans whose `ref' may exceed the column's 100 characters
    GetKinds,       \* which reading requests clients make, see NotFound
    MaxOutages,     \* bound: how often Postgres becomes unreachable
    MaxRestarts,    \* bound: how often the process is restarted
    MaxTorn,        \* bound: commits that land but whose refresh raises
    MaxTimeouts     \* bound: checkouts that wait too long for a busy pool

ASSUME ScansAssumption == Enriched \subseteq Scans /\ LongRefs \subseteq Scans
ASSUME KindsAssumption == GetKinds \subseteq {"scan", "report", "list", "wrong"}
ASSUME BoundsAssumption == /\ MaxOutages \in Nat
                           /\ MaxRestarts \in Nat
                           /\ MaxTorn \in Nat
                           /\ MaxTimeouts \in Nat

VARIABLES
    dbAvailable,    \* session._db_available
    dbUp,           \* whether Postgres answers (environment)
    rows,           \* the scans table
    memory,         \* repository._memory_store
    pc,             \* where each scan's coroutine is
    reqSession,     \* the session get_db yielded to create_scan
    taskSession,    \* the session _run_scan_task opened for itself
    outages, restarts, torn, timeouts

vars == <<dbAvailable, dbUp, rows, memory, pc, reqSession, taskSession,
          outages, restarts, torn, timeouts>>
faults == <<outages, restarts>>
glitches == <<torn, timeouts>>
-----------------------------------------------------------------------------
(* A record keeps what the properties tell apart: `profile' is the scanner *)
(* output, `report' everything the supervisor adds in one update (posture, *)
(* citations, narrative, final_report), `errors' a non-empty error list.   *)
Statuses == {"absent", "queued", "running", "completed", "failed"}
Steps    == {"none", "queued", "ingesting", "scanned", "completed"}
Record   == [status : Statuses, step : Steps,
             profile : BOOLEAN, report : BOOLEAN, errors : BOOLEAN]

Absent == [status |-> "absent", step |-> "none",
           profile |-> FALSE, report |-> FALSE, errors |-> FALSE]

\* Variant: the POST takes the scan for running at once.
QueuedAsRunning == [Absent EXCEPT !.status = "running", !.step = "queued"]

Queued == [Absent EXCEPT !.status = "queued", !.step = "queued"]

Exists(r)  == r.status # "absent"
Settled(r) == r.status \in {"completed", "failed"}

(* "none": no session, the repository uses the memory store.  "free": its  *)
(* next statement has to check a connection out of the pool.  "held": it   *)
(* has one, from the refresh that ends create and update.  "lost": its     *)
(* connection died inside a transaction, every further statement raises.   *)
SessionStates == {"none", "free", "held", "lost"}

PCs == {"new",        \* next: PostEnter
        "entered",    \* next: CreateRecord
        "acked",      \* next: OpenTask            202 has been sent
        "opened",     \* next: MarkRunning
        "scanning",   \* next: RunScan
        "scanned",    \* next: SaveProfile
        "profiled",   \* next: Supervise, FinishPlain
        "reported",   \* next: SaveOutcome         the supervisor completed
        "unreported", \* next: SaveOutcome         the supervisor failed
        "failing",    \* next: RecordFailure       in the except block
        "closing",    \* next: ExitRequest         the outcome is recorded
        "abandoning", \* next: ExitRequest         recording it raised too
        "ended", "abandoned", "refused", "killed"}

Over == {"ended", "abandoned", "refused", "killed"}
Idle == {"new"} \cup Over

Init ==
    /\ dbUp \in BOOLEAN
    /\ dbAvailable = dbUp           \* lifespan: init_db, exception swallowed
    /\ rows = [s \in Scans |-> Absent]
    /\ memory = [s \in Scans |-> Absent]
    /\ pc = [s \in Scans |-> "new"]
    /\ reqSession = [s \in Scans |-> "none"]
    /\ taskSession = [s \in Scans |-> "none"]
    /\ outages = 0 /\ restarts = 0 /\ torn = 0 /\ timeouts = 0
-----------------------------------------------------------------------------
(* Sessions.  A session is created without connecting.  What it is asked   *)
(* to write lands, raises, or lands and then raises in refresh ("torn"); a *)
(* session without a connection may also wait too long for one ("late"),   *)
(* with Postgres up, while other requests keep the pool busy.              *)
OpenSession == IF dbAvailable THEN "free" ELSE "none"

Outcomes(session) ==
    LET usable == session \in {"free", "held"}
    IN  {out \in {"ok", "raised", "torn", "late"} :
            \/ out = "ok" /\ (session = "none" \/ (usable /\ dbUp))
            \/ out = "torn" /\ usable /\ dbUp /\ torn < MaxTorn
            \/ out = "raised" /\ (session = "lost" \/ (usable /\ ~dbUp))
            \/ out = "late" /\ session = "free" /\ dbUp /\ timeouts < MaxTimeouts}

Landed(out) == out \in {"ok", "torn"}

(* refresh leaves the session with a connection.  A failed checkout leaves *)
(* it usable, a broken transaction does not.                               *)
SessionAfter(session, out) ==
    IF session \in {"none", "lost"} THEN {session}
    ELSE IF out = "ok" THEN {"held"}
    ELSE IF out \in {"late", "refused"} THEN {"free"} ELSE {"free", "lost"}

Count(out) ==
    /\ torn' = IF out = "torn" THEN torn + 1 ELSE torn
    /\ timeouts' = IF out = "late" THEN timeouts + 1 ELSE timeouts

Goto(s, next) == pc' = [pc EXCEPT ![s] = next]

(* ScanRepository.create on the request's session.  Nothing limits a ref    *)
(* before Postgres does, which refuses a long one.                         *)
CreateOutcomes(s) ==
    Outcomes(reqSession[s])
    \cup {out \in {"refused"} : s \in LongRefs /\ reqSession[s] = "free" /\ dbUp}

Create(s, out) ==
    /\ rows' = IF reqSession[s] # "none" /\ Landed(out)
               THEN [rows EXCEPT ![s] = Queued] ELSE rows
    /\ memory' = IF reqSession[s] = "none"
                 THEN [memory EXCEPT ![s] = Queued] ELSE memory
    /\ \E after \in SessionAfter(reqSession[s], out) :
           reqSession' = [reqSession EXCEPT ![s] = after]
    /\ Count(out)

(* The record the task's repository would find under the scan's id. *)
Current(s) == IF taskSession[s] = "none" THEN memory[s] ELSE rows[s]

\* Variant: a memory update that stores a record which is not there yet.
UpdateUpserting(s, new, out) ==
    /\ rows' = IF taskSession[s] # "none" /\ Exists(rows[s]) /\ Landed(out)
               THEN [rows EXCEPT ![s] = new] ELSE rows
    /\ memory' = IF taskSession[s] = "none" THEN [memory EXCEPT ![s] = new] ELSE memory
    /\ \E after \in SessionAfter(taskSession[s], out) :
           taskSession' = [taskSession EXCEPT ![s] = after]
    /\ Count(out)

(* ScanRepository.update on the task's session: a missing record is None,  *)
(* silently; a present one is overwritten.                                 *)
Update(s, new, out) ==
    /\ rows' = IF taskSession[s] # "none" /\ Exists(rows[s]) /\ Landed(out)
               THEN [rows EXCEPT ![s] = new] ELSE rows
    /\ memory' = IF taskSession[s] = "none" /\ Exists(memory[s])
                 THEN [memory EXCEPT ![s] = new] ELSE memory
    /\ \E after \in SessionAfter(taskSession[s], out) :
           taskSession' = [taskSession EXCEPT ![s] = after]
    /\ Count(out)
-----------------------------------------------------------------------------
(* POST /api/v1/scans *)

\* get_db up to its yield
PostEnter(s) ==
    /\ pc[s] = "new"
    /\ reqSession' = [reqSession EXCEPT ![s] = OpenSession]
    /\ Goto(s, "entered")
    /\ UNCHANGED <<dbAvailable, dbUp, rows, memory, taskSession, glitches, faults>>

\* Variant: the handler answers 202 whatever create did.
CreateRecordUnchecked(s) ==
    /\ pc[s] = "entered"
    /\ \E out \in CreateOutcomes(s) :
           /\ Create(s, out)
           /\ Goto(s, "acked")
           /\ dbAvailable' = (dbAvailable /\ out = "ok")
    /\ UNCHANGED <<dbUp, taskSession, faults>>

\* create_scan.  An exception is thrown into get_db, which clears the flag and
\* yields a second time: the client gets a 500 and no task is started.
CreateRecord(s) ==
    /\ pc[s] = "entered"
    /\ \E out \in CreateOutcomes(s) :
           /\ Create(s, out)
           /\ Goto(s, IF out = "ok" THEN "acked" ELSE "refused")
           /\ dbAvailable' = (dbAvailable /\ out = "ok")
    /\ UNCHANGED <<dbUp, taskSession, faults>>
-----------------------------------------------------------------------------
(* _run_scan_task *)

\* The task consults the flag again: it need not be what the POST saw.
OpenTask(s) ==
    /\ pc[s] = "acked"
    /\ taskSession' = [taskSession EXCEPT ![s] = OpenSession]
    /\ Goto(s, "opened")
    /\ UNCHANGED <<dbAvailable, dbUp, rows, memory, reqSession, glitches, faults>>

\* Variant: an exception ends the task without the except block's update.
TaskWriteUnguarded(s, new, next) ==
    /\ \E out \in Outcomes(taskSession[s]) :
           /\ Update(s, new, out)
           /\ Goto(s, IF out = "ok" THEN next ELSE "closing")
    /\ UNCHANGED <<dbAvailable, dbUp, reqSession, faults>>

\* A write of the task: on an exception control goes to the except block.
TaskWrite(s, new, next) ==
    /\ \E out \in Outcomes(taskSession[s]) :
           /\ Update(s, new, out)
           /\ Goto(s, IF out = "ok" THEN next ELSE "failing")
    /\ UNCHANGED <<dbAvailable, dbUp, reqSession, faults>>

MarkRunning(s) ==
    /\ pc[s] = "opened"
    /\ TaskWrite(s, [Current(s) EXCEPT !.status = "running", !.step = "ingesting"],
                 "scanning")

\* Variants: a scan that raised is carried on with, or dropped silently.
RunScanTolerant(s) ==
    /\ pc[s] = "scanning"
    /\ \E next \in {"scanned", "profiled"} : Goto(s, next)
    /\ UNCHANGED <<dbAvailable, dbUp, rows, memory, reqSession, taskSession, glitches, faults>>
RunScanSilent(s) ==
    /\ pc[s] = "scanning"
    /\ \E next \in {"scanned", "abandoning"} : Goto(s, next)
    /\ UNCHANGED <<dbAvailable, dbUp, rows, memory, reqSession, taskSession, glitches, faults>>

\* _sync_scan in a worker thread: it returns a profile or raises.
RunScan(s) ==
    /\ pc[s] = "scanning"
    /\ \E next \in {"scanned", "failing"} : Goto(s, next)
    /\ UNCHANGED <<dbAvailable, dbUp, rows, memory, reqSession, taskSession, glitches, faults>>

SaveProfile(s) ==
    /\ pc[s] = "scanned"
    /\ TaskWrite(s, [Current(s) EXCEPT !.profile = TRUE, !.step = "scanned"], "profiled")

\* supervisor.execute catches everything itself and returns completed or failed.
Supervise(s) ==
    /\ pc[s] = "profiled" /\ s \in Enriched
    /\ \E next \in {"reported", "unreported"} : Goto(s, next)
    /\ UNCHANGED <<dbAvailable, dbUp, rows, memory, reqSession, taskSession, glitches, faults>>

\* One update for the whole result.  current_step is "completed" either way and
\* the supervisor's errors are not among the fields written.
SaveOutcome(s) ==
    /\ pc[s] \in {"reported", "unreported"}
    /\ LET done == pc[s] = "reported"
       IN  TaskWrite(s, [Current(s) EXCEPT !.status = IF done THEN "completed" ELSE "failed",
                                           !.step = "completed",
                                           !.report = done], "closing")

FinishPlain(s) ==
    /\ pc[s] = "profiled" /\ s \notin Enriched
    /\ TaskWrite(s, [Current(s) EXCEPT !.status = "completed", !.step = "completed"],
                 "closing")

\* Variants: the failure record replaces the row; the update is retried forever.
RecordFailureFresh(s) ==
    /\ pc[s] = "failing"
    /\ \E out \in Outcomes(taskSession[s]) :
           /\ Update(s, [Queued EXCEPT !.status = "failed", !.errors = TRUE], out)
           /\ Goto(s, IF out = "ok" THEN "closing" ELSE "abandoning")
    /\ UNCHANGED <<dbAvailable, dbUp, reqSession, faults>>
RecordFailureForever(s) ==
    /\ pc[s] = "failing"
    /\ \E out \in Outcomes(taskSession[s]) :
           /\ Update(s, [Current(s) EXCEPT !.status = "failed", !.errors = TRUE], out)
           /\ Goto(s, IF out = "ok" THEN "closing" ELSE "failing")
    /\ UNCHANGED <<dbAvailable, dbUp, reqSession, faults>>

\* The except block; a second exception is swallowed.
RecordFailure(s) ==
    /\ pc[s] = "failing"
    /\ \E out \in Outcomes(taskSession[s]) :
           /\ Update(s, [Current(s) EXCEPT !.status = "failed", !.errors = TRUE], out)
           /\ Goto(s, IF out = "ok" THEN "closing" ELSE "abandoning")
    /\ UNCHANGED <<dbAvailable, dbUp, reqSession, faults>>

\* The request's own get_db resumes after the background task: its commit
\* raises when the connection held since create_scan has died meanwhile.
ExitRequest(s) ==
    /\ pc[s] \in {"closing", "abandoning"}
    /\ Goto(s, IF pc[s] = "closing" THEN "ended" ELSE "abandoned")
    /\ dbAvailable' = (dbAvailable /\ (reqSession[s] = "none"
                                       \/ (reqSession[s] = "held" /\ dbUp)))
    /\ UNCHANGED <<dbUp, rows, memory, reqSession, taskSession, glitches, faults>>
-----------------------------------------------------------------------------
(* Readers.  get_scan and get_findings are "scan", get_report is "report", *)
(* list_scans and get_statistics are "list"; a "wrong" request names no    *)
(* scan there ever was, or asks for a negative number of them.  A handler  *)
(* that meets a database error, or that raises HTTPException(404) inside   *)
(* get_db's try, leaves the flag cleared.                                  *)
Visible(s) == IF dbAvailable THEN rows[s] ELSE memory[s]

NotFound(kind, s) ==
    \/ kind = "scan" /\ ~Exists(Visible(s))
    \/ kind = "report" /\ ~Visible(s).report
    \/ kind = "wrong"

Get(kind, s) ==
    /\ dbAvailable
    /\ ~dbUp \/ NotFound(kind, s)
    /\ dbAvailable' = FALSE
    /\ UNCHANGED <<dbUp, rows, memory, pc, reqSession, taskSession, glitches, faults>>

\* A reader's checkout waits too long: get_db takes that for a database that is down.
GetLate ==
    /\ dbAvailable /\ dbUp /\ timeouts < MaxTimeouts
    /\ dbAvailable' = FALSE
    /\ timeouts' = timeouts + 1
    /\ UNCHANGED <<dbUp, rows, memory, pc, reqSession, taskSession, torn, faults>>
-----------------------------------------------------------------------------
(* The environment *)

(* The sessions of unfinished coroutines that hold a connection. *)
Holding(session) == {s \in Scans : pc[s] \notin Idle /\ session[s] = "held"}

\* Postgres goes away; any transaction in progress may lose its connection.
DbDown ==
    /\ dbUp /\ outages < MaxOutages
    /\ dbUp' = FALSE
    /\ outages' = outages + 1
    /\ \E R \in SUBSET Holding(reqSession), T \in SUBSET Holding(taskSession) :
           /\ reqSession' = [s \in Scans |-> IF s \in R THEN "lost" ELSE reqSession[s]]
           /\ taskSession' = [s \in Scans |-> IF s \in T THEN "lost" ELSE taskSession[s]]
    /\ UNCHANGED <<dbAvailable, rows, memory, pc, restarts, glitches>>

DbBack ==
    /\ ~dbUp
    /\ dbUp' = TRUE
    /\ UNCHANGED <<dbAvailable, rows, memory, pc, reqSession, taskSession, glitches, faults>>

\* The process stops, with every coroutine and the memory store, and starts
\* again: lifespan runs init_db and looks at no unfinished record.
Restart ==
    /\ restarts < MaxRestarts
    /\ restarts' = restarts + 1
    /\ pc' = [s \in Scans |-> IF pc[s] \in Idle THEN pc[s]
                              ELSE IF pc[s] = "entered" THEN "refused" ELSE "killed"]
    /\ memory' = [s \in Scans |-> Absent]
    /\ dbAvailable' = dbUp
    /\ UNCHANGED <<dbUp, rows, reqSession, taskSession, outages, glitches>>
-----------------------------------------------------------------------------
Coroutine(s) ==
    \/ CreateRecord(s) \/ OpenTask(s) \/ MarkRunning(s) \/ RunScan(s)
    \/ SaveProfile(s) \/ Supervise(s) \/ SaveOutcome(s) \/ FinishPlain(s)
    \/ RecordFailure(s) \/ ExitRequest(s)

Next ==
    \/ \E s \in Scans : PostEnter(s) \/ Coroutine(s)
    \/ \E s \in Scans, kind \in GetKinds : Get(kind, s)
    \/ GetLate
    \/ DbDown \/ DbBack \/ Restart

Spec == Init /\ [][Next]_vars

\* The event loop resumes every coroutine that can go on.  That a scan and a
\* supervisor run return is an assumption: the HTTP calls below them have
\* timeouts, git clone has none.  Clients, Postgres and the operator owe nothing.
FairSpec == Spec /\ \A s \in Scans : WF_vars(Coroutine(s))
-----------------------------------------------------------------------------
TypeOK ==
    /\ dbAvailable \in BOOLEAN /\ dbUp \in BOOLEAN
    /\ rows \in [Scans -> Record] /\ memory \in [Scans -> Record]
    /\ pc \in [Scans -> PCs]
    /\ reqSession \in [Scans -> SessionStates]
    /\ taskSession \in [Scans -> SessionStates]
    /\ outages \in Nat /\ restarts \in Nat /\ torn \in Nat /\ timeouts \in Nat

(* The client of scan s has been answered 202. *)
Acked(s) == pc[s] \notin {"new", "entered", "refused"}

(* create_scan had a session, so its record is a row. *)
InDatabase(s) == reqSession[s] # "none"

(* The flag was cleared between the POST and its task: the task works on   *)
(* the memory store, where the scan has no record.                         *)
Switched(s) == InDatabase(s) /\ taskSession[s] = "none"

\* create, update and list_all each pick a store by their own session, and the
\* flag may change in between.  Still no scan ever has a record in both stores.
OneStore == \A s \in Scans : ~(Exists(rows[s]) /\ Exists(memory[s]))

\* A scan that was answered 202 keeps its record in the store it was created
\* in; only a restart can take one away, and only from the memory store.
AckedRecordKept ==
    \A s \in Scans : Acked(s) =>
        IF InDatabase(s) THEN Exists(rows[s])
        ELSE Exists(memory[s]) \/ (restarts > 0 /\ pc[s] \in Over)

\* A reader that sees "completed" finds the profile, and the report too if the
\* request asked for enrichment, whatever failed and was retried on the way.
CompletedIsComplete ==
    \A s \in Scans : \A r \in {rows[s], memory[s]} :
        r.status = "completed" => r.profile /\ (s \in Enriched => r.report)

\* A finished task whose scan still reads queued or running has one of three
\* causes: its store was switched under it; Postgres was away or tore a commit;
\* or, with a Postgres that never failed, two checkouts waited too long for the
\* pool.  One such timeout alone loses no scan: the except block records it.
LossHasCause ==
    \A s \in Scans :
        /\ pc[s] \in {"ended", "abandoned"} /\ InDatabase(s) /\ ~Settled(rows[s])
        => \/ Switched(s)
           \/ pc[s] = "abandoned" /\ (outages + torn > 0 \/ timeouts >= 2)

\* A settled row is final, but for one hole: a commit that published the
\* outcome and then raised lets the except block turn it into "failed" with an
\* error, the profile and the report left in place.
SettledRowKept ==
    [][\A s \in Scans : Settled(rows[s]) =>
           \/ rows'[s] = rows[s]
           \/ /\ torn > 0
              /\ rows'[s] = [rows[s] EXCEPT !.status = "failed", !.errors = TRUE]]_vars

\* Every acknowledged scan's coroutine comes to its end, so that the session
\* and the connection of its request are given back.
CoroutineEnds == \A s \in Scans : Acked(s) ~> pc[s] \in Over

\* Without an outage, a torn commit, a restart or a second checkout that waited
\* too long, an acknowledged scan settles in the store it was created in, unless
\* that store was switched: by a reader's 404, by a POST whose ref Postgres
\* refuses, or by a request that waited too long for a connection.
AckedSettles ==
    \A s \in Scans : Acked(s) ~>
        \/ Settled(IF InDatabase(s) THEN rows[s] ELSE memory[s])
        \/ Switched(s) /\ pc[s] \in Over
        \/ outages + restarts + torn > 0 \/ timeouts >= 2

(* The status a scan has for whoever can reach the store it was created in. *)
Status == [s \in Scans |-> IF Exists(rows[s]) THEN rows[s].status ELSE memory[s].status]
LC == INSTANCE ScanLifecycle WITH
          status <- Status, durable <- {s \in Scans : Exists(rows[s])}

\* Through both stores, outages, torn commits and restarts, the status of a
\* scan moves only as the life cycle allows.
ImplementsLifecycle == LC!Spec
-----------------------------------------------------------------------------
\* "Lifecycle states: queued -> running -> completed | failed" (SYSTEM.md:118):
\* a scan that is queued does not stay in that state.
QueuedScanSettles == \A s \in Scans : rows[s].status = "queued" ~> Settled(rows[s])
=============================================================================
