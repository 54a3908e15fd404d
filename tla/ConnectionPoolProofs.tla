------------------------ MODULE ConnectionPoolProofs ------------------------
(***************************************************************************)
(* Proofs about the connection pool, for any scans, readers and pool sizes:*)
(* type correctness, that lock and connections are given back, and that a  *)
(* pool of two connections per scan and one per reader never makes anybody *)
(* wait in vain.                                                           *)
(***************************************************************************)
EXTENDS ConnectionPool, FiniteSetTheorems, TLAPS

\* Where a request can hold its own connection, and its task one.
HeldInScope ==
    /\ reqConn \subseteq {s \in Scans : pc[s] \notin {"new", "inserting", "inserted", "ended", "refused"}}
    /\ taskConn \subseteq {s \in Scans : pc[s] \in {"scanning", "supervising", "failing", "closing"}}
    /\ lock = {s \in Scans : pc[s] \in {"marking", "marked"}}
    /\ \A s, t \in lock : s = t

IInv == TypeOK /\ HeldInScope

LEMMA InitIInv == Init => IInv
  BY DEF Init, IInv, TypeOK, HeldInScope, PCs, Statuses

LEMMA CommitIInv ==
    ASSUME IInv, NEW s \in Scans, NEW value \in Statuses, NEW next \in PCs,
           Commit(s, value, next),
           pc[s] \in {"marking", "scanning", "supervising", "failing"},
           pc[s] = "marking" <=> next = "marked",
           next \in {"marked", "profiled", "outcome", "failed"}
    PROVE  IInv'
<1>1. TypeOK'
  BY DEF IInv, TypeOK, Commit, Goto, Record
<1>2. HeldInScope'
  BY DEF IInv, TypeOK, HeldInScope, Commit, Goto, Record
<1> QED
  BY <1>1, <1>2 DEF IInv

LEMMA RefreshIInv == ASSUME IInv, NEW s \in Scans, Refresh(s) PROVE IInv'
<1>1. pc[s] \in {"marked", "profiled", "outcome", "failed"}
  BY DEF Refresh, AfterRefresh
<1>2. /\ AfterRefresh[pc[s]] \in {"scanning", "supervising", "closing"}
      /\ AfterRefresh[pc[s]] \in PCs
  BY <1>1 DEF AfterRefresh, PCs
<1>3. TypeOK'
  BY <1>2 DEF IInv, TypeOK, Refresh, Goto
<1>4. HeldInScope'
  BY <1>1, <1>2 DEF IInv, TypeOK, HeldInScope, Refresh, Goto
<1> QED
  BY <1>3, <1>4 DEF IInv

\* The steps of a request before its task.
LEMMA RequestIInv ==
    ASSUME IInv, NEW s \in Scans,
           \/ Post(s) \/ Insert(s) \/ RefuseLongRef(s) \/ Acknowledge(s) \/ Refuse(s)
           \/ StartTask(s) \/ RunDetached(s)
    PROVE  IInv'
<1>1. TypeOK'
  BY DEF IInv, TypeOK, PCs, Statuses, Post, Insert, RefuseLongRef, Misled, Acknowledge,
         Refuse, StartTask, RunDetached, Goto, Record
<1>2. HeldInScope'
  BY DEF IInv, TypeOK, HeldInScope, Post, Insert, RefuseLongRef, Misled, Acknowledge,
         Refuse, StartTask, RunDetached, Goto, Record
<1> QED
  BY <1>1, <1>2 DEF IInv

LEMMA TakeLockIInv == ASSUME IInv, NEW s \in Scans, TakeLock(s) PROVE IInv'
<1>1. TypeOK'
  BY DEF IInv, TypeOK, PCs, TakeLock, Goto
<1>2. HeldInScope'
  BY DEF IInv, TypeOK, HeldInScope, TakeLock, Goto
<1> QED
  BY <1>1, <1>2 DEF IInv

LEMMA TaskTimeoutIInv == ASSUME IInv, NEW s \in Scans, TaskTimeout(s) PROVE IInv'
<1>1. TypeOK'
  BY DEF IInv, TypeOK, PCs, TaskTimeout, Goto
<1>2. HeldInScope'
  BY DEF IInv, TypeOK, HeldInScope, TaskTimeout, Goto
<1> QED
  BY <1>1, <1>2 DEF IInv

LEMMA ExitIInv == ASSUME IInv, NEW s \in Scans, Exit(s) PROVE IInv'
<1>1. TypeOK'
  BY DEF IInv, TypeOK, PCs, Exit, Goto
<1>2. HeldInScope'
  BY DEF IInv, TypeOK, HeldInScope, Exit, Goto
<1> QED
  BY <1>1, <1>2 DEF IInv

LEMMA ReaderIInv ==
    ASSUME IInv, NEW r \in Readers,
           ReadBegin(r) \/ ReadEnd(r) \/ ReadNotFound(r) \/ ReadTimeout(r)
    PROVE  IInv'
  BY DEF IInv, TypeOK, HeldInScope, ReadBegin, ReadEnd, ReadNotFound, Misled, ReadTimeout

LEMMA ScanIInv == ASSUME IInv, NEW s \in Scans, Scan(s) PROVE IInv'
<1>1. pc[s] = "scanning"
  BY DEF Scan
<1>2. CASE Commit(s, status[s], "profiled")
  BY <1>1, <1>2, CommitIInv DEF IInv, TypeOK, PCs
<1>3. CASE /\ Goto(s, "failing")
           /\ UNCHANGED <<capacity, available, reqConn, taskConn, lock, status, reader, misled>>
  BY <1>1, <1>3 DEF IInv, TypeOK, HeldInScope, Goto, PCs
<1> QED
  BY <1>2, <1>3 DEF Scan

\* Every step of a request or of its task.
LEMMA StepIInv == ASSUME IInv, [Next]_vars PROVE IInv'
<1>1. ASSUME NEW s \in Scans, Post(s) \/ Coroutine(s) PROVE IInv'
  <2>1. CASE \/ Post(s) \/ Insert(s) \/ RefuseLongRef(s) \/ Acknowledge(s) \/ Refuse(s)
             \/ StartTask(s) \/ RunDetached(s)
    BY <2>1, RequestIInv
  <2>2. CASE TakeLock(s)
    BY <2>2, TakeLockIInv
  <2>3. CASE Mark(s)
    <3>1. pc[s] = "marking" /\ Commit(s, "running", "marked")
      BY <2>3 DEF Mark
    <3> QED
      BY <3>1, CommitIInv DEF Statuses, PCs
  <2>4. CASE Scan(s)
    BY <2>4, ScanIInv
  <2>5. CASE Supervise(s)
    <3>1. PICK outcome \in {"completed", "failed"} :
              pc[s] = "supervising" /\ Commit(s, outcome, "outcome")
      BY <2>5 DEF Supervise
    <3> QED
      BY <3>1, CommitIInv DEF Statuses, PCs
  <2>6. CASE RecordFailure(s)
    <3>1. pc[s] = "failing" /\ Commit(s, "failed", "failed")
      BY <2>6 DEF RecordFailure
    <3> QED
      BY <3>1, CommitIInv DEF Statuses, PCs
  <2>7. CASE Refresh(s)
    BY <2>7, RefreshIInv
  <2>8. CASE TaskTimeout(s)
    BY <2>8, TaskTimeoutIInv
  <2>9. CASE Exit(s)
    BY <2>9, ExitIInv
  <2> QED
    BY <1>1, <2>1, <2>2, <2>3, <2>4, <2>5, <2>6, <2>7, <2>8, <2>9 DEF Coroutine
<1>2. ASSUME NEW r \in Readers,
             ReadBegin(r) \/ ReadEnd(r) \/ ReadNotFound(r) \/ ReadTimeout(r)
      PROVE  IInv'
  BY <1>2, ReaderIInv
<1>3. CASE UNCHANGED vars
  BY <1>3 DEF IInv, TypeOK, HeldInScope, vars
<1> QED
  BY <1>1, <1>2, <1>3 DEF Next

\* Every reachable state of the pool is well typed.
THEOREM TypeCorrect == Spec => []TypeOK
<1>1. IInv => TypeOK
  BY DEF IInv
<1> QED
  BY <1>1, InitIInv, StepIInv, PTL DEF Spec

\* The lock and every connection are given back on every path through the
\* handler, the task and its exception handlers, at any pool size.
THEOREM AlwaysGivenBack == Spec => []GivenBack
<1>1. IInv => GivenBack
  BY DEF IInv, TypeOK, HeldInScope, GivenBack
<1> QED
  BY <1>1, InitIInv, StepIInv, PTL DEF Spec
-----------------------------------------------------------------------------
(* In an ample pool whoever asks for a connection is one of the few who can*)
(* hold one and holds one less than he may, so that one is free; as nothing*)
(* times out, only a 404 or a refused insert can clear the flag, and only  *)
(* a written outcome, or that flag before the task began, ends a scan.     *)

Reading == {r \in Readers : reader[r] = "reading"}

LEMMA Counts ==
    ASSUME IInv
    PROVE  /\ Cardinality(Scans) \in Nat /\ Cardinality(Readers) \in Nat
           /\ Cardinality(reqConn) \in Nat /\ Cardinality(reqConn) <= Cardinality(Scans)
           /\ Cardinality(taskConn) \in Nat /\ Cardinality(taskConn) <= Cardinality(Scans)
           /\ Cardinality(Reading) \in Nat /\ Cardinality(Reading) <= Cardinality(Readers)
           /\ capacity \in Nat
<1>1. IsFiniteSet(Scans) /\ IsFiniteSet(Readers)
  BY PoolAssumption
<1>2. /\ reqConn \in SUBSET Scans /\ taskConn \in SUBSET Scans
      /\ Reading \in SUBSET Readers /\ capacity \in Nat
  BY PoolAssumption DEF IInv, TypeOK, Reading
<1>3. /\ IsFiniteSet(reqConn) /\ Cardinality(reqConn) <= Cardinality(Scans)
      /\ IsFiniteSet(taskConn) /\ Cardinality(taskConn) <= Cardinality(Scans)
      /\ IsFiniteSet(Reading) /\ Cardinality(Reading) <= Cardinality(Readers)
  BY <1>1, <1>2, FS_Subset
<1> QED
  BY <1>1, <1>2, <1>3, FS_CardinalityType

\* A set that leaves one out is smaller by one.
LEMMA OneLess ==
    ASSUME NEW S, IsFiniteSet(S), NEW T \in SUBSET S, NEW x \in S, x \notin T
    PROVE  Cardinality(T) < Cardinality(S)
<1>1. IsFiniteSet(T) /\ Cardinality(T) <= Cardinality(S) /\ (Cardinality(S) = Cardinality(T) => S = T)
  BY FS_Subset
<1>2. Cardinality(S) \in Nat /\ Cardinality(T) \in Nat
  BY <1>1, FS_CardinalityType
<1> QED
  BY <1>1, <1>2

LEMMA AmpleIsFree ==
    ASSUME IInv, Ample,
           \/ \E s \in Scans : s \notin reqConn \/ s \notin taskConn
           \/ \E r \in Readers : reader[r] # "reading"
    PROVE  Free
<1>1. /\ IsFiniteSet(Scans) /\ IsFiniteSet(Readers)
      /\ reqConn \in SUBSET Scans /\ taskConn \in SUBSET Scans /\ Reading \in SUBSET Readers
  BY PoolAssumption DEF IInv, TypeOK, Reading
<1>2. \/ Cardinality(reqConn) < Cardinality(Scans)
      \/ Cardinality(taskConn) < Cardinality(Scans)
      \/ Cardinality(Reading) < Cardinality(Readers)
  <2>1. ASSUME NEW s \in Scans, s \notin reqConn PROVE Cardinality(reqConn) < Cardinality(Scans)
    BY <1>1, <2>1, OneLess
  <2>2. ASSUME NEW s \in Scans, s \notin taskConn PROVE Cardinality(taskConn) < Cardinality(Scans)
    BY <1>1, <2>2, OneLess
  <2>3. ASSUME NEW r \in Readers, reader[r] # "reading"
        PROVE  Cardinality(Reading) < Cardinality(Readers)
    <3>1. r \notin Reading
      BY <2>3 DEF Reading
    <3> QED
      BY <1>1, <3>1, OneLess
  <2> QED
    BY <2>1, <2>2, <2>3
<1>3. InUse = Cardinality(reqConn) + Cardinality(taskConn) + Cardinality(Reading)
  BY DEF InUse, Reading
<1> QED
  BY <1>2, <1>3, Counts DEF Free, Ample

\* Who is refused, whose task runs elsewhere, and what is written past an outcome.
Served ==
    /\ ~available => misled
    /\ \A s \in Scans :
           /\ pc[s] = "refused" => s \in LongRefs
           /\ pc[s] \in {"inserted", "acked", "detached"} => status[s] = "queued"
           /\ pc[s] = "detached" => misled
           /\ pc[s] \in {"outcome", "failed"} => status[s] \in {"completed", "failed"}
           /\ pc[s] \in {"closing", "ended"} =>
                  status[s] \in {"completed", "failed"} \/ (misled /\ status[s] = "queued")

AmpleInv == Ample => Served

\* Nobody waits in vain: the steps of a checkout that times out never happen.
LEMMA NoTimeout ==
    ASSUME IInv, Ample
    PROVE  /\ \A s \in Scans : ~Refuse(s) /\ ~TaskTimeout(s)
           /\ \A r \in Readers : ~ReadTimeout(r)
<1>1. ASSUME NEW s \in Scans, pc[s] \in {"inserting", "inserted"} PROVE Free
  BY <1>1, AmpleIsFree DEF IInv, HeldInScope
<1>2. ASSUME NEW s \in Scans, pc[s] \in {"marking", "marked", "profiled", "outcome", "failed"}
      PROVE  Free
  BY <1>2, AmpleIsFree DEF IInv, HeldInScope
<1>3. ASSUME NEW s \in Scans, s \notin taskConn PROVE Free
  BY <1>3, AmpleIsFree
<1>4. ASSUME NEW r \in Readers, reader[r] = "idle" PROVE Free
  BY <1>4, AmpleIsFree
<1>5. ASSUME NEW s \in Scans PROVE ~Refuse(s)
  BY <1>1 DEF Refuse
<1>6. ASSUME NEW s \in Scans PROVE ~TaskTimeout(s)
  BY <1>2, <1>3 DEF TaskTimeout
<1>7. ASSUME NEW r \in Readers PROVE ~ReadTimeout(r)
  BY <1>4 DEF ReadTimeout
<1> QED
  BY <1>5, <1>6, <1>7

LEMMA WaitsIsFree ==
    ASSUME IInv, Ample, NEW s \in Scans, Waits(s)
    PROVE  Free
<1>1. s \notin taskConn
  BY DEF IInv, HeldInScope, Waits
<1> QED
  BY <1>1, AmpleIsFree

LEMMA RefreshServed ==
    ASSUME IInv, Served, NEW s \in Scans, Refresh(s)
    PROVE  Served'
<1>1. pc[s] \in {"marked", "profiled", "outcome", "failed"}
  BY DEF Refresh, AfterRefresh
<1>2. AfterRefresh[pc[s]] = (CASE pc[s] = "marked" -> "scanning"
                               [] pc[s] = "profiled" -> "supervising"
                               [] OTHER -> "closing")
  BY <1>1 DEF AfterRefresh
<1> QED
  BY <1>1, <1>2 DEF Served, Refresh, Goto, IInv, TypeOK

LEMMA StepServed ==
    ASSUME IInv, Ample, Served, [Next]_vars
    PROVE  Served'
<1>1. ASSUME NEW s \in Scans, Post(s) \/ Coroutine(s) PROVE Served'
  <2>1. CASE Post(s) \/ Insert(s) \/ Acknowledge(s) \/ StartTask(s) \/ RunDetached(s) \/ TakeLock(s)
    BY <2>1 DEF Served, Post, Insert, Acknowledge, StartTask, RunDetached, TakeLock,
                Goto, Record, IInv, TypeOK
  <2>6. CASE RefuseLongRef(s)
    BY <2>6 DEF Served, RefuseLongRef, Misled, Goto, IInv, TypeOK
  <2>2. CASE Mark(s) \/ Scan(s)
    BY <2>2 DEF Served, Mark, Scan, Commit, Goto, Record, IInv, TypeOK
  <2>3. CASE Supervise(s) \/ RecordFailure(s)
    BY <2>3 DEF Served, Supervise, RecordFailure, Commit, Goto, Record, IInv, TypeOK
  <2>4. CASE Refresh(s)
    BY <2>4, RefreshServed
  <2>5. CASE Exit(s)
    BY <2>5 DEF Served, Exit, Goto, IInv, TypeOK
  <2> QED
    BY <1>1, <2>1, <2>2, <2>3, <2>4, <2>5, <2>6, NoTimeout DEF Coroutine
<1>2. ASSUME NEW r \in Readers,
             ReadBegin(r) \/ ReadEnd(r) \/ ReadNotFound(r) \/ ReadTimeout(r)
      PROVE  Served'
  <2>1. /\ pc' = pc /\ status' = status
        /\ UNCHANGED <<available, misled>> \/ misled' = TRUE
    BY <1>2, NoTimeout DEF ReadBegin, ReadEnd, ReadNotFound, Misled
  <2> QED
    BY <2>1 DEF Served, IInv, TypeOK
<1>3. CASE UNCHANGED vars
  BY <1>3 DEF Served, vars
<1> QED
  BY <1>1, <1>2, <1>3 DEF Next

LEMMA AmpleForEver == ASSUME [Next]_vars PROVE Ample' => Ample
<1>1. capacity' = capacity
  BY DEF Next, vars, Post, Coroutine, Insert, RefuseLongRef, Misled, Acknowledge, Refuse,
         StartTask, RunDetached, TakeLock, Mark, Scan, Supervise, RecordFailure, Refresh,
         TaskTimeout, Exit, Commit, ReadBegin, ReadEnd, ReadNotFound, ReadTimeout
<1> QED
  BY <1>1 DEF Ample

\* In a pool of two connections per scan and one per reader no checkout times
\* out: only a 404 or a ref too long for its column clears the flag or refuses a
\* POST, and only a scan still queued at that moment ends unsettled.
THEOREM AmplePoolAlwaysServes == Spec => []AmplePoolServes
<1>1. Init => AmpleInv
  BY DEF Init, AmpleInv, Served
<1>2. IInv /\ AmpleInv /\ [Next]_vars => AmpleInv'
  BY StepServed, AmpleForEver DEF AmpleInv
<1>3. IInv /\ AmpleInv => AmplePoolServes
  BY WaitsIsFree DEF AmpleInv, Served, AmplePoolServes
<1> QED
  BY <1>1, <1>2, <1>3, InitIInv, StepIInv, PTL DEF Spec
=============================================================================
