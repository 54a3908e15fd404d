------------------------- MODULE ScanServiceProofs -------------------------
(***************************************************************************)
(* Proofs about ScanService and the page in front of it, for every set of  *)
(* scans and every bound: type correctness and the safety invariants of    *)
(* the service from one inductive invariant, what may happen to a settled  *)
(* row, the refinement of ScanLifecycle, and, since a tab and its service  *)
(* behave as ScanService says, the safety properties of ScanPage.          *)
(***************************************************************************)
EXTENDS ScanPage, FiniteSetTheorems, TLAPS

(* A step on behalf of one scan: its client's POST or its coroutine. *)
StepOf(s) == PostEnter(s) \/ Coroutine(s)

LEMMA QueuedType == Absent \in Record /\ Queued \in Record
                    /\ Queued.status = "queued" /\ Absent.status = "absent"
  BY DEF Absent, Queued, Record, Statuses, Steps

(* The typed record updates the handlers perform. *)
LEMMA RecordUpdate ==
    ASSUME NEW r \in Record, NEW st \in Statuses, NEW step \in Steps, NEW b \in BOOLEAN
    PROVE  /\ [r EXCEPT !.status = st, !.step = step] \in Record
           /\ [r EXCEPT !.profile = b, !.step = step] \in Record
           /\ [r EXCEPT !.status = st, !.step = step, !.report = b] \in Record
           /\ [r EXCEPT !.status = st, !.errors = b] \in Record
  BY DEF Record

LEMMA SessionAfterType ==
    ASSUME NEW x \in SessionStates, NEW out, NEW after \in SessionAfter(x, out)
    PROVE  /\ after \in SessionStates
           /\ after = "none" <=> x = "none"
  BY DEF SessionAfter, SessionStates

(* A write that went through leaves a connection; one that raised without  *)
(* having waited for one too long leaves no working session.               *)
LEMMA OkHolds ==
    ASSUME NEW x \in SessionStates, "ok" \in Outcomes(x)
    PROVE  SessionAfter(x, "ok") \subseteq {"none", "held"}
  BY DEF SessionAfter, SessionStates, Outcomes

LEMMA CurrentType ==
    ASSUME TypeOK, NEW s \in Scans
    PROVE  Current(s) \in Record
  BY DEF TypeOK, Current
-----------------------------------------------------------------------------
(* A write of the task keeps the types whatever its outcome. *)
LEMMA UpdateType ==
    ASSUME TypeOK, NEW s \in Scans, NEW new \in Record, NEW out, Update(s, new, out)
    PROVE  /\ rows' \in [Scans -> Record] /\ memory' \in [Scans -> Record]
           /\ taskSession' \in [Scans -> SessionStates]
           /\ torn' \in Nat /\ timeouts' \in Nat
<1>1. rows' \in [Scans -> Record] /\ memory' \in [Scans -> Record]
  BY DEF Update, TypeOK
<1>2. taskSession' \in [Scans -> SessionStates]
  <2>1. PICK after \in SessionAfter(taskSession[s], out) :
            taskSession' = [taskSession EXCEPT ![s] = after]
    BY DEF Update
  <2>2. taskSession[s] \in SessionStates
    BY DEF TypeOK
  <2>3. after \in SessionStates
    BY <2>1, <2>2, SessionAfterType
  <2>4. QED
    BY <2>1, <2>3 DEF TypeOK
<1>3. torn' \in Nat /\ timeouts' \in Nat
  BY DEF Update, Count, TypeOK
<1>4. QED
  BY <1>1, <1>2, <1>3

LEMMA TaskWriteType ==
    ASSUME TypeOK, NEW s \in Scans, NEW new \in Record, NEW next \in PCs,
           TaskWrite(s, new, next)
    PROVE  TypeOK'
<1>1. PICK out \in Outcomes(taskSession[s]) :
          Update(s, new, out) /\ Goto(s, IF out = "ok" THEN next ELSE "failing")
  BY DEF TaskWrite
<1>2. /\ rows' \in [Scans -> Record] /\ memory' \in [Scans -> Record]
      /\ taskSession' \in [Scans -> SessionStates] /\ torn' \in Nat /\ timeouts' \in Nat
  BY <1>1, UpdateType
<1>3. pc' \in [Scans -> PCs]
  BY <1>1 DEF Goto, TypeOK, PCs
<1>4. UNCHANGED <<dbAvailable, dbUp, reqSession, outages, restarts>>
  BY DEF TaskWrite, faults
<1>5. QED
  BY <1>2, <1>3, <1>4 DEF TypeOK
-----------------------------------------------------------------------------
LEMMA InitType == Init => TypeOK
  BY QueuedType DEF Init, TypeOK, PCs, SessionStates

LEMMA StepType ==
    ASSUME TypeOK, NEW s \in Scans, StepOf(s)
    PROVE  TypeOK'
<1>1. CASE PostEnter(s)
  BY <1>1 DEF PostEnter, OpenSession, Goto, TypeOK, PCs, SessionStates, faults, glitches
<1>2. CASE CreateRecord(s)
  <2>1. PICK out \in CreateOutcomes(s) :
            /\ Create(s, out)
            /\ Goto(s, IF out = "ok" THEN "acked" ELSE "refused")
            /\ dbAvailable' = (dbAvailable /\ out = "ok")
    BY <1>2 DEF CreateRecord
  <2>2. /\ rows' \in [Scans -> Record] /\ memory' \in [Scans -> Record]
        /\ torn' \in Nat /\ timeouts' \in Nat
    BY <2>1, QueuedType DEF Create, Count, TypeOK
  <2>3. PICK after \in SessionAfter(reqSession[s], out) :
            reqSession' = [reqSession EXCEPT ![s] = after]
    BY <2>1 DEF Create
  <2>4. after \in SessionStates
    BY <2>3, SessionAfterType DEF TypeOK
  <2>5. reqSession' \in [Scans -> SessionStates] /\ pc' \in [Scans -> PCs]
    BY <2>1, <2>3, <2>4 DEF TypeOK, Goto, PCs
  <2>6. UNCHANGED <<dbUp, taskSession, outages, restarts>>
    BY <1>2 DEF CreateRecord, faults
  <2>7. dbAvailable' \in BOOLEAN
    BY <2>1
  <2>8. QED
    BY <2>2, <2>5, <2>6, <2>7 DEF TypeOK
<1>3. CASE OpenTask(s)
  BY <1>3 DEF OpenTask, OpenSession, Goto, TypeOK, PCs, SessionStates, faults, glitches
<1>4. CASE MarkRunning(s)
  BY <1>4, CurrentType, RecordUpdate, TaskWriteType DEF MarkRunning, Statuses, Steps, PCs
<1>5. CASE RunScan(s)
  BY <1>5 DEF RunScan, Goto, TypeOK, PCs, faults, glitches
<1>6. CASE SaveProfile(s)
  <2> DEFINE new == [Current(s) EXCEPT !.profile = TRUE, !.step = "scanned"]
  <2>1. TaskWrite(s, new, "profiled")
    BY <1>6 DEF SaveProfile
  <2>2. new \in Record
    BY CurrentType DEF Record, Steps
  <2>3. QED
    BY <2>1, <2>2, TaskWriteType DEF PCs
<1>7. CASE Supervise(s)
  BY <1>7 DEF Supervise, Goto, TypeOK, PCs, faults, glitches
<1>8. CASE SaveOutcome(s)
  <2> DEFINE done == pc[s] = "reported"
             new == [Current(s) EXCEPT !.status = IF done THEN "completed" ELSE "failed",
                                       !.step = "completed", !.report = done]
  <2>1. TaskWrite(s, new, "closing")
    BY <1>8 DEF SaveOutcome
  <2>2. new \in Record
    BY CurrentType DEF Record, Statuses, Steps
  <2>3. QED
    BY <2>1, <2>2, TaskWriteType DEF PCs
<1>9. CASE FinishPlain(s)
  BY <1>9, CurrentType, RecordUpdate, TaskWriteType DEF FinishPlain, Statuses, Steps, PCs
<1>10. CASE RecordFailure(s)
  <2> DEFINE new == [Current(s) EXCEPT !.status = "failed", !.errors = TRUE]
  <2>1. PICK out \in Outcomes(taskSession[s]) :
            Update(s, new, out) /\ Goto(s, IF out = "ok" THEN "closing" ELSE "abandoning")
    BY <1>10 DEF RecordFailure
  <2>2. new \in Record
    BY CurrentType DEF Record, Statuses
  <2>3. /\ rows' \in [Scans -> Record] /\ memory' \in [Scans -> Record]
        /\ taskSession' \in [Scans -> SessionStates] /\ torn' \in Nat /\ timeouts' \in Nat
    BY <2>1, <2>2, UpdateType
  <2>4. pc' \in [Scans -> PCs]
    BY <2>1 DEF Goto, TypeOK, PCs
  <2>5. UNCHANGED <<dbAvailable, dbUp, reqSession, outages, restarts>>
    BY <1>10 DEF RecordFailure, faults
  <2>6. QED
    BY <2>3, <2>4, <2>5 DEF TypeOK
<1>11. CASE ExitRequest(s)
  BY <1>11 DEF ExitRequest, Goto, TypeOK, PCs, faults, glitches
<1>12. QED
  BY <1>1, <1>2, <1>3, <1>4, <1>5, <1>6, <1>7, <1>8, <1>9, <1>10, <1>11
     DEF StepOf, Coroutine

LEMMA EnvironmentType ==
    ASSUME TypeOK, DbDown \/ DbBack \/ Restart
    PROVE  TypeOK'
<1>1. CASE DbDown
  <2>1. PICK R \in SUBSET Holding(reqSession), T \in SUBSET Holding(taskSession) :
            /\ reqSession' = [s \in Scans |-> IF s \in R THEN "lost" ELSE reqSession[s]]
            /\ taskSession' = [s \in Scans |-> IF s \in T THEN "lost" ELSE taskSession[s]]
    BY <1>1 DEF DbDown
  <2>2. /\ reqSession' \in [Scans -> SessionStates]
        /\ taskSession' \in [Scans -> SessionStates]
    BY <2>1 DEF TypeOK, SessionStates
  <2>3. /\ dbUp' = FALSE /\ outages' = outages + 1
        /\ UNCHANGED <<dbAvailable, rows, memory, pc, restarts, torn, timeouts>>
    BY <1>1 DEF DbDown, glitches
  <2>4. dbAvailable' \in BOOLEAN /\ dbUp' \in BOOLEAN
    BY <2>3, Zenon DEF TypeOK
  <2>5. outages' \in Nat
    BY <2>3 DEF TypeOK
  <2>6. QED
    BY <2>2, <2>3, <2>4, <2>5 DEF TypeOK
<1>2. CASE DbBack
  BY <1>2 DEF DbBack, TypeOK, faults, glitches
<1>3. CASE Restart
  BY <1>3, QueuedType DEF Restart, TypeOK, PCs, Idle, Over, glitches
<1>4. QED
  BY <1>1, <1>2, <1>3

LEMMA TypeStep == TypeOK /\ [Next]_vars => TypeOK'
<1> SUFFICES ASSUME TypeOK, [Next]_vars PROVE TypeOK'
  OBVIOUS
<1>1. CASE \E s \in Scans : StepOf(s)
  BY <1>1, StepType
<1>2. CASE (\E s \in Scans, kind \in GetKinds : Get(kind, s)) \/ GetLate
  <2>1. /\ UNCHANGED <<dbUp, rows, memory, pc, reqSession, taskSession, torn, faults>>
        /\ dbAvailable' \in BOOLEAN
    BY <1>2, Zenon DEF Get, GetLate, glitches
  <2>2. timeouts' \in Nat
    BY <1>2 DEF Get, GetLate, glitches, TypeOK
  <2>3. QED
    BY <2>1, <2>2 DEF TypeOK, faults
<1>3. CASE DbDown \/ DbBack \/ Restart
  BY <1>3, EnvironmentType
<1>4. CASE UNCHANGED vars
  BY <1>4 DEF vars, TypeOK
<1>5. QED
  BY <1>1, <1>2, <1>3, <1>4 DEF Next, StepOf

\* Every variable keeps its type: no store ever holds anything but records,
\* whichever writes fail.
THEOREM TypeCorrect == Spec => []TypeOK
  BY InitType, TypeStep, PTL DEF Spec
-----------------------------------------------------------------------------
(* The inductive invariant, scan by scan.                                  *)

(* The request's session tells the store, and nothing is stored before     *)
(* create_scan ran.                                                        *)
Home(s) ==
    /\ reqSession[s] = "none" => ~Exists(rows[s])
    /\ reqSession[s] # "none" => ~Exists(memory[s])
    /\ pc[s] \in {"new", "entered"} => ~Exists(rows[s]) /\ ~Exists(memory[s])

Kept(s) == Acked(s) =>
    IF InDatabase(s) THEN Exists(rows[s])
    ELSE Exists(memory[s]) \/ (restarts > 0 /\ pc[s] \in Over)

(* From SaveProfile on, the record the task works on holds the profile.    *)
Saved(s) ==
    pc[s] \in {"profiled", "reported", "unreported"} /\ Exists(Current(s))
        => Current(s).profile

CompleteRecord(s, r) ==
    r.status = "completed" => r.profile /\ (s \in Enriched => r.report)

Complete(s) == CompleteRecord(s, rows[s]) /\ CompleteRecord(s, memory[s])

(* The task on its way to an outcome.                                      *)
AtWork == {"scanning", "scanned", "profiled", "reported", "unreported"}

(* What Postgres has done, or n checkouts that waited too long.            *)
Blame(n) == outages + torn > 0 \/ timeouts >= n

(* Why a write of the task can raise, and what having raised once or twice *)
(* means: past its first update the task holds a connection, so only the   *)
(* first and the except block's can wait for one with Postgres unharmed.   *)
Cause(s) ==
    /\ taskSession[s] # "none" /\ (~dbUp \/ taskSession[s] = "lost") => outages + torn > 0
    /\ pc[s] \in AtWork => taskSession[s] # "free"
    /\ pc[s] = "failing" /\ taskSession[s] = "free" => Blame(1)
    /\ pc[s] \in {"abandoning", "abandoned"} /\ taskSession[s] # "none" => Blame(2)
    /\ pc[s] \in {"closing", "ended"} /\ InDatabase(s) /\ taskSession[s] # "none"
          => Settled(rows[s])

Safe(s) == Home(s) /\ Kept(s) /\ Saved(s) /\ Complete(s) /\ Cause(s)

IndInv == /\ TypeOK
          /\ dbAvailable /\ ~dbUp => outages > 0
          /\ \A s \in Scans : Safe(s)

LEMMA InvImplies == IndInv => /\ OneStore /\ AckedRecordKept
                              /\ CompletedIsComplete /\ LossHasCause
<1> SUFFICES ASSUME IndInv
             PROVE  OneStore /\ AckedRecordKept /\ CompletedIsComplete /\ LossHasCause
  OBVIOUS
<1>1. OneStore
  BY DEF IndInv, Safe, Home, OneStore
<1>2. AckedRecordKept
  BY DEF IndInv, Safe, Kept, AckedRecordKept
<1>3. CompletedIsComplete
  BY DEF IndInv, Safe, Complete, CompleteRecord, CompletedIsComplete
<1>4. LossHasCause
  BY DEF IndInv, Safe, Cause, Blame, LossHasCause, Switched
<1>5. QED
  BY <1>1, <1>2, <1>3, <1>4

LEMMA InitInv == Init => IndInv
<1> SUFFICES ASSUME Init PROVE IndInv
  OBVIOUS
<1>1. dbAvailable /\ ~dbUp => outages > 0
  BY DEF Init
<1>2. ASSUME NEW s \in Scans PROVE Safe(s)
  BY QueuedType DEF Init, Safe, Home, Kept, Saved, Complete, CompleteRecord, Cause,
     Exists, Acked, Current, AtWork
<1>3. QED
  BY <1>1, <1>2, InitType DEF IndInv
-----------------------------------------------------------------------------
LEMMA SumGrows ==
    ASSUME NEW a \in Nat, NEW b \in Nat, NEW c \in Nat, NEW d \in Nat, c >= a, d >= b
    PROVE  /\ a + b > 0 => c + d > 0
           /\ d > 0 => c + d > 0
  OBVIOUS

(* What a step leaves alone stays safe: fault counters only grow, and an   *)
(* outage that begins is counted.                                          *)
LEMMA Frame ==
    ASSUME TypeOK, NEW t \in Scans, Safe(t),
           rows'[t] = rows[t], memory'[t] = memory[t], pc'[t] = pc[t],
           reqSession'[t] = reqSession[t], taskSession'[t] = taskSession[t],
           outages' \in Nat, torn' \in Nat, restarts' \in Nat, timeouts' \in Nat,
           outages' >= outages, torn' >= torn, restarts' >= restarts, timeouts' >= timeouts,
           dbUp' = dbUp \/ dbUp' = TRUE
    PROVE  Safe(t)'
<1>1. Home(t)'
  BY DEF Safe, Home, Exists
<1>2. Kept(t)'
  BY DEF Safe, Kept, Exists, Acked, InDatabase, TypeOK
<1>3. Saved(t)'
  BY DEF Safe, Saved, Exists, Current
<1>4. Complete(t)'
  BY DEF Safe, Complete, CompleteRecord
<1>5. /\ outages + torn > 0 => outages' + torn' > 0
      /\ Blame(1) => Blame(1)'
      /\ Blame(2) => Blame(2)'
  <2>1. /\ outages \in Nat /\ torn \in Nat /\ timeouts \in Nat
    BY DEF TypeOK
  <2>2. outages + torn > 0 => outages' + torn' > 0
    BY <2>1, SumGrows
  <2>3. (timeouts >= 1 => timeouts' >= 1) /\ (timeouts >= 2 => timeouts' >= 2)
    BY <2>1
  <2>4. QED
    BY <2>2, <2>3, Zenon DEF Blame
<1>6. Cause(t)'
  BY <1>5 DEF Safe, Cause, InDatabase, Settled
<1>7. QED
  BY <1>1, <1>2, <1>3, <1>4, <1>6 DEF Safe

(* The effect of a write of the task.                                      *)
LEMMA UpdateEffect ==
    ASSUME TypeOK, NEW s \in Scans, NEW new \in Record,
           NEW out \in Outcomes(taskSession[s]), Update(s, new, out)
    PROVE  /\ \A t \in Scans \ {s} : /\ rows'[t] = rows[t] /\ memory'[t] = memory[t]
                                      /\ taskSession'[t] = taskSession[t]
           /\ rows'[s] = rows[s] \/ (rows'[s] = new /\ Exists(rows[s])
                                      /\ taskSession[s] # "none")
           /\ memory'[s] = memory[s] \/ (memory'[s] = new /\ Exists(memory[s])
                                          /\ taskSession[s] = "none")
           /\ Exists(Current(s)) /\ out = "ok" =>
                 (IF taskSession[s] = "none" THEN memory'[s] ELSE rows'[s]) = new
           /\ taskSession'[s] = "none" <=> taskSession[s] = "none"
           /\ torn' >= torn /\ timeouts' >= timeouts
           /\ taskSession'[s] \in SessionAfter(taskSession[s], out)
<1>1. PICK after \in SessionAfter(taskSession[s], out) :
          taskSession' = [taskSession EXCEPT ![s] = after]
  BY DEF Update
<1>2. after = "none" <=> taskSession[s] = "none"
  BY <1>1, SessionAfterType DEF TypeOK
<1>4. torn' >= torn /\ timeouts' >= timeouts
  BY DEF Update, Count, TypeOK
<1>5. /\ \A t \in Scans \ {s} : rows'[t] = rows[t] /\ memory'[t] = memory[t]
      /\ rows'[s] = rows[s] \/ (rows'[s] = new /\ Exists(rows[s])
                                 /\ taskSession[s] # "none")
      /\ memory'[s] = memory[s] \/ (memory'[s] = new /\ Exists(memory[s])
                                     /\ taskSession[s] = "none")
      /\ Exists(Current(s)) /\ out = "ok" =>
            (IF taskSession[s] = "none" THEN memory'[s] ELSE rows'[s]) = new
  BY DEF Update, TypeOK, Current, Landed
<1>6. QED
  BY <1>1, <1>2, <1>4, <1>5 DEF TypeOK

(* A write that raises has a counted cause, and causes are not forgotten.  *)
LEMMA CauseAfter ==
    ASSUME TypeOK, NEW s \in Scans, Cause(s), NEW out \in Outcomes(taskSession[s]),
           Count(out), outages' \in Nat, outages' >= outages
    PROVE  /\ outages + torn > 0 => outages' + torn' > 0
           /\ out \notin {"ok", "late"} => outages' + torn' > 0
           /\ out = "late" => taskSession[s] = "free" /\ timeouts' = timeouts + 1
<1>1. /\ outages \in Nat /\ torn \in Nat /\ outages' \in Nat /\ torn' \in Nat
      /\ torn' >= torn /\ outages' >= outages
  BY DEF TypeOK, Count
<1>2. /\ outages + torn > 0 => outages' + torn' > 0
      /\ torn' > 0 => outages' + torn' > 0
  BY <1>1, SumGrows
<1>3. out = "torn" => torn' > 0
  BY <1>1 DEF Count
<1>4. out \notin {"ok", "late"} =>
          out = "torn" \/ taskSession[s] = "lost" \/ (taskSession[s] \in {"free", "held"} /\ ~dbUp)
  BY DEF Outcomes
<1>5. taskSession[s] = "lost" \/ (taskSession[s] \in {"free", "held"} /\ ~dbUp)
          => outages + torn > 0
  BY DEF Cause
<1>6. out = "late" => taskSession[s] = "free" /\ timeouts' = timeouts + 1
  BY DEF Outcomes, Count
<1>7. QED
  BY <1>2, <1>3, <1>4, <1>5, <1>6
-----------------------------------------------------------------------------
(* A write of the task keeps its own scan safe when the record it writes is *)
(* a complete one, holds the profile where control goes on to use it, and   *)
(* is settled where control leaves the try block.                           *)
LEMMA WriteSafe ==
    ASSUME TypeOK, NEW s \in Scans, Safe(s), Acked(s), pc[s] \notin Over,
           NEW new \in Record, NEW out \in Outcomes(taskSession[s]), Update(s, new, out),
           NEW next \in {"scanning", "profiled", "failing", "closing", "abandoning"},
           pc' = [pc EXCEPT ![s] = next],
           dbUp' = dbUp, reqSession' = reqSession, outages' = outages,
           restarts' = restarts,
           Exists(Current(s)) => Exists(new) /\ CompleteRecord(s, new),
           next = "profiled" => out = "ok" /\ new.profile,
           next = "closing" => out = "ok" /\ Settled(new),
           next = "scanning" => out = "ok",
           next = "failing" => out # "ok",
           next = "abandoning" => out # "ok" /\ pc[s] = "failing"
    PROVE  Safe(s)'
<1>0. pc'[s] = next /\ reqSession'[s] = reqSession[s]
  BY DEF TypeOK
<1>a. /\ rows'[s] = rows[s] \/ (rows'[s] = new /\ Exists(rows[s])
                                 /\ taskSession[s] # "none")
      /\ memory'[s] = memory[s] \/ (memory'[s] = new /\ Exists(memory[s])
                                     /\ taskSession[s] = "none")
      /\ Exists(Current(s)) /\ out = "ok" =>
            (IF taskSession[s] = "none" THEN memory'[s] ELSE rows'[s]) = new
      /\ taskSession'[s] = "none" <=> taskSession[s] = "none"
  BY UpdateEffect
<1>b. /\ taskSession'[s] \in SessionAfter(taskSession[s], out)
      /\ taskSession[s] \in SessionStates
  BY UpdateEffect DEF TypeOK
<1>1. Home(s)'
  <2>1. reqSession[s] = "none" => ~Exists(rows[s])'
    BY <1>a DEF Safe, Home, Exists
  <2>2. reqSession[s] # "none" => ~Exists(memory[s])'
    BY <1>a DEF Safe, Home, Exists
  <2>3. QED
    BY <1>0, <2>1, <2>2 DEF Home
<1>2. Kept(s)'
  <2>1. InDatabase(s) => Exists(rows[s])
    BY DEF Safe, Kept
  <2>2. ~InDatabase(s) => Exists(memory[s])
    BY DEF Safe, Kept
  <2>3. InDatabase(s) => Exists(rows[s])'
    BY <1>a, <2>1 DEF Exists, Current
  <2>4. ~InDatabase(s) => Exists(memory[s])'
    BY <1>a, <2>2 DEF Exists, Current
  <2>5. QED
    BY <1>0, <2>3, <2>4 DEF Kept, InDatabase
<1>3. Saved(s)'
  <2>1. SUFFICES ASSUME next = "profiled", Exists(Current(s)') PROVE Current(s)'.profile
    BY <1>0 DEF Saved
  <2>2. Exists(Current(s))
    BY <1>a, <2>1 DEF Current, Exists
  <2>3. Current(s)' = new
    BY <1>a, <2>1, <2>2 DEF Current
  <2>4. QED
    BY <2>1, <2>3
<1>4. Complete(s)'
  BY <1>a DEF Safe, Complete, CompleteRecord, Current
<1>5. Cause(s)'
  <2>1. /\ outages + torn > 0 => outages' + torn' > 0
        /\ out \notin {"ok", "late"} => outages' + torn' > 0
        /\ out = "late" => taskSession[s] = "free" /\ timeouts' = timeouts + 1
    BY CauseAfter DEF Safe, Update, TypeOK
  <2>2. ASSUME taskSession'[s] # "none", ~dbUp' \/ taskSession'[s] = "lost"
        PROVE  outages' + torn' > 0
    <3>1. CASE taskSession[s] = "lost" \/ ~dbUp
      BY <1>a, <2>1, <2>2, <3>1 DEF Safe, Cause
    <3>2. CASE taskSession'[s] = "lost" /\ taskSession[s] # "lost"
      <4>1. out \notin {"ok", "late"}
        BY <1>b, <3>2 DEF SessionAfter
      <4> QED
        BY <2>1, <4>1
    <3> QED
      BY <2>2, <3>1, <3>2
  <2>3. pc'[s] \in AtWork => taskSession'[s] # "free"
    <3>1. out = "ok" => taskSession'[s] \in {"none", "held"}
      BY <1>b, OkHolds
    <3> QED
      BY <1>0, <3>1 DEF AtWork
  <2>4. pc'[s] = "failing" => Blame(1)'
    <3>1. out = "late" => timeouts' >= 1
      BY <2>1 DEF TypeOK
    <3> QED
      BY <1>0, <2>1, <3>1 DEF Blame
  <2>5. pc'[s] \in {"abandoning", "abandoned"} => Blame(2)'
    <3>1. ASSUME next = "abandoning", out = "late" PROVE Blame(2)'
      <4>1. Blame(1) /\ timeouts' = timeouts + 1
        BY <2>1, <3>1 DEF Safe, Cause
      <4>2. timeouts >= 1 => timeouts' >= 2
        BY <4>1 DEF TypeOK
      <4> QED
        BY <2>1, <4>1, <4>2 DEF Blame
    <3>2. ASSUME next = "abandoning", out # "late" PROVE Blame(2)'
      BY <2>1, <3>2 DEF Blame
    <3> QED
      BY <1>0, <3>1, <3>2
  <2>6. ASSUME pc'[s] \in {"closing", "ended"}, InDatabase(s)', taskSession'[s] # "none"
        PROVE  Settled(rows[s])'
    <3>1. next = "closing" /\ InDatabase(s) /\ taskSession[s] # "none"
      BY <1>0, <1>a, <2>6 DEF InDatabase
    <3>2. Exists(rows[s]) /\ Current(s) = rows[s]
      BY <3>1 DEF Safe, Kept, Current
    <3>3. rows'[s] = new
      BY <1>a, <3>1, <3>2
    <3>4. QED
      BY <3>1, <3>3 DEF Settled
  <2>7. QED
    BY <2>2, <2>3, <2>4, <2>5, <2>6 DEF Cause
<1>6. QED
  BY <1>1, <1>2, <1>3, <1>4, <1>5 DEF Safe
-----------------------------------------------------------------------------
LEMMA TaskWriteSafe ==
    ASSUME TypeOK, NEW s \in Scans, Safe(s), Acked(s), pc[s] \notin Over,
           NEW new \in Record, NEW next \in {"scanning", "profiled", "closing"},
           TaskWrite(s, new, next),
           Exists(Current(s)) => Exists(new) /\ CompleteRecord(s, new),
           next = "profiled" => new.profile,
           next = "closing" => Settled(new)
    PROVE  Safe(s)'
<1>1. PICK out \in Outcomes(taskSession[s]) :
          Update(s, new, out) /\ Goto(s, IF out = "ok" THEN next ELSE "failing")
  BY DEF TaskWrite
<1>2. UNCHANGED <<dbUp, reqSession, outages, restarts>>
  BY DEF TaskWrite, faults
<1>3. CASE out = "ok"
  BY <1>1, <1>2, <1>3, WriteSafe DEF Goto
<1>4. CASE out # "ok"
  BY <1>1, <1>2, <1>4, WriteSafe DEF Goto
<1>5. QED
  BY <1>3, <1>4

(* What a task's write leaves alone: the other scans. *)
LEMMA WriteFrame ==
    ASSUME TypeOK, NEW s \in Scans, NEW new \in Record,
           NEW out \in Outcomes(taskSession[s]), Update(s, new, out),
           NEW next, Goto(s, next), UNCHANGED <<dbUp, reqSession, outages, restarts>>,
           NEW t \in Scans \ {s}, Safe(t)
    PROVE  Safe(t)'
<1>1. /\ rows'[t] = rows[t] /\ memory'[t] = memory[t]
      /\ taskSession'[t] = taskSession[t] /\ torn' >= torn /\ timeouts' >= timeouts
  BY UpdateEffect
<1>2. torn' \in Nat /\ timeouts' \in Nat
  BY UpdateType
<1>3. pc'[t] = pc[t]
  BY DEF Goto, TypeOK
<1>4. QED
  BY <1>1, <1>2, <1>3, Frame DEF TypeOK

LEMMA TaskWriteFrame ==
    ASSUME TypeOK, NEW s \in Scans, NEW new \in Record, NEW next,
           TaskWrite(s, new, next), NEW t \in Scans \ {s}, Safe(t)
    PROVE  Safe(t)'
<1>1. PICK out \in Outcomes(taskSession[s]) :
          Update(s, new, out) /\ Goto(s, IF out = "ok" THEN next ELSE "failing")
  BY DEF TaskWrite
<1>2. UNCHANGED <<dbUp, reqSession, outages, restarts>>
  BY DEF TaskWrite, faults
<1>3. QED
  BY <1>1, <1>2, WriteFrame
-----------------------------------------------------------------------------
(* The step of one scan keeps every scan safe. *)

LEMMA PostEnterSafe ==
    ASSUME IndInv, NEW s \in Scans, PostEnter(s), NEW t \in Scans
    PROVE  Safe(t)'
<1>1. /\ TypeOK /\ Safe(t) /\ pc[s] = "new" /\ pc' = [pc EXCEPT ![s] = "entered"]
      /\ reqSession' = [reqSession EXCEPT ![s] = OpenSession]
      /\ UNCHANGED <<dbUp, rows, memory, taskSession, outages, restarts, torn, timeouts>>
  BY DEF PostEnter, Goto, faults, glitches, IndInv
<1>2. CASE t # s
  BY <1>1, <1>2, Frame DEF TypeOK
<1>3. CASE t = s
  BY <1>1, <1>3 DEF Safe, Home, Kept, Saved, Complete, CompleteRecord, Cause, Acked,
     Exists, AtWork, TypeOK
<1>4. QED
  BY <1>2, <1>3

LEMMA CreateRecordSafe ==
    ASSUME IndInv, NEW s \in Scans, CreateRecord(s), NEW t \in Scans
    PROVE  Safe(t)'
<1>1. PICK out \in CreateOutcomes(s) :
          Create(s, out) /\ Goto(s, IF out = "ok" THEN "acked" ELSE "refused")
  BY DEF CreateRecord
<1>2. PICK after \in SessionAfter(reqSession[s], out) :
          reqSession' = [reqSession EXCEPT ![s] = after]
  BY <1>1 DEF Create
<1>3. after = "none" <=> reqSession[s] = "none"
  BY <1>2, SessionAfterType DEF IndInv, TypeOK
<1>4. /\ TypeOK /\ Safe(t) /\ Safe(s) /\ pc[s] = "entered"
      /\ UNCHANGED <<dbUp, taskSession, outages, restarts>>
  BY DEF CreateRecord, faults, IndInv
<1>5. /\ torn \in Nat /\ torn' \in Nat /\ torn' >= torn
      /\ timeouts' \in Nat /\ timeouts' >= timeouts
  BY <1>1, <1>4 DEF Create, Count, TypeOK
<1>6. CASE t # s
  <2>1. /\ rows'[t] = rows[t] /\ memory'[t] = memory[t] /\ pc'[t] = pc[t]
        /\ reqSession'[t] = reqSession[t]
    BY <1>1, <1>2, <1>4, <1>6 DEF Create, Goto, TypeOK
  <2>2. QED
    BY <1>4, <1>5, <2>1, Frame DEF TypeOK
<1>7. CASE t = s
  <2>1. /\ pc'[s] = IF out = "ok" THEN "acked" ELSE "refused"
        /\ reqSession'[s] = after
        /\ rows'[s] \in {Absent, Queued, rows[s]} /\ memory'[s] \in {Queued, memory[s]}
        /\ reqSession[s] = "none" => rows'[s] = rows[s]
        /\ reqSession[s] # "none" => memory'[s] = memory[s]
        /\ reqSession[s] # "none" /\ out = "ok" => rows'[s] = Queued
        /\ reqSession[s] = "none" => memory'[s] = Queued
    BY <1>1, <1>2, <1>4 DEF Create, Landed, Goto, TypeOK
  <2>2. Home(s)'
    BY <1>3, <1>4, <2>1 DEF Safe, Home
  <2>3. Kept(s)'
    BY <1>3, <2>1, QueuedType DEF Kept, Acked, InDatabase, Exists
  <2>4. Saved(s)'
    BY <2>1 DEF Saved
  <2>5. Complete(s)'
    BY <1>4, <2>1, QueuedType DEF Safe, Complete, CompleteRecord
  <2>6. outages \in Nat /\ outages' \in Nat /\ outages' >= outages
    BY <1>4 DEF TypeOK
  <2>7. outages + torn > 0 => outages' + torn' > 0
    BY <1>4, <1>5, <2>6, SumGrows
  <2>8. Cause(s)'
    BY <1>4, <1>7, <2>1, <2>7 DEF Safe, Cause, AtWork
  <2>9. QED
    BY <1>7, <2>2, <2>3, <2>4, <2>5, <2>8 DEF Safe
<1>8. QED
  BY <1>6, <1>7

LEMMA OpenTaskSafe ==
    ASSUME IndInv, NEW s \in Scans, OpenTask(s), NEW t \in Scans
    PROVE  Safe(t)'
<1>1. /\ TypeOK /\ Safe(t) /\ pc[s] = "acked" /\ pc' = [pc EXCEPT ![s] = "opened"]
      /\ taskSession' = [taskSession EXCEPT ![s] = OpenSession]
      /\ UNCHANGED <<dbAvailable, dbUp, rows, memory, reqSession, outages, restarts, torn, timeouts>>
  BY DEF OpenTask, Goto, faults, glitches, IndInv
<1>2. CASE t # s
  BY <1>1, <1>2, Frame DEF TypeOK
<1>3. CASE t = s
  <2>1. Home(s)' /\ Kept(s)' /\ Saved(s)' /\ Complete(s)'
    BY <1>1, <1>3 DEF Safe, Home, Kept, Saved, Complete, CompleteRecord, Acked,
       InDatabase, Exists, Over, TypeOK
  <2>2. taskSession'[s] = OpenSession /\ pc'[s] = "opened"
    BY <1>1 DEF TypeOK
  <2>3. OpenSession # "none" /\ ~dbUp => outages > 0
    BY DEF IndInv, OpenSession
  <2>4. OpenSession # "lost"
    BY DEF OpenSession
  <2>5. outages > 0 => outages + torn > 0
    BY <1>1 DEF TypeOK
  <2>6. Cause(s)'
    <3>1. taskSession'[s] # "none" /\ ~dbUp' => outages' + torn' > 0
      BY <1>1, <2>2, <2>3, <2>5
    <3>2. QED
      BY <2>2, <2>4, <3>1 DEF Cause, AtWork
  <2>7. QED
    BY <1>3, <2>1, <2>6 DEF Safe
<1>4. QED
  BY <1>2, <1>3

(* Steps that change nothing but where a task is. *)
LEMMA GotoSafe ==
    ASSUME TypeOK, NEW s \in Scans, NEW t \in Scans, Safe(t), NEW next, Goto(s, next),
           next \in {"scanned", "failing", "reported", "unreported", "ended", "abandoned"},
           Acked(s), pc[s] \notin Over,
           next \in {"reported", "unreported"} => pc[s] = "profiled",
           next = "ended" => pc[s] = "closing",
           next = "abandoned" => pc[s] = "abandoning",
           next \in {"scanned", "failing"} => pc[s] = "scanning",
           UNCHANGED <<dbUp, rows, memory, reqSession, taskSession, outages, restarts, torn, timeouts>>
    PROVE  Safe(t)'
<1>1. CASE t # s
  BY <1>1, Frame DEF TypeOK, Goto
<1>2. CASE t = s
  <2>1. pc'[s] = next
    BY DEF TypeOK, Goto
  <2>2. Home(s)' /\ Complete(s)'
    BY <1>2, <2>1 DEF Safe, Home, Complete, CompleteRecord, Exists
  <2>3. Kept(s)'
    BY <1>2, <2>1 DEF Safe, Kept, InDatabase, Exists
  <2>4. Saved(s)'
    BY <1>2, <2>1 DEF Safe, Saved, Current, Exists
  <2>5. Cause(s)'
    BY <1>2, <2>1 DEF Safe, Cause, Blame, InDatabase, Settled, AtWork
  <2>6. QED
    BY <1>2, <2>2, <2>3, <2>4, <2>5 DEF Safe
<1>3. QED
  BY <1>1, <1>2

LEMMA RunScanSafe ==
    ASSUME IndInv, NEW s \in Scans, RunScan(s) \/ Supervise(s) \/ ExitRequest(s), NEW t \in Scans
    PROVE  Safe(t)'
<1>1. TypeOK /\ Safe(t)
  BY DEF IndInv
<1>2. CASE RunScan(s)
  BY <1>1, <1>2, GotoSafe DEF RunScan, Acked, Over, faults, glitches
<1>3. CASE Supervise(s)
  BY <1>1, <1>3, GotoSafe DEF Supervise, Acked, Over, faults, glitches
<1>4. CASE ExitRequest(s)
  BY <1>1, <1>4, GotoSafe DEF ExitRequest, Acked, Over, faults, glitches
<1>5. QED
  BY <1>2, <1>3, <1>4

LEMMA TaskWritesSafe ==
    ASSUME IndInv, NEW s \in Scans, NEW t \in Scans,
           MarkRunning(s) \/ SaveProfile(s) \/ SaveOutcome(s) \/ FinishPlain(s)
    PROVE  Safe(t)'
<1>1. TypeOK /\ Safe(t) /\ Safe(s) /\ Current(s) \in Record
  BY CurrentType DEF IndInv
<1>a. Exists(Current(s)) => CompleteRecord(s, Current(s))
  BY <1>1 DEF Safe, Complete, Current
<1>2. CASE MarkRunning(s)
  <2> DEFINE new == [Current(s) EXCEPT !.status = "running", !.step = "ingesting"]
  <2>1. TaskWrite(s, new, "scanning") /\ Acked(s) /\ pc[s] \notin Over
    BY <1>2 DEF MarkRunning, Acked, Over
  <2>2. new \in Record /\ new.status = "running"
    BY <1>1 DEF Record, Statuses, Steps
  <2>3. Exists(new) /\ CompleteRecord(s, new)
    BY <2>2 DEF Exists, CompleteRecord
  <2>4. QED
    BY <1>1, <2>1, <2>2, <2>3, TaskWriteSafe, TaskWriteFrame
<1>3. CASE SaveProfile(s)
  <2> DEFINE new == [Current(s) EXCEPT !.profile = TRUE, !.step = "scanned"]
  <2>1. TaskWrite(s, new, "profiled") /\ Acked(s) /\ pc[s] \notin Over
    BY <1>3 DEF SaveProfile, Acked, Over
  <2>2. /\ new \in Record /\ new.status = Current(s).status
        /\ new.profile /\ new.report = Current(s).report
    BY <1>1 DEF Record, Steps
  <2>3. Exists(Current(s)) => Exists(new) /\ CompleteRecord(s, new)
    BY <1>a, <2>2 DEF Exists, CompleteRecord
  <2>4. QED
    BY <1>1, <2>1, <2>2, <2>3, TaskWriteSafe, TaskWriteFrame
<1>4. CASE SaveOutcome(s)
  <2> DEFINE done == pc[s] = "reported"
             new == [Current(s) EXCEPT !.status = IF done THEN "completed" ELSE "failed",
                                       !.step = "completed", !.report = done]
  <2>1. TaskWrite(s, new, "closing") /\ Acked(s) /\ pc[s] \notin Over
    BY <1>4 DEF SaveOutcome, Acked, Over
  <2> HIDE DEF done
  <2>2. /\ done \in BOOLEAN => new \in Record
        /\ new.status = (IF done THEN "completed" ELSE "failed")
        /\ new.profile = Current(s).profile /\ new.report = done
    BY <1>1 DEF Record, Statuses, Steps
  <2>d. done \in BOOLEAN
    BY DEF done
  <2>3. Exists(Current(s)) => Current(s).profile
    BY <1>1, <1>4 DEF SaveOutcome, Safe, Saved
  <2>4. Exists(Current(s)) => Exists(new) /\ CompleteRecord(s, new)
    BY <2>2, <2>3 DEF Exists, CompleteRecord
  <2>5. Settled(new)
    BY <2>2 DEF Settled
  <2>6. new \in Record
    BY <2>2, <2>d
  <2> HIDE DEF new
  <2>7. QED
    BY <1>1, <2>1, <2>4, <2>5, <2>6, TaskWriteSafe, TaskWriteFrame
<1>5. CASE FinishPlain(s)
  <2> DEFINE new == [Current(s) EXCEPT !.status = "completed", !.step = "completed"]
  <2>1. TaskWrite(s, new, "closing") /\ Acked(s) /\ pc[s] \notin Over /\ s \notin Enriched
    BY <1>5 DEF FinishPlain, Acked, Over
  <2>2. /\ new \in Record /\ new.status = "completed"
        /\ new.profile = Current(s).profile
    BY <1>1 DEF Record, Statuses, Steps
  <2>3. Exists(Current(s)) => Current(s).profile
    BY <1>1, <1>5 DEF FinishPlain, Safe, Saved
  <2>4. Exists(Current(s)) => Exists(new) /\ CompleteRecord(s, new)
    BY <2>1, <2>2, <2>3 DEF Exists, CompleteRecord
  <2>5. Settled(new)
    BY <2>2 DEF Settled
  <2>6. QED
    BY <1>1, <2>1, <2>2, <2>4, <2>5, TaskWriteSafe, TaskWriteFrame
<1>6. QED
  BY <1>2, <1>3, <1>4, <1>5

LEMMA RecordFailureSafe ==
    ASSUME IndInv, NEW s \in Scans, RecordFailure(s), NEW t \in Scans
    PROVE  Safe(t)'
<1> DEFINE new == [Current(s) EXCEPT !.status = "failed", !.errors = TRUE]
<1>1. /\ TypeOK /\ Safe(t) /\ Safe(s) /\ Current(s) \in Record
      /\ Acked(s) /\ pc[s] \notin Over /\ pc[s] = "failing"
  BY CurrentType DEF IndInv, RecordFailure, Acked, Over
<1>2. PICK out \in Outcomes(taskSession[s]) :
          Update(s, new, out) /\ Goto(s, IF out = "ok" THEN "closing" ELSE "abandoning")
  BY DEF RecordFailure
<1>3. /\ dbUp' = dbUp /\ reqSession' = reqSession /\ outages' = outages
      /\ restarts' = restarts
  BY DEF RecordFailure, faults
<1>4. new \in Record /\ new.status = "failed"
  BY <1>1 DEF Record, Statuses
<1>5. Exists(new) /\ CompleteRecord(s, new) /\ Settled(new)
  BY <1>4 DEF Exists, CompleteRecord, Settled
<1> HIDE DEF new
<1>6. CASE t # s
  BY <1>1, <1>2, <1>3, <1>4, <1>6, WriteFrame
<1>7. CASE t = s /\ out = "ok"
  <2>1. pc' = [pc EXCEPT ![s] = "closing"]
    BY <1>2, <1>7 DEF Goto
  <2>2. QED
    BY <1>1, <1>2, <1>3, <1>4, <1>5, <1>7, <2>1, WriteSafe
<1>8. CASE t = s /\ out # "ok"
  <2>1. pc' = [pc EXCEPT ![s] = "abandoning"]
    BY <1>2, <1>8 DEF Goto
  <2>2. QED
    BY <1>1, <1>2, <1>3, <1>4, <1>5, <1>8, <2>1, WriteSafe
<1>9. QED
  BY <1>6, <1>7, <1>8

LEMMA StepSafe ==
    ASSUME IndInv, NEW s \in Scans, StepOf(s), NEW t \in Scans
    PROVE  Safe(t)'
  BY PostEnterSafe, CreateRecordSafe, OpenTaskSafe, RunScanSafe, TaskWritesSafe,
     RecordFailureSafe DEF StepOf, Coroutine

LEMMA EnvironmentSafe ==
    ASSUME IndInv, NEW t \in Scans, DbDown \/ DbBack \/ Restart
    PROVE  Safe(t)'
<1>1. TypeOK /\ Safe(t)
  BY DEF IndInv
<1>2. CASE DbDown
  <2>1. PICK R \in SUBSET Holding(reqSession), T \in SUBSET Holding(taskSession) :
            /\ reqSession' = [s \in Scans |-> IF s \in R THEN "lost" ELSE reqSession[s]]
            /\ taskSession' = [s \in Scans |-> IF s \in T THEN "lost" ELSE taskSession[s]]
    BY <1>2 DEF DbDown
  <2>2. /\ rows' = rows /\ memory' = memory /\ pc' = pc /\ restarts' = restarts
        /\ torn' = torn /\ outages' = outages + 1
    BY <1>2 DEF DbDown, glitches
  <2>3. /\ reqSession'[t] = "none" <=> reqSession[t] = "none"
        /\ taskSession'[t] = "none" <=> taskSession[t] = "none"
        /\ taskSession'[t] = "free" => taskSession[t] = "free"
    BY <2>1 DEF Holding
  <2>4. Home(t)' /\ Kept(t)'
    BY <1>1, <2>2, <2>3 DEF Safe, Home, Kept, Acked, InDatabase, Exists
  <2>5. Saved(t)' /\ Complete(t)'
    BY <1>1, <2>2, <2>3 DEF Safe, Saved, Complete, CompleteRecord, Current, Exists
  <2>6. outages' + torn' > 0
    BY <1>1, <2>2 DEF TypeOK
  <2>7. Cause(t)'
    BY <1>1, <2>2, <2>3, <2>6 DEF Safe, Cause, Blame, InDatabase, Settled
  <2>8. QED
    BY <2>4, <2>5, <2>7 DEF Safe
<1>3. CASE DbBack
  BY <1>1, <1>3, Frame DEF DbBack, TypeOK, faults, glitches
<1>4. CASE Restart
  <2>1. /\ pc'[t] = IF pc[t] \in Idle THEN pc[t]
                    ELSE IF pc[t] = "entered" THEN "refused" ELSE "killed"
        /\ memory'[t] = Absent /\ restarts' = restarts + 1 /\ rows' = rows
        /\ UNCHANGED <<dbUp, reqSession, taskSession, outages, torn, timeouts>>
    BY <1>4 DEF Restart, glitches
  <2>2. Home(t)'
    BY <1>1, <2>1, QueuedType DEF Safe, Home, Exists, Idle, Over
  <2>3. restarts' > 0
    BY <1>1, <2>1 DEF TypeOK
  <2>4. Kept(t)'
    BY <1>1, <2>1, <2>3 DEF Safe, Kept, Acked, InDatabase, Exists, Idle, Over
  <2>5. Saved(t)'
    BY <2>1 DEF Saved, Idle, Over
  <2>6. Complete(t)'
    BY <1>1, <2>1, QueuedType DEF Safe, Complete, CompleteRecord
  <2>7. Cause(t)'
    BY <1>1, <2>1 DEF Safe, Cause, Blame, InDatabase, Settled, Idle, Over, AtWork
  <2>8. QED
    BY <2>2, <2>4, <2>5, <2>6, <2>7 DEF Safe
<1>5. QED
  BY <1>2, <1>3, <1>4

(* While the flag is set and Postgres is down, an outage has been counted.  *)
LEMMA FlagStep ==
    ASSUME TypeOK, dbAvailable /\ ~dbUp => outages > 0, [Next]_vars
    PROVE  (dbAvailable /\ ~dbUp => outages > 0)'
<1>1. CASE DbDown
  BY <1>1 DEF DbDown, TypeOK
<1>2. CASE Restart
  <2>1. dbAvailable' = dbUp /\ dbUp' = dbUp
    BY <1>2 DEF Restart
  <2>2. QED
    BY <2>1, Zenon
<1>3. CASE DbBack
  BY <1>3, Zenon DEF DbBack
<1>4. ASSUME NEW s \in Scans, StepOf(s)
      PROVE  (dbAvailable' => dbAvailable) /\ dbUp' = dbUp /\ outages' = outages
  <2>1. CASE PostEnter(s) \/ OpenTask(s) \/ RunScan(s) \/ Supervise(s)
    BY <2>1 DEF PostEnter, OpenTask, RunScan, Supervise, faults
  <2>2. CASE CreateRecord(s)
    <3>1. \E out : dbAvailable' = (dbAvailable /\ out = "ok")
      BY <2>2, Zenon DEF CreateRecord
    <3>2. dbUp' = dbUp /\ outages' = outages
      BY <2>2 DEF CreateRecord, faults
    <3>3. QED
      BY <3>1, <3>2, Zenon
  <2>3. CASE MarkRunning(s) \/ SaveProfile(s) \/ SaveOutcome(s) \/ FinishPlain(s)
    BY <2>3 DEF MarkRunning, SaveProfile, SaveOutcome, FinishPlain, TaskWrite, faults
  <2>4. CASE RecordFailure(s)
    BY <2>4 DEF RecordFailure, faults
  <2>5. CASE ExitRequest(s)
    <3>1. dbAvailable' = (dbAvailable /\ (reqSession[s] = "none"
                                         \/ (reqSession[s] = "held" /\ dbUp)))
      BY <2>5, Zenon DEF ExitRequest
    <3>2. dbUp' = dbUp /\ outages' = outages
      BY <2>5 DEF ExitRequest, faults
    <3>3. QED
      BY <3>1, <3>2, Zenon
  <2>6. QED
    BY <1>4, <2>1, <2>2, <2>3, <2>4, <2>5, Zenon DEF StepOf, Coroutine
<1>5. ASSUME NEW s \in Scans, NEW kind \in GetKinds, Get(kind, s)
      PROVE  (dbAvailable' => dbAvailable) /\ dbUp' = dbUp /\ outages' = outages
  BY <1>5, Zenon DEF Get, faults
<1>6. CASE UNCHANGED vars
  BY <1>6, Zenon DEF vars
<1>7. CASE GetLate
  BY <1>7, Zenon DEF GetLate, faults
<1>8. QED
  BY <1>1, <1>2, <1>3, <1>4, <1>5, <1>6, <1>7 DEF Next, StepOf
-----------------------------------------------------------------------------
LEMMA Inductive == Spec => []IndInv
<1>1. IndInv /\ [Next]_vars => IndInv'
  <2> SUFFICES ASSUME IndInv, [Next]_vars, TypeOK' PROVE IndInv'
    <3>1. TypeOK /\ [Next]_vars => TypeOK'
      BY TypeStep
    <3>2. QED
      BY <3>1 DEF IndInv
  <2>1. (dbAvailable /\ ~dbUp => outages > 0)'
    BY FlagStep DEF IndInv
  <2>2. ASSUME NEW t \in Scans PROVE Safe(t)'
    <3>1. CASE \E s \in Scans : StepOf(s)
      BY <3>1, StepSafe
    <3>2. CASE (\E s \in Scans, kind \in GetKinds : Get(kind, s)) \/ GetLate
      <4>1. /\ UNCHANGED <<dbUp, rows, memory, pc, reqSession, taskSession,
                             torn, outages, restarts>>
            /\ timeouts' = timeouts \/ timeouts' = timeouts + 1
        BY <3>2, Zenon DEF Get, GetLate, faults, glitches
      <4>2. timeouts' >= timeouts
        BY <4>1 DEF IndInv, TypeOK
      <4>3. TypeOK /\ Safe(t)
        BY DEF IndInv
      <4>4. QED
        BY <4>1, <4>2, <4>3, Frame DEF TypeOK
    <3>3. CASE DbDown \/ DbBack \/ Restart
      BY <3>3, EnvironmentSafe
    <3>4. CASE UNCHANGED vars
      BY <3>4, Frame DEF vars, IndInv, TypeOK
    <3>5. QED
      BY <3>1, <3>2, <3>3, <3>4 DEF Next, StepOf
  <2>3. QED
    BY <2>1, <2>2 DEF IndInv
<1>2. QED
  BY InitInv, <1>1, PTL DEF Spec

\* However the flag moves between POST, task and restart, no scan ever has a
\* record in the table and in the memory store at once.
THEOREM OneStoreAlways == Spec => []OneStore
  BY Inductive, InvImplies, PTL

\* A scan that was answered 202 keeps its record in the store it was created in.
THEOREM AckedRecordAlwaysKept == Spec => []AckedRecordKept
  BY Inductive, InvImplies, PTL

\* A record that reads "completed" holds the profile, and the report when the
\* request asked for enrichment.
THEOREM CompletedAlwaysComplete == Spec => []CompletedIsComplete
  BY Inductive, InvImplies, PTL

\* A finished task whose row is not settled was switched to the memory store, or
\* raised twice: over an outage or a torn commit, or, with a Postgres that never
\* failed, over two checkouts that waited too long for the pool.
THEOREM LossAlwaysHasCause == Spec => []LossHasCause
  BY Inductive, InvImplies, PTL
-----------------------------------------------------------------------------
(* How far the record of a scan can have come while its task is at work:   *)
(* nothing is settled before the outcome is written, what the task finds is*)
(* running once it has said so, and a settled record that the except block *)
(* meets was published by a commit that then raised.                       *)
Stage(s) ==
    /\ pc[s] \in {"acked", "opened"} =>
           rows[s].status \in {"absent", "queued"} /\ memory[s].status \in {"absent", "queued"}
    /\ pc[s] \in AtWork =>
           /\ Current(s).status \in {"absent", "running"}
           /\ ~Settled(rows[s])
    /\ pc[s] = "failing" /\ Settled(rows[s]) => torn > 0

Staged == \A s \in Scans : Stage(s)

LEMMA InitStaged == Init => Staged
  BY DEF Init, Staged, Stage, AtWork

(* A scan that a step leaves alone stays at its stage.                     *)
LEMMA StageFrame ==
    ASSUME TypeOK, NEW t \in Scans, Stage(t),
           rows'[t] = rows[t], memory'[t] = memory[t], pc'[t] = pc[t],
           taskSession'[t] = "none" <=> taskSession[t] = "none",
           torn' \in Nat, torn' >= torn
    PROVE  Stage(t)'
<1>1. torn > 0 => torn' > 0
  BY DEF TypeOK
<1>2. Current(t)' = Current(t)
  BY DEF Current
<1> QED
  BY <1>1, <1>2 DEF Stage, Settled

LEMMA TaskWriteStage ==
    ASSUME TypeOK, TypeOK', NEW s \in Scans, Stage(s), NEW new \in Record,
           NEW next \in {"scanning", "profiled", "closing"},
           TaskWrite(s, new, next), Home(s),
           pc[s] \in AtWork \cup {"opened"},
           next # "closing" => new.status \in {"absent", "running"}
    PROVE  Staged => Staged'
<1> SUFFICES ASSUME Staged, NEW t \in Scans PROVE Stage(t)'
  BY DEF Staged
<1>1. PICK out \in Outcomes(taskSession[s]) :
          Update(s, new, out) /\ Goto(s, IF out = "ok" THEN next ELSE "failing")
  BY DEF TaskWrite
<1>2. /\ \A u \in Scans \ {s} : /\ rows'[u] = rows[u] /\ memory'[u] = memory[u]
                                 /\ taskSession'[u] = taskSession[u]
      /\ rows'[s] = rows[s] \/ (rows'[s] = new /\ Exists(rows[s])
                                 /\ taskSession[s] # "none")
      /\ memory'[s] = memory[s] \/ (memory'[s] = new /\ Exists(memory[s])
                                     /\ taskSession[s] = "none")
      /\ Exists(Current(s)) /\ out = "ok" =>
            (IF taskSession[s] = "none" THEN memory'[s] ELSE rows'[s]) = new
      /\ taskSession'[s] = "none" <=> taskSession[s] = "none"
      /\ torn' >= torn
  BY <1>1, UpdateEffect
<1>3. pc'[s] = (IF out = "ok" THEN next ELSE "failing") /\ \A u \in Scans \ {s} : pc'[u] = pc[u]
  BY <1>1 DEF Goto, TypeOK
<1>4. torn' \in Nat
  BY DEF TypeOK
<1>5. CASE t # s
  BY <1>2, <1>3, <1>4, <1>5, StageFrame DEF Staged
<1>6. CASE t = s /\ out = "ok"
  <2>1. pc'[s] = next
    BY <1>3, <1>6
  <2>2. CASE next = "closing"
    BY <1>6, <2>1, <2>2 DEF Stage, AtWork
  <2>3. CASE next # "closing"
    <3>1. Current(s)'.status \in {"absent", "running"}
      <4>1. CASE Exists(Current(s))
        BY <1>2, <1>6, <2>3, <4>1 DEF Current
      <4>2. CASE ~Exists(Current(s))
        BY <1>2, <4>2 DEF Current, Exists
      <4> QED
        BY <4>1, <4>2
    <3>2. ~Settled(rows[s])
      BY DEF Stage, AtWork, Settled
    <3>3. ~Settled(rows'[s])
      BY <1>2, <2>3, <3>2 DEF Settled
    <3> QED
      BY <1>6, <2>1, <2>3, <3>1, <3>3 DEF Stage, AtWork, Settled
  <2> QED
    BY <2>2, <2>3
<1>7. CASE t = s /\ out # "ok"
  <2>1. pc'[s] = "failing"
    BY <1>3, <1>7
  <2>2. ~Settled(rows[s])
    BY DEF Stage, AtWork, Settled
  <2>3. rows'[s] # rows[s] => Landed(out)
    BY <1>1 DEF Update, TypeOK
  <2>4. Landed(out) => out \in {"ok", "torn"}
    BY DEF Landed
  <2>5. out = "torn" => torn' > 0
    BY <1>1 DEF Update, Count, TypeOK
  <2> QED
    BY <1>7, <2>1, <2>2, <2>3, <2>4, <2>5 DEF Stage, AtWork, Settled
<1> QED
  BY <1>5, <1>6, <1>7

(* The writes of the task on its way to an outcome.                        *)
LEMMA TaskWritesStage ==
    ASSUME IndInv, TypeOK', Staged, NEW s \in Scans,
           MarkRunning(s) \/ SaveProfile(s) \/ SaveOutcome(s) \/ FinishPlain(s)
    PROVE  Staged'
<1>1. TypeOK /\ Stage(s) /\ Home(s) /\ Current(s) \in Record
  BY CurrentType DEF IndInv, Safe, Staged
<1>2. CASE MarkRunning(s)
  <2> DEFINE new == [Current(s) EXCEPT !.status = "running", !.step = "ingesting"]
  <2>1. TaskWrite(s, new, "scanning") /\ pc[s] = "opened"
    BY <1>2 DEF MarkRunning
  <2>2. new \in Record /\ new.status = "running"
    BY <1>1 DEF Record, Statuses, Steps
  <2> HIDE DEF new
  <2> QED
    BY <1>1, <2>1, <2>2, TaskWriteStage
<1>3. CASE SaveProfile(s)
  <2> DEFINE new == [Current(s) EXCEPT !.profile = TRUE, !.step = "scanned"]
  <2>1. TaskWrite(s, new, "profiled") /\ pc[s] = "scanned"
    BY <1>3 DEF SaveProfile
  <2>2. new \in Record /\ new.status = Current(s).status
    BY <1>1 DEF Record, Steps
  <2>3. new.status \in {"absent", "running"}
    BY <1>1, <2>1, <2>2 DEF Stage, AtWork
  <2> HIDE DEF new
  <2> QED
    BY <1>1, <2>1, <2>2, <2>3, TaskWriteStage DEF AtWork
<1>4. CASE SaveOutcome(s)
  <2> DEFINE done == pc[s] = "reported"
             new == [Current(s) EXCEPT !.status = IF done THEN "completed" ELSE "failed",
                                       !.step = "completed", !.report = done]
  <2>1. TaskWrite(s, new, "closing") /\ pc[s] \in {"reported", "unreported"}
    BY <1>4 DEF SaveOutcome
  <2>2. done \in BOOLEAN
    OBVIOUS
  <2> HIDE DEF done
  <2>3. new \in Record
    BY <1>1, <2>2 DEF Record, Statuses, Steps
  <2> HIDE DEF new
  <2> QED
    BY <1>1, <2>1, <2>3, TaskWriteStage DEF AtWork
<1>5. CASE FinishPlain(s)
  <2> DEFINE new == [Current(s) EXCEPT !.status = "completed", !.step = "completed"]
  <2>1. TaskWrite(s, new, "closing") /\ pc[s] = "profiled"
    BY <1>5 DEF FinishPlain
  <2>2. new \in Record
    BY <1>1 DEF Record, Statuses, Steps
  <2> HIDE DEF new
  <2> QED
    BY <1>1, <2>1, <2>2, TaskWriteStage DEF AtWork
<1> QED
  BY <1>2, <1>3, <1>4, <1>5

LEMMA StepStage ==
    ASSUME IndInv, TypeOK', Staged, NEW s \in Scans, StepOf(s)
    PROVE  Staged'
<1>1. CASE MarkRunning(s) \/ SaveProfile(s) \/ SaveOutcome(s) \/ FinishPlain(s)
  BY <1>1, TaskWritesStage
<1>2. CASE PostEnter(s) \/ OpenTask(s) \/ RunScan(s) \/ Supervise(s) \/ ExitRequest(s)
  <2> SUFFICES ASSUME NEW t \in Scans PROVE Stage(t)'
    BY DEF Staged
  <2>1. TypeOK /\ Stage(t) /\ Home(t)
    BY DEF IndInv, Safe, Staged
  <2>2. rows' = rows /\ memory' = memory /\ torn' = torn
    BY <1>2 DEF PostEnter, OpenTask, RunScan, Supervise, ExitRequest, glitches
  <2>3. CASE t # s
    BY <1>2, <2>1, <2>2, <2>3, StageFrame
    DEF PostEnter, OpenTask, RunScan, Supervise, ExitRequest, Goto, TypeOK
  <2>4. CASE t = s /\ (PostEnter(s) \/ OpenTask(s) \/ ExitRequest(s))
    <3>1. pc'[s] \in {"entered", "ended", "abandoned"} \/ (pc[s] = "acked" /\ pc'[s] = "opened")
      BY <2>1, <2>4 DEF PostEnter, OpenTask, ExitRequest, Goto, TypeOK
    <3> QED
      BY <2>1, <2>2, <2>4, <3>1 DEF Stage, AtWork
  <2>5. CASE t = s /\ (RunScan(s) \/ Supervise(s))
    <3>1. pc[s] \in AtWork /\ pc'[s] \in AtWork \cup {"failing"} /\ taskSession' = taskSession
      BY <2>1, <2>5 DEF RunScan, Supervise, Goto, TypeOK, AtWork
    <3>2. Current(s)' = Current(s)
      BY <2>2, <3>1 DEF Current
    <3> QED
      BY <2>1, <2>2, <2>5, <3>1, <3>2 DEF Stage, AtWork, Settled
  <2> QED
    BY <1>2, <2>3, <2>4, <2>5
<1>3. CASE CreateRecord(s)
  <2> SUFFICES ASSUME NEW t \in Scans PROVE Stage(t)'
    BY DEF Staged
  <2>1. TypeOK /\ Stage(t) /\ Home(s) /\ pc[s] = "entered" /\ taskSession' = taskSession
    BY <1>3 DEF IndInv, Safe, Staged, CreateRecord
  <2>2. PICK out \in CreateOutcomes(s) :
            Create(s, out) /\ Goto(s, IF out = "ok" THEN "acked" ELSE "refused")
    BY <1>3 DEF CreateRecord
  <2>3. torn' \in Nat /\ torn' >= torn
    BY <2>1, <2>2 DEF Create, Count, TypeOK
  <2>4. CASE t # s
    BY <2>1, <2>2, <2>3, <2>4, StageFrame DEF Create, Goto, TypeOK
  <2>5. CASE t = s
    <3>1. /\ pc'[s] \in {"acked", "refused"}
          /\ rows'[s] \in {Queued, rows[s]} /\ memory'[s] \in {Queued, memory[s]}
      BY <2>1, <2>2 DEF Create, Goto, TypeOK
    <3>2. rows[s].status = "absent" /\ memory[s].status = "absent"
      BY <2>1 DEF Home, Exists
    <3> QED
      BY <2>5, <3>1, <3>2, QueuedType DEF Stage, AtWork
  <2> QED
    BY <2>4, <2>5
<1>4. CASE RecordFailure(s)
  <2> DEFINE new == [Current(s) EXCEPT !.status = "failed", !.errors = TRUE]
  <2> SUFFICES ASSUME NEW t \in Scans PROVE Stage(t)'
    BY DEF Staged
  <2>1. PICK out \in Outcomes(taskSession[s]) :
            Update(s, new, out) /\ Goto(s, IF out = "ok" THEN "closing" ELSE "abandoning")
    BY <1>4 DEF RecordFailure
  <2>2. TypeOK /\ Stage(t) /\ new \in Record
    BY CurrentType DEF IndInv, Staged, Record, Statuses
  <2> HIDE DEF new
  <2>3. /\ t # s => /\ rows'[t] = rows[t] /\ memory'[t] = memory[t]
                    /\ taskSession'[t] = taskSession[t]
        /\ torn' >= torn /\ torn' \in Nat
    BY <2>1, <2>2, UpdateEffect, UpdateType
  <2>4. pc'[t] = pc[t] \/ (t = s /\ pc'[s] \in {"closing", "abandoning"})
    BY <2>1, <2>2 DEF Goto, TypeOK
  <2>5. CASE t # s
    BY <2>2, <2>3, <2>4, <2>5, StageFrame
  <2>6. CASE t = s
    <3>1. pc'[s] \in {"closing", "abandoning"}
      BY <2>1, <2>2 DEF Goto, TypeOK
    <3> QED
      BY <2>6, <3>1 DEF Stage, AtWork
  <2> QED
    BY <2>5, <2>6
<1> QED
  BY <1>1, <1>2, <1>3, <1>4 DEF StepOf, Coroutine

LEMMA EnvironmentStage ==
    ASSUME TypeOK, TypeOK', Staged, NEW t \in Scans, DbDown \/ DbBack \/ Restart
    PROVE  Stage(t)'
<1>1. CASE DbDown \/ DbBack
  <2>1. rows' = rows /\ memory' = memory /\ pc' = pc /\ torn' = torn
    BY <1>1 DEF DbDown, DbBack, glitches
  <2>2. taskSession'[t] = "none" <=> taskSession[t] = "none"
    BY <1>1 DEF DbDown, DbBack, Holding
  <2> QED
    BY <2>1, <2>2, StageFrame DEF Staged, TypeOK
<1>2. CASE Restart
  <2>1. pc'[t] \in Idle
    BY <1>2 DEF Restart, Idle, Over, TypeOK
  <2> QED
    BY <2>1 DEF Stage, AtWork, Idle, Over
<1> QED
  BY <1>1, <1>2

(* The two inductive invariants together.                                  *)
LEMMA InductiveStaged == Spec => [](IndInv /\ Staged)
<1>1. IndInv /\ IndInv' /\ Staged /\ [Next]_vars => Staged'
  <2> SUFFICES ASSUME IndInv, IndInv', Staged, [Next]_vars PROVE Staged'
    OBVIOUS
  <2>0. TypeOK /\ TypeOK'
    BY DEF IndInv
  <2>1. CASE \E s \in Scans : StepOf(s)
    BY <2>0, <2>1, StepStage
  <2>2. CASE DbDown \/ DbBack \/ Restart
    BY <2>0, <2>2, EnvironmentStage DEF Staged
  <2>3. CASE UNCHANGED vars \/ GetLate \/ \E s \in Scans, kind \in GetKinds : Get(kind, s)
    <3>1. UNCHANGED <<rows, memory, pc, taskSession, torn>>
      BY <2>3 DEF vars, Get, GetLate, glitches
    <3> QED
      BY <2>0, <3>1, StageFrame DEF Staged, TypeOK
  <2> QED
    BY <2>1, <2>2, <2>3 DEF Next, StepOf
<1> QED
  BY <1>1, InitStaged, Inductive, PTL DEF Spec
-----------------------------------------------------------------------------
(* What any step does to the row of a scan.                                *)

LEMMA SettledStep ==
    ASSUME IndInv, Staged, [Next]_vars, NEW s \in Scans, Settled(rows[s])
    PROVE  \/ rows'[s] = rows[s]
           \/ /\ torn > 0
              /\ rows'[s] = [rows[s] EXCEPT !.status = "failed", !.errors = TRUE]
<1>1. TypeOK /\ Stage(s) /\ Home(s)
  BY DEF IndInv, Safe, Staged
<1>2. CASE rows' = rows
  BY <1>2
<1>3. ASSUME NEW u \in Scans, CreateRecord(u) PROVE rows'[s] = rows[s]
  <2>1. PICK out \in CreateOutcomes(u) : Create(u, out)
    BY <1>3 DEF CreateRecord
  <2>2. pc[u] = "entered" /\ Home(u)
    BY <1>3 DEF CreateRecord, IndInv, Safe
  <2>3. u # s
    BY <2>2 DEF Home, Exists, Settled
  <2> QED
    BY <1>1, <2>1, <2>3 DEF Create, TypeOK
<1>4. ASSUME NEW u \in Scans, NEW new, NEW next, pc[u] \in AtWork \cup {"opened"},
             TaskWrite(u, new, next)
      PROVE  rows'[s] = rows[s]
  <2>1. PICK out \in Outcomes(taskSession[u]) : Update(u, new, out)
    BY <1>4 DEF TaskWrite
  <2>2. u # s
    BY <1>1, <1>4 DEF Stage, AtWork, Settled
  <2> QED
    BY <1>1, <2>1, <2>2 DEF Update, TypeOK
<1>5. ASSUME NEW u \in Scans, MarkRunning(u) \/ SaveProfile(u) \/ SaveOutcome(u) \/ FinishPlain(u)
      PROVE  rows'[s] = rows[s]
  <2>1. pc[u] \in AtWork \cup {"opened"} /\ \E new, next : TaskWrite(u, new, next)
    BY <1>5, Zenon DEF MarkRunning, SaveProfile, SaveOutcome, FinishPlain, AtWork
  <2> QED
    BY <2>1, <1>4
<1>6. ASSUME NEW u \in Scans, RecordFailure(u)
      PROVE  \/ rows'[s] = rows[s]
             \/ /\ torn > 0
                /\ rows'[s] = [rows[s] EXCEPT !.status = "failed", !.errors = TRUE]
  <2>1. PICK out \in Outcomes(taskSession[u]) :
            Update(u, [Current(u) EXCEPT !.status = "failed", !.errors = TRUE], out)
    BY <1>6 DEF RecordFailure
  <2>2. CASE u # s
    BY <1>1, <2>1, <2>2 DEF Update, TypeOK
  <2>3. CASE u = s
    <3>1. torn > 0
      BY <1>1, <1>6, <2>3 DEF Stage, RecordFailure
    <3> QED
      BY <1>1, <2>1, <2>3, <3>1 DEF Update, Current, TypeOK
  <2> QED
    BY <2>2, <2>3
<1>7. CASE \E u \in Scans : StepOf(u)
  <2>1. PICK u \in Scans : StepOf(u)
    BY <1>7
  <2>2. CASE PostEnter(u) \/ OpenTask(u) \/ RunScan(u) \/ Supervise(u) \/ ExitRequest(u)
    BY <1>2, <2>2 DEF PostEnter, OpenTask, RunScan, Supervise, ExitRequest
  <2> QED
    BY <1>3, <1>5, <1>6, <2>1, <2>2 DEF StepOf, Coroutine
<1>8. CASE \/ UNCHANGED vars \/ DbDown \/ DbBack \/ Restart \/ GetLate
           \/ \E u \in Scans, kind \in GetKinds : Get(kind, u)
  BY <1>2, <1>8 DEF vars, DbDown, DbBack, Restart, Get, GetLate
<1> QED
  BY <1>7, <1>8 DEF Next, StepOf

\* A settled row stays what it is, except that an outcome whose commit raised
\* after landing is turned into a failure by the task's own except block.
THEOREM SettledRowAlwaysKept == Spec => SettledRowKept
<1>1. IndInv /\ Staged /\ [Next]_vars =>
          [\A s \in Scans : Settled(rows[s]) =>
               \/ rows'[s] = rows[s]
               \/ /\ torn > 0
                  /\ rows'[s] = [rows[s] EXCEPT !.status = "failed", !.errors = TRUE]]_vars
  BY SettledStep
<1> QED
  BY <1>1, InductiveStaged, PTL DEF Spec, SettledRowKept
-----------------------------------------------------------------------------
(* The refinement of ScanLifecycle: a write moves the status of one scan,  *)
(* a restart forgets those without a row, and every other step stutters.   *)

Durable == {s \in Scans : Exists(rows[s])}

LEMMA StatusMove ==
    ASSUME NEW s \in Scans, \A t \in Scans \ {s} : rows'[t] = rows[t] /\ memory'[t] = memory[t]
    PROVE  Status' = [Status EXCEPT ![s] = Status'[s]]
  BY DEF Status, Exists

(* What a write of the task does to status and durability.                 *)
LEMMA WriteMoves ==
    ASSUME TypeOK, NEW s \in Scans, Home(s), NEW new \in Record,
           Exists(Current(s)) => Exists(new),
           NEW out \in Outcomes(taskSession[s]), Update(s, new, out)
    PROVE  /\ UNCHANGED Durable
           /\ \/ UNCHANGED Status
              \/ /\ Exists(Current(s)) /\ Status[s] = Current(s).status
                 /\ Status' = [Status EXCEPT ![s] = new.status]
<1>1. /\ \A t \in Scans \ {s} : rows'[t] = rows[t] /\ memory'[t] = memory[t]
      /\ rows'[s] = rows[s] \/ (rows'[s] = new /\ Exists(rows[s]) /\ taskSession[s] # "none")
      /\ memory'[s] = memory[s] \/ (memory'[s] = new /\ Exists(memory[s])
                                     /\ taskSession[s] = "none")
  BY UpdateEffect
<1>2. UNCHANGED Durable
  BY <1>1 DEF Durable, Current, Exists
<1>3. CASE rows'[s] = rows[s] /\ memory'[s] = memory[s]
  <2>1. UNCHANGED Status
    BY <1>1, <1>3 DEF Status, Exists
  <2> QED
    BY <1>2, <2>1
<1>4. CASE rows'[s] = new /\ Exists(rows[s]) /\ taskSession[s] # "none"
  <2>1. Current(s) = rows[s] /\ Status[s] = rows[s].status
    BY <1>4 DEF Current, Status
  <2>2. Status'[s] = new.status
    BY <1>4, <2>1 DEF Status, Exists
  <2> QED
    BY <1>1, <1>2, <1>4, <2>1, <2>2, StatusMove
<1>5. CASE memory'[s] = new /\ Exists(memory[s]) /\ taskSession[s] = "none"
  <2>1. rows'[s] = rows[s] /\ ~Exists(rows[s])
    BY <1>1, <1>5 DEF Home
  <2>2. Current(s) = memory[s] /\ Status[s] = memory[s].status
    BY <1>5, <2>1 DEF Current, Status
  <2>3. Status'[s] = new.status
    BY <1>5, <2>1 DEF Status, Exists
  <2> QED
    BY <1>1, <1>2, <1>5, <2>2, <2>3, StatusMove
<1> QED
  BY <1>1, <1>2, <1>3, <1>4, <1>5

LEMMA CreateMoves ==
    ASSUME IndInv, NEW s \in Scans, CreateRecord(s)
    PROVE  LC!Accept(s) \/ UNCHANGED <<Status, Durable>>
<1>1. PICK out \in CreateOutcomes(s) : Create(s, out)
  BY DEF CreateRecord
<1>2. TypeOK /\ Home(s) /\ pc[s] = "entered"
  BY DEF CreateRecord, IndInv, Safe
<1>3. /\ \A t \in Scans \ {s} : rows'[t] = rows[t] /\ memory'[t] = memory[t]
      /\ rows'[s] \in {Queued, rows[s]} /\ memory'[s] \in {Queued, memory[s]}
  BY <1>1, <1>2 DEF Create, TypeOK
<1>4. ~Exists(rows[s]) /\ ~Exists(memory[s]) /\ Status[s] = "absent"
  BY <1>2 DEF Home, Status, Exists
<1>5. CASE rows'[s] = rows[s] /\ memory'[s] = memory[s]
  BY <1>3, <1>5 DEF Status, Durable, Exists
<1>6. CASE rows'[s] = Queued \/ (memory'[s] = Queued /\ rows'[s] = rows[s])
  <2>1. Status'[s] = "queued"
    BY <1>4, <1>6, QueuedType DEF Status, Exists
  <2>2. Status' = [Status EXCEPT ![s] = "queued"]
    BY <1>3, <2>1, StatusMove
  <2>3. Durable' \in {Durable, Durable \cup {s}}
    BY <1>3, <1>4, <1>6, QueuedType DEF Durable, Exists
  <2> QED
    BY <1>4, <2>2, <2>3 DEF LC!Accept, LC!Move, Durable
<1> QED
  BY <1>3, <1>5, <1>6

LEMMA TaskMoves ==
    ASSUME IndInv, Staged, NEW s \in Scans,
           \/ MarkRunning(s) \/ SaveProfile(s) \/ SaveOutcome(s)
           \/ FinishPlain(s) \/ RecordFailure(s)
    PROVE  \/ LC!Start(s) \/ LC!Complete(s) \/ LC!Fail(s) \/ LC!Withdraw(s)
           \/ UNCHANGED <<Status, Durable>>
<1>1. TypeOK /\ Home(s) /\ Stage(s) /\ Current(s) \in Record
  BY CurrentType DEF IndInv, Safe, Staged
<1>2. CASE MarkRunning(s)
  <2> DEFINE new == [Current(s) EXCEPT !.status = "running", !.step = "ingesting"]
  <2>1. PICK out \in Outcomes(taskSession[s]) : Update(s, new, out)
    BY <1>2 DEF MarkRunning, TaskWrite
  <2>2. new \in Record /\ new.status = "running"
    BY <1>1 DEF Record, Statuses, Steps
  <2>3. Current(s).status \in {"absent", "queued"}
    BY <1>1, <1>2 DEF Stage, MarkRunning, Current
  <2> HIDE DEF new
  <2>4. UNCHANGED <<Status, Durable>> \/ LC!Start(s)
    BY <1>1, <2>1, <2>2, <2>3, WriteMoves DEF Exists, LC!Start, LC!Move, Durable
  <2> QED
    BY <2>4
<1>3. CASE SaveProfile(s)
  <2> DEFINE new == [Current(s) EXCEPT !.profile = TRUE, !.step = "scanned"]
  <2>1. PICK out \in Outcomes(taskSession[s]) : Update(s, new, out)
    BY <1>3 DEF SaveProfile, TaskWrite
  <2>2. new \in Record /\ new.status = Current(s).status
    BY <1>1 DEF Record, Steps
  <2> HIDE DEF new
  <2>3. UNCHANGED <<Status, Durable>>
    BY ZenonT(30), <1>1, <2>1, <2>2, WriteMoves DEF Exists, Status
  <2> QED
    BY <2>3
<1>4. CASE SaveOutcome(s)
  <2> DEFINE done == pc[s] = "reported"
             new == [Current(s) EXCEPT !.status = IF done THEN "completed" ELSE "failed",
                                       !.step = "completed", !.report = done]
  <2>1. PICK out \in Outcomes(taskSession[s]) : Update(s, new, out)
    BY <1>4 DEF SaveOutcome, TaskWrite
  <2>2. done \in BOOLEAN
    OBVIOUS
  <2> HIDE DEF done
  <2>3. new \in Record /\ new.status \in {"completed", "failed"}
    BY <1>1, <2>2 DEF Record, Statuses, Steps
  <2>4. Current(s).status \in {"absent", "running"}
    BY <1>1, <1>4 DEF Stage, AtWork, SaveOutcome
  <2> HIDE DEF new
  <2>5. UNCHANGED <<Status, Durable>> \/ LC!Complete(s) \/ LC!Fail(s)
    BY <1>1, <2>1, <2>3, <2>4, WriteMoves DEF Exists, LC!Complete, LC!Fail, LC!Move, Durable
  <2> QED
    BY <2>5
<1>5. CASE FinishPlain(s)
  <2> DEFINE new == [Current(s) EXCEPT !.status = "completed", !.step = "completed"]
  <2>1. PICK out \in Outcomes(taskSession[s]) : Update(s, new, out)
    BY <1>5 DEF FinishPlain, TaskWrite
  <2>2. new \in Record /\ new.status = "completed"
    BY <1>1 DEF Record, Statuses, Steps
  <2>3. Current(s).status \in {"absent", "running"}
    BY <1>1, <1>5 DEF Stage, AtWork, FinishPlain
  <2> HIDE DEF new
  <2>4. UNCHANGED <<Status, Durable>> \/ LC!Complete(s)
    BY <1>1, <2>1, <2>2, <2>3, WriteMoves DEF Exists, LC!Complete, LC!Move, Durable
  <2> QED
    BY <2>4
<1>6. CASE RecordFailure(s)
  <2> DEFINE new == [Current(s) EXCEPT !.status = "failed", !.errors = TRUE]
  <2>1. PICK out \in Outcomes(taskSession[s]) : Update(s, new, out)
    BY <1>6 DEF RecordFailure
  <2>2. new \in Record /\ new.status = "failed"
    BY <1>1 DEF Record, Statuses
  <2>3. Current(s).status \in Statuses
    BY <1>1 DEF Record
  <2> HIDE DEF new
  <2>4. /\ UNCHANGED Durable
        /\ \/ UNCHANGED Status
           \/ /\ Exists(Current(s)) /\ Status[s] = Current(s).status
              /\ Status' = [Status EXCEPT ![s] = "failed"]
    BY <1>1, <2>1, <2>2, WriteMoves DEF Exists
  <2>5. Exists(Current(s)) =>
            Current(s).status \in {"queued", "running", "completed", "failed"}
    BY <2>3 DEF Exists, Statuses
  <2>6. Status[s] = "failed" => [Status EXCEPT ![s] = "failed"] = Status
    BY DEF Status
  <2> QED
    BY <2>4, <2>5, <2>6 DEF LC!Fail, LC!Withdraw, LC!Move, Durable
<1> QED
  BY <1>2, <1>3, <1>4, <1>5, <1>6

LEMMA RestartForgets == Restart => LC!Forget
<1> SUFFICES ASSUME Restart PROVE LC!Forget
  OBVIOUS
<1>1. rows' = rows /\ memory' = [s \in Scans |-> Absent]
  BY DEF Restart
<1>2. Status' = [s \in Scans |-> IF s \in Durable THEN Status[s] ELSE "absent"]
  BY <1>1, QueuedType DEF Status, Durable, Exists
<1>3. Durable' = Durable
  BY <1>1 DEF Durable, Exists
<1> QED
  BY <1>2, <1>3 DEF LC!Forget, Durable

LEMMA LifecycleStep ==
    ASSUME IndInv, Staged, [Next]_vars
    PROVE  [LC!Next]_<<Status, Durable>>
<1>1. ASSUME NEW s \in Scans, StepOf(s)
      PROVE  [LC!Next]_<<Status, Durable>>
  <2>1. CASE PostEnter(s) \/ OpenTask(s) \/ RunScan(s) \/ Supervise(s) \/ ExitRequest(s)
    BY <2>1 DEF PostEnter, OpenTask, RunScan, Supervise, ExitRequest, Status, Durable, Exists
  <2>2. CASE CreateRecord(s)
    BY <2>2, CreateMoves DEF LC!Next
  <2>3. CASE \/ MarkRunning(s) \/ SaveProfile(s) \/ SaveOutcome(s)
             \/ FinishPlain(s) \/ RecordFailure(s)
    BY <2>3, TaskMoves DEF LC!Next
  <2> QED
    BY <1>1, <2>1, <2>2, <2>3 DEF StepOf, Coroutine
<1>2. CASE Restart
  BY <1>2, RestartForgets DEF LC!Next
<1>3. CASE \/ UNCHANGED vars \/ DbDown \/ DbBack \/ GetLate
           \/ \E s \in Scans, kind \in GetKinds : Get(kind, s)
  BY <1>3 DEF vars, DbDown, DbBack, Get, GetLate, Status, Durable, Exists
<1> QED
  BY <1>1, <1>2, <1>3 DEF Next, StepOf

\* Whatever store a scan's record is in, and whatever fails or stops on the way,
\* the status that a reader can see goes through the life cycle and no other way.
THEOREM ServiceImplementsLifecycle == Spec => ImplementsLifecycle
<1>1. Init => LC!Init
  BY QueuedType DEF Init, LC!Init, Status, Exists
<1>2. IndInv /\ Staged /\ [Next]_vars =>
          [LC!Next]_<<Status, {s \in Scans : Exists(rows[s])}>>
  BY LifecycleStep DEF Durable
<1> QED
  BY <1>1, <1>2, InductiveStaged, PTL DEF Spec, ImplementsLifecycle, LC!Spec
-----------------------------------------------------------------------------
(* The page in front of the service.  Whatever the tab does, the service   *)
(* takes a step of its own or none, and meets no outage.                   *)

(* What the service does while a page watches: everything but DbDown.      *)
Serving == \/ \E s \in Scans : StepOf(s)
           \/ DbBack \/ Restart \/ GetLate
           \/ \E s \in Scans, kind \in GetKinds : Get(kind, s)
           \/ UNCHANGED vars

LEMMA ServingIsNext == Serving => [Next]_vars
  BY DEF Serving, Next, StepOf

(* The types of the tab: only a page has loads, and they, like the page,   *)
(* are about a scan that was posted.                                       *)
Answers == {"none", "error", "report", "unknown"} \cup Statuses
Loads   == [waits : {"nothing", "list", "report"}, answer : Answers]
Pages   == [status : {"loading", "unknown"} \cup Statuses, report : BOOLEAN, error : BOOLEAN]

TabType ==
    /\ at \in {"form", "posting", "page"}
    /\ at # "form" => watched \in Scans
    /\ started \in Seq(Scans)
    /\ page \in Pages
    /\ loads \in [Slots -> Loads]
    /\ \A l \in Slots : /\ at # "page" => loads[l] = NoLoad
                        /\ loads[l].waits # "report" => loads[l].answer # "report"

(* The steps of the page itself, in which the service rests.               *)
PageOnly ==
    \/ PostAnswered
    \/ \E l \in Slots : Poll(l) \/ Arrive(l)

LEMMA PageStep ==
    ASSUME TabType, [PageNext]_pageVars
    PROVE  Serving
<1>1. CASE CreateScan
  BY <1>1 DEF CreateScan, Serving, StepOf, Coroutine
<1>2. CASE Serve
  BY <1>2, PageAssumption DEF Serve, Serving, StepOf, Coroutine
<1>3. CASE RestartServer
  BY <1>3 DEF RestartServer, Serving
<1>4. CASE \E s \in Mine : Submit(s)
  BY <1>4, PageAssumption DEF Submit, Serving, StepOf
<1>5. CASE PageOnly
  BY <1>5 DEF PageOnly, PostAnswered, Poll, Arrive, StatusArrives, ReportArrives, LoadFails, Serving
<1>6. ASSUME NEW l \in Slots, Answer(l) PROVE Serving
  <2> DEFINE what == loads[l].waits
  <2>1. what \in {"list", "report"} /\ watched \in Scans
    BY <1>6 DEF Answer, TabType, Loads, NoLoad
  <2>2. Get(what, watched) \/ UNCHANGED vars
    BY <1>6 DEF Answer
  <2> HIDE DEF what
  <2> QED
    BY <2>1, <2>2, PageAssumption DEF Serving
<1>7. CASE UNCHANGED pageVars \/ \E l \in Slots : AnswerLate(l)
  BY <1>7 DEF pageVars, AnswerLate, Serving
<1> QED
  BY <1>1, <1>2, <1>3, <1>4, <1>5, <1>6, <1>7 DEF PageNext, PageOnly

LEMMA PageInitType == PageInit => TabType
  BY DEF PageInit, TabType, Fresh, NoLoad, Answers, Loads, Pages

LEMMA ListedType ==
    ASSUME TypeOK, NEW s \in Scans
    PROVE  Listed(s) \in {"unknown"} \cup Statuses
<1>1. Visible(s) \in Record
  BY DEF Visible, TypeOK
<1> QED
  BY <1>1 DEF Listed, Record

(* A step of the page that replaces one load.                              *)
LEMMA LoadKept ==
    ASSUME TabType, at = "page", UNCHANGED <<started, at, watched>>, page' \in Pages,
           NEW l \in Slots, NEW new \in Loads, loads' = [loads EXCEPT ![l] = new],
           new.waits # "report" => new.answer # "report"
    PROVE  TabType'
  BY DEF TabType

LEMMA TabTypeStep ==
    ASSUME TypeOK, TabType, [PageNext]_pageVars
    PROVE  TabType'
<1>1. CASE CreateScan
  BY <1>1 DEF CreateScan, tab, TabType
<1>2. CASE Serve \/ UNCHANGED pageVars
  BY <1>2 DEF Serve, pageVars, tab, TabType
<1>3. CASE RestartServer
  <2>1. loads' = [l \in Slots |->
                     IF loads[l].waits # "nothing" /\ loads[l].answer = "none"
                     THEN [loads[l] EXCEPT !.answer = "error"] ELSE loads[l]]
    BY <1>3 DEF RestartServer
  <2>2. ASSUME NEW l \in Slots
        PROVE  /\ loads'[l] \in Loads
               /\ at # "page" => loads'[l] = NoLoad
               /\ loads'[l].waits # "report" => loads'[l].answer # "report"
    BY <2>1 DEF TabType, Answers, NoLoad, Loads
  <2>3. loads' \in [Slots -> Loads]
    BY <2>1, <2>2
  <2> QED
    BY <1>3, <2>2, <2>3 DEF RestartServer, TabType
<1>4. CASE \E s \in Mine : Submit(s)
  BY <1>4, PageAssumption DEF Submit, TabType
<1>5. CASE PostAnswered
  <2>1. /\ at = "posting" /\ at' \in {"page", "form"}
        /\ page' \in {page, Fresh} /\ UNCHANGED <<started, loads>>
        /\ at' = "page" => watched' = watched
    BY <1>5 DEF PostAnswered
  <2>2. Fresh \in Pages
    BY DEF Fresh, Pages
  <2> QED
    BY <2>1, <2>2 DEF TabType
<1>6. ASSUME NEW l \in Slots, Poll(l) \/ Answer(l) \/ AnswerLate(l) \/ Arrive(l)
      PROVE  TabType'
  <2>1. at = "page" /\ UNCHANGED <<started, at, watched>>
    BY <1>6 DEF Poll, Answer, AnswerLate, Arrive, StatusArrives, ReportArrives, LoadFails,
       TabType, NoLoad, Loads
  <2>2. page \in Pages /\ loads \in [Slots -> Loads]
    BY DEF TabType
  <2>3. CASE Poll(l)
    <3>1. loads' = [loads EXCEPT ![l] = Asking("list")] /\ page' = page
      BY <2>3 DEF Poll
    <3>2. Asking("list") \in Loads /\ Asking("list").answer # "report"
      BY DEF Asking, Loads, Answers
    <3> QED
      BY <2>1, <2>2, <3>1, <3>2, LoadKept
  <2>4. CASE Answer(l)
    <3> DEFINE what == loads[l].waits
               answer == IF Raises(what) THEN "error"
                         ELSE IF what = "list" THEN Listed(watched) ELSE "report"
               new == [loads[l] EXCEPT !.answer = answer]
    <3>1. loads' = [loads EXCEPT ![l] = new] /\ page' = page
      BY <2>2, <2>4 DEF Answer
    <3>2. what \in {"list", "report"} /\ watched \in Scans
      BY <2>1, <2>2, <2>4 DEF Answer, Loads, TabType
    <3>3. answer \in Answers /\ (what # "report" => answer # "report")
      BY <3>2, ListedType DEF Answers, Statuses
    <3> HIDE DEF answer
    <3>4. new \in Loads /\ (new.waits # "report" => new.answer # "report")
      BY <2>2, <3>3 DEF Loads
    <3> HIDE DEF new
    <3> QED
      BY <2>1, <2>2, <3>1, <3>4, LoadKept
  <2>5. CASE StatusArrives(l)
    <3> DEFINE status == loads[l].answer
               last   == status \notin Done
               error  == page.error /\ ~last
               new    == IF last THEN NoLoad ELSE Asking("report")
    <3>1. /\ status \in Answers \ {"none", "error", "report"}
          /\ loads' = [loads EXCEPT ![l] = new]
          /\ page' = [page EXCEPT !.status = status, !.error = error]
      BY <2>2, <2>5 DEF StatusArrives, TabType, Loads, Pages
    <3>2. new \in Loads /\ (new.waits # "report" => new.answer # "report")
      BY DEF NoLoad, Asking, Loads, Answers
    <3>3. error \in BOOLEAN
      OBVIOUS
    <3> HIDE DEF status, last, error, new
    <3>4. page' \in Pages
      BY <2>2, <3>1, <3>3 DEF Answers, Pages
    <3> QED
      BY <2>1, <3>1, <3>2, <3>4, LoadKept
  <2>6. CASE ReportArrives(l) \/ LoadFails(l)
    <3>1. loads' = [loads EXCEPT ![l] = NoLoad]
      BY <2>6 DEF ReportArrives, LoadFails
    <3>2. page' \in Pages
      BY <2>2, <2>6 DEF ReportArrives, LoadFails, Pages
    <3>3. NoLoad \in Loads /\ NoLoad.answer # "report"
      BY DEF NoLoad, Loads, Answers
    <3> QED
      BY <2>1, <3>1, <3>2, <3>3, LoadKept
  <2>7. CASE AnswerLate(l)
    <3> DEFINE new == [loads[l] EXCEPT !.answer = "error"]
    <3>1. loads' = [loads EXCEPT ![l] = new] /\ page' = page
      BY <2>2, <2>7 DEF AnswerLate
    <3>2. new \in Loads /\ new.answer # "report"
      BY <2>2 DEF Loads, Answers
    <3> HIDE DEF new
    <3> QED
      BY <2>1, <2>2, <3>1, <3>2, LoadKept
  <2> QED
    BY <1>6, <2>3, <2>4, <2>5, <2>6, <2>7 DEF Arrive
<1> QED
  BY <1>1, <1>2, <1>3, <1>4, <1>5, <1>6 DEF PageNext

\* The tab keeps its types, and whatever it asks for is about a scan that it
\* posted: a load is only ever in flight on a page that has one.
THEOREM TabTypeCorrect == PageSpec => [](TypeOK /\ TabType)
<1>1. PageInit => TypeOK /\ TabType
  BY PageInitType, InitType DEF PageInit
<1>2. TypeOK /\ TabType /\ [PageNext]_pageVars => TypeOK' /\ TabType'
  BY PageStep, ServingIsNext, TypeStep, TabTypeStep
<1> QED
  BY <1>1, <1>2, PTL DEF PageSpec

\* A tab and the service behind it behave as the service alone promises: what
\* the page asks is what some client of the service could ask.
THEOREM PageImplementsService == PageSpec => Spec
<1>1. PageInit => Init
  BY DEF PageInit
<1>2. TypeOK /\ TabType /\ [PageNext]_pageVars => [Next]_vars
  BY PageStep, ServingIsNext
<1> QED
  BY <1>1, <1>2, TabTypeCorrect, PTL DEF PageSpec, Spec
-----------------------------------------------------------------------------
(* The flag, without outages: it tells the truth about Postgres, a session *)
(* is opened only on a database that answers and holds a connection once   *)
(* its POST is acknowledged, and what was refused a session finds the flag *)
(* cleared until the process starts again.                                 *)
Flag(s) ==
    /\ InDatabase(s) => dbUp
    /\ reqSession[s] = "free" => pc[s] \in {"entered", "refused"}
    /\ reqSession[s] = "lost" => pc[s] = "refused"
    /\ ~InDatabase(s) /\ pc[s] # "new" /\ restarts = 0 => ~dbAvailable

Flagged == (dbAvailable => dbUp) /\ \A s \in Scans : Flag(s)

(* The refusal of a ref that is too long.                                  *)
RefRefused(s) == s \in LongRefs /\ pc[s] = "entered" /\ pc'[s] = "refused"

(* What a step on behalf of one scan does to flag, sessions and progress.  *)
LEMMA StepEffect ==
    ASSUME TypeOK, NEW s \in Scans, StepOf(s)
    PROVE  /\ dbUp' = dbUp /\ restarts' = restarts /\ (dbAvailable' => dbAvailable)
           /\ \A t \in Scans \ {s} : pc'[t] = pc[t] /\ reqSession'[t] = reqSession[t]
           /\ pc'[s] # "new" /\ (Acked(s) => Acked(s)')
           /\ pc[s] = "new" => reqSession'[s] = OpenSession /\ pc'[s] = "entered"
           /\ pc[s] # "new" => (reqSession'[s] = "none" <=> reqSession[s] = "none")
           /\ pc[s] = "entered" => reqSession'[s] \in {"none", "held"} \/ pc'[s] = "refused"
           /\ pc[s] \notin {"new", "entered"} => reqSession'[s] = reqSession[s]
           /\ pc[s] # "refused"
           /\ dbAvailable /\ ~dbAvailable' =>
                  \/ torn' > torn \/ timeouts' > timeouts \/ RefRefused(s)
                  \/ reqSession[s] = "lost" \/ (reqSession[s] = "free" /\ pc[s] # "entered")
                  \/ InDatabase(s) /\ ~dbUp
<1>1. CASE PostEnter(s)
  <2>1. /\ pc[s] = "new" /\ pc' = [pc EXCEPT ![s] = "entered"]
        /\ reqSession' = [reqSession EXCEPT ![s] = OpenSession]
        /\ UNCHANGED <<dbAvailable, dbUp, restarts>>
    BY <1>1 DEF PostEnter, Goto, faults
  <2> QED
    BY <2>1 DEF TypeOK, Acked
<1>2. CASE CreateRecord(s)
  <2>1. PICK out \in CreateOutcomes(s) :
            /\ Create(s, out)
            /\ Goto(s, IF out = "ok" THEN "acked" ELSE "refused")
            /\ dbAvailable' = (dbAvailable /\ out = "ok")
    BY <1>2 DEF CreateRecord
  <2>2. PICK after \in SessionAfter(reqSession[s], out) :
            reqSession' = [reqSession EXCEPT ![s] = after]
    BY <2>1 DEF Create
  <2>3. after = "none" <=> reqSession[s] = "none"
    BY <2>2, SessionAfterType DEF TypeOK
  <2>4. out = "ok" => after \in {"none", "held"}
    <3>1. out = "ok" => out \in Outcomes(reqSession[s])
      BY <2>1 DEF CreateOutcomes
    <3> QED
      BY <2>2, <3>1, OkHolds DEF TypeOK
  <2>5. pc[s] = "entered" /\ UNCHANGED <<dbUp, restarts>>
    BY <1>2 DEF CreateRecord, faults
  <2>6. out # "ok" => \/ torn' > torn \/ timeouts' > timeouts
                      \/ out = "refused" /\ s \in LongRefs
                      \/ reqSession[s] = "lost" \/ (InDatabase(s) /\ ~dbUp)
    BY <2>1 DEF Create, Count, CreateOutcomes, Outcomes, InDatabase, TypeOK
  <2>7. pc' = [pc EXCEPT ![s] = IF out = "ok" THEN "acked" ELSE "refused"]
    BY <2>1 DEF Goto
  <2>8. (dbAvailable' => dbAvailable) /\ (dbAvailable /\ ~dbAvailable' => out # "ok")
    BY <2>1, Zenon
  <2>9. /\ \A t \in Scans \ {s} : pc'[t] = pc[t] /\ reqSession'[t] = reqSession[t]
        /\ pc'[s] = (IF out = "ok" THEN "acked" ELSE "refused") /\ reqSession'[s] = after
    BY <2>2, <2>7 DEF TypeOK
  <2> QED
    BY <2>3, <2>4, <2>5, <2>6, <2>8, <2>9 DEF Acked, RefRefused
<1>3. CASE \/ OpenTask(s) \/ MarkRunning(s) \/ RunScan(s) \/ SaveProfile(s) \/ Supervise(s)
           \/ SaveOutcome(s) \/ FinishPlain(s) \/ RecordFailure(s)
  <2>1. PICK next \in PCs \ {"new", "entered", "refused"} : Goto(s, next)
    BY <1>3 DEF OpenTask, MarkRunning, RunScan, SaveProfile, Supervise, SaveOutcome, FinishPlain,
       RecordFailure, TaskWrite, PCs
  <2>2. Acked(s) /\ pc[s] # "refused" /\ UNCHANGED <<dbAvailable, dbUp, reqSession, restarts>>
    BY <1>3 DEF OpenTask, MarkRunning, RunScan, SaveProfile, Supervise, SaveOutcome, FinishPlain,
       RecordFailure, TaskWrite, faults, Acked
  <2> QED
    BY <2>1, <2>2 DEF Goto, Acked, TypeOK
<1>4. CASE ExitRequest(s)
  <2>1. /\ pc[s] \in {"closing", "abandoning"}
        /\ pc' = [pc EXCEPT ![s] = IF pc[s] = "closing" THEN "ended" ELSE "abandoned"]
        /\ UNCHANGED <<dbUp, reqSession, restarts>>
    BY <1>4 DEF ExitRequest, Goto, faults
  <2>2. dbAvailable' = (dbAvailable /\ (reqSession[s] = "none"
                                       \/ (reqSession[s] = "held" /\ dbUp)))
    BY <1>4, Zenon DEF ExitRequest
  <2>3. /\ dbAvailable' => dbAvailable
        /\ dbAvailable /\ ~dbAvailable' =>
               reqSession[s] # "none" /\ ~(reqSession[s] = "held" /\ dbUp)
    BY <2>2, Zenon
  <2>4. reqSession[s] # "none" /\ ~(reqSession[s] = "held" /\ dbUp) =>
            reqSession[s] \in {"free", "lost"} \/ (InDatabase(s) /\ ~dbUp)
    BY DEF TypeOK, SessionStates, InDatabase
  <2>5. /\ \A t \in Scans \ {s} : pc'[t] = pc[t] /\ reqSession'[t] = reqSession[t]
        /\ pc'[s] \in {"ended", "abandoned"} /\ reqSession'[s] = reqSession[s]
    BY <2>1 DEF TypeOK
  <2> QED
    BY <2>1, <2>3, <2>4, <2>5 DEF Acked
<1> QED
  BY <1>1, <1>2, <1>3, <1>4 DEF StepOf, Coroutine

(* What lasts while the tab watches: an answered POST, the store of a scan,*)
(* the restarts, and the cleared flag until there is one.                  *)
LEMMA ServingKeeps ==
    ASSUME TypeOK, TypeOK', Flagged, Serving
    PROVE  /\ Flagged'
           /\ \A s \in Scans : /\ Acked(s) => Acked(s)'
                               /\ pc[s] # "new" => (InDatabase(s)' <=> InDatabase(s))
           /\ restarts > 0 => restarts' > 0
           /\ dbAvailable' => dbAvailable \/ restarts' > 0
<1>1. ASSUME NEW s \in Scans, StepOf(s)
      PROVE  /\ Flagged'
             /\ \A t \in Scans : /\ Acked(t) => Acked(t)'
                                 /\ pc[t] # "new" => (InDatabase(t)' <=> InDatabase(t))
             /\ restarts > 0 => restarts' > 0
             /\ dbAvailable' => dbAvailable \/ restarts' > 0
  <2>1. /\ dbUp' = dbUp /\ restarts' = restarts /\ (dbAvailable' => dbAvailable)
        /\ \A t \in Scans \ {s} : pc'[t] = pc[t] /\ reqSession'[t] = reqSession[t]
        /\ pc'[s] # "new" /\ (Acked(s) => Acked(s)')
        /\ pc[s] = "new" => reqSession'[s] = OpenSession /\ pc'[s] = "entered"
        /\ pc[s] # "new" => (reqSession'[s] = "none" <=> reqSession[s] = "none")
        /\ pc[s] = "entered" => reqSession'[s] \in {"none", "held"} \/ pc'[s] = "refused"
        /\ pc[s] \notin {"new", "entered"} => reqSession'[s] = reqSession[s]
        /\ pc[s] # "refused"
    BY <1>1, StepEffect
  <2>2. ASSUME NEW t \in Scans PROVE Flag(t)'
    <3>1. Flag(t)
      BY DEF Flagged
    <3>2. CASE t # s
      <4>1. pc'[t] = pc[t] /\ reqSession'[t] = reqSession[t]
        BY <2>1, <3>2
      <4> QED
        BY <2>1, <3>1, <4>1, Zenon DEF Flag, InDatabase
    <3>3. CASE t = s /\ pc[s] = "new"
      <4>1. /\ dbAvailable => reqSession'[s] = "free"
            /\ ~dbAvailable => reqSession'[s] = "none"
        BY <2>1, <3>3 DEF OpenSession
      <4>2. dbAvailable => dbUp
        BY DEF Flagged
      <4> QED
        BY <2>1, <3>3, <4>1, <4>2 DEF Flag, InDatabase
    <3>4. CASE t = s /\ pc[s] # "new"
      BY <2>1, <3>1, <3>4 DEF Flag, InDatabase
    <3> QED
      BY <3>2, <3>3, <3>4
  <2>3. dbAvailable' => dbUp'
    BY <2>1, Zenon DEF Flagged
  <2>4. \A t \in Scans : /\ Acked(t) => Acked(t)'
                         /\ pc[t] # "new" => (InDatabase(t)' <=> InDatabase(t))
    BY <2>1 DEF Acked, InDatabase
  <2> QED
    BY <2>1, <2>2, <2>3, <2>4 DEF Flagged
<1>2. CASE Restart
  <2>1. /\ dbAvailable' = dbUp /\ dbUp' = dbUp /\ restarts' > 0 /\ reqSession' = reqSession
        /\ \A s \in Scans : pc'[s] = IF pc[s] \in Idle THEN pc[s]
                                     ELSE IF pc[s] = "entered" THEN "refused" ELSE "killed"
    BY <1>2 DEF Restart, TypeOK
  <2>2. \A s \in Scans : Flag(s)'
    BY <2>1 DEF Flagged, Flag, InDatabase, Idle, Over, TypeOK
  <2>3. \A s \in Scans : Acked(s) => Acked(s)'
    BY <2>1 DEF Acked, Idle, Over
  <2>4. dbAvailable' => dbUp'
    BY <2>1, Zenon
  <2> QED
    BY <2>1, <2>2, <2>3, <2>4 DEF Flagged, InDatabase
<1>3. CASE \/ DbBack \/ UNCHANGED vars \/ GetLate
           \/ \E s \in Scans, kind \in GetKinds : Get(kind, s)
  <2>1. /\ UNCHANGED <<pc, reqSession, restarts>> /\ (dbUp => dbUp')
        /\ (dbAvailable' => dbAvailable)
    <3>1. CASE DbBack
      BY <3>1 DEF DbBack, faults
    <3>2. CASE UNCHANGED vars
      BY <3>2 DEF vars
    <3>3. CASE \E s \in Scans, kind \in GetKinds : Get(kind, s)
      BY <3>3 DEF Get, faults
    <3>4. CASE GetLate
      BY <3>4 DEF GetLate, faults
    <3> QED
      BY <1>3, <3>1, <3>2, <3>3, <3>4
  <2>2. \A s \in Scans : Flag(s)'
    BY <2>1 DEF Flagged, Flag, InDatabase
  <2> QED
    BY <2>1, <2>2 DEF Flagged, Acked, InDatabase
<1> QED
  BY <1>1, <1>2, <1>3 DEF Serving

(* Without an outage only these, or a reader's error, clear the flag.      *)
LEMMA OnlyGlitchClears ==
    ASSUME TypeOK, Flagged, dbAvailable, ~dbAvailable',
           (\E s \in Scans : StepOf(s)) \/ DbBack \/ Restart \/ UNCHANGED vars
    PROVE  torn' > torn \/ timeouts' > timeouts \/ \E s \in Scans : RefRefused(s)
<1>1. CASE \E s \in Scans : StepOf(s)
  <2>1. PICK s \in Scans : StepOf(s)
    BY <1>1
  <2>2. \/ torn' > torn \/ timeouts' > timeouts \/ RefRefused(s)
        \/ reqSession[s] = "lost" \/ (reqSession[s] = "free" /\ pc[s] # "entered")
        \/ InDatabase(s) /\ ~dbUp
    BY <2>1, StepEffect
  <2>3. pc[s] # "refused" /\ Flag(s)
    BY <2>1, StepEffect DEF Flagged
  <2> QED
    BY <2>2, <2>3 DEF Flag
<1>2. CASE Restart
  <2>1. dbAvailable' = dbUp
    BY <1>2 DEF Restart
  <2> QED
    BY <2>1, Zenon DEF Flagged
<1>3. CASE DbBack \/ UNCHANGED vars
  <2>1. dbAvailable' = dbAvailable
    BY <1>3 DEF DbBack, vars
  <2> QED
    BY <2>1
<1> QED
  BY <1>1, <1>2, <1>3
-----------------------------------------------------------------------------
(* The order of the list: only newer scans come before one, and there are  *)
(* more and more of them.                                                  *)
LaterIn(q, s) == {t \in Scans : \E i, j \in DOMAIN q : q[i] = s /\ q[j] = t /\ i < j}

LEMMA LaterFinite ==
    ASSUME NEW q \in Seq(Scans), NEW s
    PROVE  IsFiniteSet(LaterIn(q, s)) /\ Cardinality(LaterIn(q, s)) \in Nat
<1> DEFINE range == {q[i] : i \in 1..Len(q)}
<1>1. q \in Surjection(1..Len(q), range)
  BY DEF Surjection
<1>2. IsFiniteSet(1..Len(q))
  BY FS_Interval
<1> HIDE DEF range
<1>3. IsFiniteSet(range)
  BY <1>1, <1>2, FS_Surjection
<1>4. LaterIn(q, s) \in SUBSET range
  BY DEF LaterIn, range
<1>5. IsFiniteSet(LaterIn(q, s))
  BY <1>3, <1>4, FS_Subset
<1> QED
  BY <1>5, FS_CardinalityType

LEMMA LaterGrows ==
    ASSUME NEW q \in Seq(Scans), NEW x \in Scans, NEW s
    PROVE  Cardinality(LaterIn(q, s)) <= Cardinality(LaterIn(Append(q, x), s))
<1>1. Append(q, x) \in Seq(Scans)
  OBVIOUS
<1>2. LaterIn(q, s) \in SUBSET LaterIn(Append(q, x), s)
  BY DEF LaterIn
<1> QED
  BY <1>1, <1>2, LaterFinite, FS_Subset

(* Why a scan that was acknowledged can be missing from the list, and that *)
(* the list does not call a scan of the database settled before it is.     *)
LEMMA ListedUnknown ==
    ASSUME IndInv, Flagged, TabType, NEW s \in Scans, Acked(s), Listed(s) = "unknown"
    PROVE  \/ Cardinality(Later(s)) >= Limit
           \/ InDatabase(s) /\ ~dbAvailable
           \/ restarts > 0
<1> SUFFICES ASSUME ~(InDatabase(s) /\ ~dbAvailable), ~(restarts > 0)
             PROVE  Cardinality(Later(s)) >= Limit
  OBVIOUS
<1>1. Safe(s) /\ Flag(s) /\ TypeOK
  BY DEF IndInv, Flagged
<1>2. restarts = 0
  BY <1>1 DEF TypeOK
<1>3. IF InDatabase(s) THEN Exists(rows[s]) /\ dbAvailable ELSE Exists(memory[s]) /\ ~dbAvailable
  BY <1>1, <1>2 DEF Safe, Kept, Flag, Acked
<1>4. Exists(Visible(s)) /\ Visible(s).status # "unknown"
  <2>1. Exists(Visible(s))
    BY <1>3 DEF Visible
  <2>2. Visible(s) \in Record
    BY <1>1 DEF Visible, TypeOK
  <2> QED
    BY <2>1, <2>2 DEF Record, Statuses
<1>5. ~(Cardinality(Newer(s)) < Limit)
  BY <1>4 DEF Listed
<1>6. Later(s) = LaterIn(started, s)
  BY DEF Later, LaterIn
<1>7. IsFiniteSet(Later(s)) /\ Cardinality(Later(s)) \in Nat
  BY <1>6, LaterFinite DEF TabType
<1>8. Newer(s) \in SUBSET Later(s)
  BY DEF Newer
<1>9. Cardinality(Newer(s)) <= Cardinality(Later(s)) /\ Cardinality(Newer(s)) \in Nat
  BY <1>7, <1>8, FS_Subset, FS_CardinalityType
<1> QED
  BY <1>5, <1>7, <1>9, PageAssumption

LEMMA ListedDone ==
    ASSUME IndInv, NEW s \in Scans, InDatabase(s), Listed(s) \in Done
    PROVE  Settled(rows[s])
<1>1. Exists(Visible(s)) /\ Visible(s).status \in Done
  BY DEF Listed, Done
<1>2. ~Exists(memory[s])
  BY DEF IndInv, Safe, Home, InDatabase
<1>3. Visible(s) = rows[s]
  BY <1>1, <1>2 DEF Visible
<1> QED
  BY <1>1, <1>3 DEF Settled, Done
-----------------------------------------------------------------------------
(* What the page has been told, and what is still on its way to it.        *)
Excused == \/ Cardinality(Later(watched)) >= Limit
           \/ InDatabase(watched) /\ ~dbAvailable
           \/ restarts > 0

(* A load that waits for the report, or is about to, was told of a scan    *)
(* that had settled.                                                       *)
Told(load) ==
    /\ load.answer = "unknown" => Excused
    /\ InDatabase(watched) /\ (load.waits = "report" \/ load.answer \in Done)
          => Settled(rows[watched])

Informed ==
    at = "page" => /\ Acked(watched)
                   /\ page.status = "unknown" => Excused
                   /\ \A l \in Slots : Told(loads[l])

PageInv == IndInv /\ Staged /\ TabType /\ Flagged /\ Informed

(* What excused a gap in the list excuses it from then on, and what was    *)
(* true of the watched scan stays true.                                    *)
LEMMA ToldLasts ==
    ASSUME PageInv, IndInv', [PageNext]_pageVars, at = "page"
    PROVE  /\ at' = "page" /\ watched' = watched /\ Acked(watched)'
           /\ Excused => Excused'
           /\ \A load : Told(load) => Told(load)'
<1>1. TypeOK /\ TypeOK' /\ Serving /\ Flagged /\ watched \in Scans
  BY PageStep DEF PageInv, IndInv, TabType
<1>2. at' = "page" /\ watched' = watched
  BY DEF PageNext, CreateScan, Serve, RestartServer, Submit, PostAnswered, Poll, Answer, AnswerLate, Arrive,
     StatusArrives, ReportArrives, LoadFails, tab, pageVars
<1>3. started' = started \/ \E s \in Scans : started' = Append(started, s)
  BY DEF PageNext, CreateScan, Serve, RestartServer, Submit, PostAnswered, Poll, Answer, AnswerLate, Arrive,
     StatusArrives, ReportArrives, LoadFails, tab, pageVars
<1>4. Acked(watched) /\ pc[watched] # "new"
  BY DEF PageInv, Informed, Acked
<1>5. Flagged' /\ Acked(watched)' /\ (InDatabase(watched)' <=> InDatabase(watched))
  BY <1>1, <1>2, <1>4, ServingKeeps DEF Acked, InDatabase
<1>6. (restarts > 0 => restarts' > 0) /\ (dbAvailable' => dbAvailable \/ restarts' > 0)
  BY <1>1, ServingKeeps
<1>7. Cardinality(Later(watched)) >= Limit => Cardinality(Later(watched))' >= Limit
  <2>1. Later(watched) = LaterIn(started, watched) /\ Later(watched)' = LaterIn(started', watched)
    BY <1>2 DEF Later, LaterIn
  <2>2. started \in Seq(Scans)
    BY DEF PageInv, TabType
  <2>3. CASE started' = started
    BY <2>1, <2>3
  <2>4. CASE \E s \in Scans : started' = Append(started, s)
    <3>1. PICK s \in Scans : started' = Append(started, s)
      BY <2>4
    <3>2. Append(started, s) \in Seq(Scans)
      BY <2>2
    <3>3. Cardinality(LaterIn(started, watched)) <= Cardinality(LaterIn(started', watched))
      BY <2>2, <3>1, LaterGrows
    <3>4. /\ Cardinality(LaterIn(started, watched)) \in Nat
          /\ Cardinality(LaterIn(started', watched)) \in Nat
      BY <2>2, <3>1, <3>2, LaterFinite
    <3> QED
      BY <2>1, <3>3, <3>4, PageAssumption
  <2> QED
    BY <1>3, <2>3, <2>4
<1>8. Excused => Excused'
  BY <1>5, <1>6, <1>7 DEF Excused
<1>9. Settled(rows[watched]) => Settled(rows[watched])'
  <2>1. [Next]_vars
    BY <1>1, ServingIsNext
  <2>2. rows[watched] \in Record
    BY <1>1 DEF TypeOK
  <2>3. Settled(rows[watched]) => \/ rows'[watched] = rows[watched]
                                  \/ rows'[watched] = [rows[watched] EXCEPT !.status = "failed",
                                                                          !.errors = TRUE]
    BY <1>1, <2>1, SettledStep DEF PageInv
  <2> QED
    BY <1>2, <2>2, <2>3 DEF Settled, Record
<1>10. ASSUME NEW load, Told(load) PROVE Told(load)'
  BY <1>5, <1>8, <1>9, <1>10 DEF Told
<1> QED
  BY <1>2, <1>5, <1>8, <1>10

(* The loads a step leaves behind were told the truth as it was before it. *)
LEMMA ToldNow ==
    ASSUME PageInv, [PageNext]_pageVars, at = "page",
           NEW l \in Slots, NEW new, new = loads'[l]
    PROVE  Told(new)
<1>1. Told(loads[l]) /\ watched \in Scans /\ IndInv /\ Flagged /\ TabType /\ Acked(watched)
  BY DEF PageInv, Informed, TabType
<1>2. Told(NoLoad) /\ Told(Asking("list"))
  BY DEF Told, NoLoad, Asking, Done
<1>3. CASE loads' = loads
  BY <1>1, <1>3
<1>4. CASE RestartServer
  <2>1. new = loads[l] \/ new = [loads[l] EXCEPT !.answer = "error"]
    BY <1>4 DEF RestartServer
  <2>2. loads[l] \in Loads
    BY <1>1 DEF TabType
  <2>3. Told([loads[l] EXCEPT !.answer = "error"])
    BY <1>1, <2>2 DEF Told, Loads, Done
  <2> QED
    BY <1>1, <2>1, <2>3
<1>5. ASSUME NEW k \in Slots, Poll(k) \/ Answer(k) \/ AnswerLate(k) \/ Arrive(k)
      PROVE  Told(new)
  <2>1. loads \in [Slots -> Loads] /\ Told(loads[k])
    BY <1>1 DEF TabType, PageInv, Informed
  <2>2. CASE Poll(k) \/ ReportArrives(k) \/ LoadFails(k)
    BY <1>1, <1>2, <2>1, <2>2 DEF Poll, ReportArrives, LoadFails
  <2>3. CASE Answer(k)
    <3> DEFINE what == loads[k].waits
               answer == IF Raises(what) THEN "error"
                         ELSE IF what = "list" THEN Listed(watched) ELSE "report"
    <3>1. loads' = [loads EXCEPT ![k].answer = answer] /\ what \in {"list", "report"}
      BY <2>1, <2>3 DEF Answer, Loads
    <3>2. answer = "unknown" => Excused
      BY <1>1, <3>1, ListedUnknown DEF Excused
    <3>3. InDatabase(watched) /\ (what = "report" \/ answer \in Done) => Settled(rows[watched])
      BY <1>1, <2>1, ListedDone DEF Told, Done
    <3> HIDE DEF answer
    <3>4. Told([loads[k] EXCEPT !.answer = answer])
      BY <2>1, <3>2, <3>3 DEF Told, Loads
    <3> QED
      BY <1>1, <2>1, <3>1, <3>4
  <2>4. CASE StatusArrives(k)
    <3>1. /\ loads' = [loads EXCEPT ![k] = IF loads[k].answer \notin Done THEN NoLoad
                                           ELSE Asking("report")]
      BY <2>4 DEF StatusArrives
    <3>2. loads[k].answer \in Done => Told(Asking("report"))
      BY <2>1 DEF Told, Asking
    <3> QED
      BY <1>1, <1>2, <2>1, <3>1, <3>2
  <2>5. CASE AnswerLate(k)
    <3>1. Told([loads[k] EXCEPT !.answer = "error"])
      BY <1>1, <2>1 DEF Told, Loads, Done
    <3> QED
      BY <1>1, <2>1, <2>5, <3>1 DEF AnswerLate
  <2> QED
    BY <1>5, <2>2, <2>3, <2>4, <2>5 DEF Arrive
<1>6. CASE CreateScan \/ Serve \/ (\E s \in Mine : Submit(s)) \/ PostAnswered \/ UNCHANGED pageVars
  BY <1>3, <1>6 DEF CreateScan, Serve, Submit, PostAnswered, pageVars, tab
<1> QED
  BY <1>4, <1>5, <1>6 DEF PageNext

LEMMA InformedStep ==
    ASSUME PageInv, IndInv', TabType', [PageNext]_pageVars
    PROVE  Informed'
<1>1. CASE at = "page"
  <2>1. /\ at' = "page" /\ watched' = watched /\ Acked(watched)'
        /\ Excused => Excused'
        /\ \A load : Told(load) => Told(load)'
    BY <1>1, ToldLasts
  <2>2. ASSUME NEW l \in Slots PROVE Told(loads[l])'
    <3>1. PICK new : new = loads'[l]
      OBVIOUS
    <3>2. Told(new)'
      BY <1>1, <2>1, <3>1, ToldNow
    <3> QED
      BY <3>1, <3>2 DEF Told
  <2>3. page'.status = "unknown" => Excused
    <3>1. page.status = "unknown" => Excused
      BY <1>1 DEF PageInv, Informed
    <3>2. page \in Pages
      BY DEF PageInv, TabType
    <3>3. CASE \E l \in Slots : StatusArrives(l)
      <4>1. PICK l \in Slots : StatusArrives(l)
        BY <3>3
      <4>2. page'.status = loads[l].answer
        BY <3>2, <4>1 DEF StatusArrives, Pages
      <4> QED
        BY <1>1, <4>2 DEF PageInv, Informed, Told
    <3>4. CASE \E l \in Slots : ReportArrives(l) \/ LoadFails(l)
      BY <3>1, <3>2, <3>4 DEF ReportArrives, LoadFails, Pages
    <3>5. CASE page' = page
      BY <3>1, <3>5
    <3> QED
      BY <1>1, <3>3, <3>4, <3>5 DEF PageNext, CreateScan, Serve, RestartServer, Submit,
         PostAnswered, Poll, Answer, AnswerLate, Arrive, tab, pageVars
  <2> QED
    BY <2>1, <2>2, <2>3 DEF Informed
<1>2. CASE at # "page" /\ at' = "page"
  <2>1. PostAnswered
    BY <1>2 DEF PageNext, CreateScan, Serve, RestartServer, Submit, Poll, Answer, AnswerLate, Arrive,
       StatusArrives, ReportArrives, LoadFails, tab, pageVars
  <2>2. /\ Acked(watched) /\ page' = Fresh
        /\ UNCHANGED <<vars, watched, loads>>
    BY <1>2, <2>1 DEF PostAnswered
  <2>3. \A l \in Slots : loads'[l] = NoLoad
    BY <1>2, <2>2 DEF PageInv, TabType
  <2>4. Acked(watched)' /\ page'.status = "loading"
    BY <2>2 DEF Acked, Fresh, vars
  <2> QED
    BY <2>3, <2>4 DEF Informed, Told, NoLoad, Done
<1>3. CASE at' # "page"
  BY <1>3 DEF Informed
<1> QED
  BY <1>1, <1>2, <1>3

LEMMA PageInductive == PageSpec => []PageInv
<1>1. PageInit => Flagged /\ Informed
  <2> SUFFICES ASSUME PageInit PROVE Flagged /\ Informed
    OBVIOUS
  <2>1. dbAvailable => dbUp
    BY Zenon DEF PageInit, Init
  <2>2. \A s \in Scans : Flag(s)
    BY DEF PageInit, Init, Flag, InDatabase
  <2> QED
    BY <2>1, <2>2 DEF PageInit, Flagged, Informed
<1>2. PageInv /\ IndInv' /\ Staged' /\ TabType' /\ [PageNext]_pageVars => PageInv'
  <2> SUFFICES ASSUME PageInv, IndInv', TabType', [PageNext]_pageVars
               PROVE  Flagged' /\ Informed'
    BY DEF PageInv
  <2>1. TypeOK /\ TypeOK' /\ TabType /\ Flagged
    BY DEF PageInv, IndInv
  <2>2. Flagged'
    BY <2>1, PageStep, ServingKeeps
  <2>3. Informed'
    BY InformedStep
  <2> QED
    BY <2>2, <2>3
<1>3. PageSpec => [](IndInv /\ Staged) /\ []TabType
  BY PageImplementsService, InductiveStaged, TabTypeCorrect, PTL
<1>4. IndInv /\ Staged /\ TabType /\ Flagged /\ Informed <=> PageInv
  BY DEF PageInv
<1> QED
  BY <1>1, <1>2, <1>3, <1>4, PTL DEF PageSpec

\* A page whose scan reads unknown has a reason: enough newer scans to fill the
\* list, a service that left the database for its memory store, or a restart.
THEOREM UnknownAlwaysHasCause == PageSpec => []UnknownHasCause
<1>1. PageInv => UnknownHasCause
  BY DEF PageInv, Informed, Excused, UnknownHasCause
<1> QED
  BY <1>1, PageInductive, PTL

LEMMA SwitchStep ==
    ASSUME PageInv, [PageNext]_pageVars, dbAvailable, ~dbAvailable'
    PROVE  \/ torn' > torn \/ timeouts' > timeouts
           \/ \E s \in Scans : RefRefused(s)
           \/ /\ at = "page"
              /\ \/ rows[watched].status = "failed"
                 \/ watched \notin Enriched \/ ~InDatabase(watched)
<1>1. TypeOK /\ Flagged /\ TabType
  BY DEF PageInv, IndInv
<1>2. CASE \E l \in Slots : Answer(l)
  <2>1. PICK l \in Slots : Answer(l)
    BY <1>2
  <2> DEFINE what == loads[l].waits
  <2>2. what \in {"list", "report"} /\ watched \in Scans /\ at = "page"
    BY <1>1, <2>1 DEF Answer, TabType, Loads, NoLoad
  <2>3. Get(what, watched)
    BY <2>1 DEF Answer, vars
  <2>4. NotFound(what, watched)
    BY <1>1, <2>3 DEF Get, Flagged
  <2>5. what = "report" /\ ~rows[watched].report
    BY <2>2, <2>4 DEF NotFound, Visible
  <2>6. InDatabase(watched) => Settled(rows[watched])
    BY <2>2, <2>5 DEF PageInv, Informed, Told
  <2>7. rows[watched].status = "completed" /\ watched \in Enriched => rows[watched].report
    BY <2>2 DEF PageInv, IndInv, Safe, Complete, CompleteRecord
  <2> QED
    BY <2>2, <2>5, <2>6, <2>7 DEF Settled
<1>3. CASE \E l \in Slots : AnswerLate(l)
  BY <1>1, <1>3 DEF AnswerLate, GetLate, TypeOK
<1>4. CASE ~\E l \in Slots : Answer(l) \/ AnswerLate(l)
  <2>1. (\E s \in Scans : StepOf(s)) \/ DbBack \/ Restart \/ UNCHANGED vars
    BY <1>4, PageAssumption DEF PageNext, CreateScan, Serve, RestartServer, Submit, PostAnswered,
       Poll, Arrive, StatusArrives, ReportArrives, LoadFails, pageVars, StepOf, Coroutine
  <2> QED
    BY <1>1, <2>1, OnlyGlitchClears
<1> QED
  BY <1>2, <1>3, <1>4

\* The service is switched to its memory store, while a tab polls it, only over a
\* torn commit, a request that waited too long for a connection, a ref Postgres
\* refused, or a report that the page had reason to ask for and the scan does not
\* have: the list is never ahead of the row.
THEOREM SwitchAlwaysHasCause == PageSpec => SwitchHasCause
<1>1. PageInv /\ [PageNext]_pageVars =>
          [dbAvailable /\ ~dbAvailable' =>
               \/ torn' > torn \/ timeouts' > timeouts
               \/ \E s \in LongRefs : pc[s] = "entered" /\ pc'[s] = "refused"
               \/ /\ at = "page"
                  /\ \/ rows[watched].status = "failed"
                     \/ watched \notin Enriched \/ ~InDatabase(watched)]_pageVars
  BY SwitchStep DEF RefRefused
<1> QED
  BY <1>1, PageInductive, PTL DEF PageSpec, SwitchHasCause
=============================================================================
