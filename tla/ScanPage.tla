------------------------------ MODULE ScanPage ------------------------------
(***************************************************************************)
(* A browser tab on the web frontend, in front of the scan service: the    *)
(* form that submits a repository (app/page.tsx) and the page that polls   *)
(* the scan it was given (app/scans/[id]/page.tsx).                        *)
(*                                                                         *)
(* The page knows a scan's status only from the list, which ends after     *)
(* `limit' scans, and asks for the report once the list says completed or  *)
(* failed.  Every tick of its timer, and every change of status, starts    *)
(* another load; loads are never cancelled, overlap, and are answered in   *)
(* any order.  The service is ScanService, extended here: what the page    *)
(* asks is one of its requests, and can switch its store.  The page is the *)
(* only reader, Postgres may be away from the beginning, and the pool can  *)
(* be busy: a request of the page, too, may wait too long for a connection.*)
(***************************************************************************)
EXTENDS ScanService, Sequences, FiniteSets

CONSTANTS
    Mine,               \* the ids of the tab's own POSTs; other clients have the rest
    Limit,              \* list_scans: how many scans one list holds
    Slots               \* bound: loads in flight

ASSUME PageAssumption ==
    /\ Mine \subseteq Scans /\ Limit \in Nat \ {0}
    /\ {"list", "report"} \subseteq GetKinds    \* what the page asks for

VARIABLES
    started,    \* the scans in the order of their started_at
    at,         \* where the tab is: "form", "posting", "page"
    watched,    \* the scan its POST or its page is about
    page,       \* state of the page: status, whether it holds a report, whether it shows an error
    loads       \* the calls of load in flight, by slot

tab == <<at, watched, page, loads>>
pageVars == <<vars, started, tab>>

Nobody == "nobody"
-----------------------------------------------------------------------------
Done == {"completed", "failed"}

Fresh == [status |-> "loading", report |-> FALSE, error |-> FALSE]

\* A load waits for the list, then for the report; `answer' is on its way to it.
NoLoad == [waits |-> "nothing", answer |-> "none"]
Asking(what) == [waits |-> what, answer |-> "none"]

PageInit ==
    /\ Init
    /\ started = << >>
    /\ at = "form" /\ watched = Nobody
    /\ page = Fresh /\ loads = [l \in Slots |-> NoLoad]
-----------------------------------------------------------------------------
(* The server                                                              *)

Later(s) == {t \in Scans : \E i, j \in DOMAIN started : started[i] = s /\ started[j] = t /\ i < j}

\* Variant: the list is not sorted, the oldest scan comes first.
NewerUnsorted(s) ==
    {t \in Scans : Exists(Visible(t)) /\ \E i, j \in DOMAIN started :
                      started[i] = t /\ started[j] = s /\ i < j}

\* The scans a list goes through before s: newest first, in one store.
Newer(s) == {t \in Later(s) : Exists(Visible(t))}

\* What the list says of s; the page reads a scan that is missing as unknown.
Listed(s) ==
    IF Exists(Visible(s)) /\ Cardinality(Newer(s)) < Limit THEN Visible(s).status ELSE "unknown"

Raises(what) == (dbAvailable /\ ~dbUp) \/ NotFound(what, watched)

\* The service's handler of one request of the page: an exception in it, a 404
\* included, is the service's Get; off the database a 404 changes nothing.
Answer(l) ==
    LET what == loads[l].waits
    IN  /\ what # "nothing" /\ loads[l].answer = "none"
        /\ loads' = [loads EXCEPT ![l].answer = IF Raises(what) THEN "error"
                                               ELSE IF what = "list" THEN Listed(watched) ELSE "report"]
        /\ IF Raises(what) /\ dbAvailable THEN Get(what, watched) ELSE UNCHANGED vars
        /\ UNCHANGED <<started, at, watched, page>>

\* A request of the page for which the pool has no connection in time.
AnswerLate(l) ==
    /\ loads[l].waits # "nothing" /\ loads[l].answer = "none"
    /\ GetLate
    /\ loads' = [loads EXCEPT ![l].answer = "error"]
    /\ UNCHANGED <<started, at, watched, page>>

\* started_at is taken when create_scan begins.
CreateScan ==
    /\ \E s \in Scans : CreateRecord(s) /\ started' = Append(started, s)
    /\ UNCHANGED tab

\* Everything else the service does: other clients' requests, its tasks.
Serve ==
    /\ \/ \E s \in Scans \ Mine : PostEnter(s)
       \/ \E s \in Scans :
              \/ OpenTask(s) \/ MarkRunning(s) \/ RunScan(s) \/ SaveProfile(s)
              \/ Supervise(s) \/ SaveOutcome(s) \/ FinishPlain(s)
              \/ RecordFailure(s) \/ ExitRequest(s)
       \/ DbBack
    /\ UNCHANGED <<started, tab>>

\* The process restarts: a request it had not answered fails in the browser.
RestartServer ==
    /\ Restart
    /\ loads' = [l \in Slots |->
                    IF loads[l].waits # "nothing" /\ loads[l].answer = "none"
                    THEN [loads[l] EXCEPT !.answer = "error"] ELSE loads[l]]
    /\ UNCHANGED <<started, at, watched, page>>
-----------------------------------------------------------------------------
(* The form                                                                *)

Submit(s) ==
    /\ at = "form"
    /\ PostEnter(s)
    /\ at' = "posting" /\ watched' = s
    /\ UNCHANGED <<started, page, loads>>

\* The answer of the POST: the tab goes to the page of the new scan, or back to
\* the form with an error, also when the scan was created and the answer lost.
PostAnswered ==
    /\ at = "posting" /\ pc[watched] # "entered"
    /\ \/ /\ Acked(watched)
          /\ at' = "page" /\ page' = Fresh
          /\ UNCHANGED watched
       \/ /\ pc[watched] \in {"refused", "killed"}
          /\ at' = "form" /\ watched' = Nobody
          /\ UNCHANGED page
    /\ UNCHANGED <<vars, started, loads>>
-----------------------------------------------------------------------------
(* The page                                                                *)

\* Variant: the timer stops once the status is a final one.
PollUntilDone(l) ==
    /\ at = "page" /\ loads[l] = NoLoad
    /\ page.status \notin Done
    /\ loads' = [loads EXCEPT ![l] = Asking("list")]
    /\ UNCHANGED <<vars, started, at, watched, page>>

\* The effect loads on mount and on a change of status, its timer every 3 or 30
\* seconds: a load may start at any time, and there is always another one.
Poll(l) ==
    /\ at = "page" /\ loads[l] = NoLoad
    /\ loads' = [loads EXCEPT ![l] = Asking("list")]
    /\ UNCHANGED <<vars, started, at, watched, page>>

\* Variant: the report is asked for whatever the list says.
StatusArrivesEager(l) ==
    LET status == loads[l].answer
    IN  /\ loads[l].waits = "list" /\ status \notin {"none", "error"}
        /\ loads' = [loads EXCEPT ![l] = Asking("report")]
        /\ page' = [page EXCEPT !.status = status]
        /\ UNCHANGED <<vars, started, at, watched>>

\* load after the list: the status is set whatever was known before it, the
\* report asked for if it is a final one.
StatusArrives(l) ==
    LET status == loads[l].answer
        last   == status \notin Done
    IN  /\ loads[l].waits = "list" /\ status \notin {"none", "error"}
        /\ loads' = [loads EXCEPT ![l] = IF last THEN NoLoad ELSE Asking("report")]
        /\ page' = [page EXCEPT !.status = status, !.error = @ /\ ~last]
        /\ UNCHANGED <<vars, started, at, watched>>

ReportArrives(l) ==
    /\ loads[l].waits = "report" /\ loads[l].answer = "report"
    /\ loads' = [loads EXCEPT ![l] = NoLoad]
    /\ page' = [page EXCEPT !.report = TRUE, !.error = FALSE]
    /\ UNCHANGED <<vars, started, at, watched>>

\* load's catch: the report and the status that were there stay.
LoadFails(l) ==
    /\ loads[l].answer = "error"
    /\ loads' = [loads EXCEPT ![l] = NoLoad]
    /\ page' = [page EXCEPT !.error = TRUE]
    /\ UNCHANGED <<vars, started, at, watched>>

Arrive(l) == StatusArrives(l) \/ ReportArrives(l) \/ LoadFails(l)

\* What the reader of the page is told of a scan.
Message ==
    IF page.error THEN "unreachable"
    ELSE IF page.report THEN "report"
    ELSE IF page.status \in {"queued", "running"} THEN "scanning" ELSE "loading"
-----------------------------------------------------------------------------
PageNext ==
    \/ CreateScan \/ Serve \/ RestartServer
    \/ \E s \in Mine : Submit(s)
    \/ PostAnswered
    \/ \E l \in Slots : Poll(l) \/ Answer(l) \/ AnswerLate(l) \/ Arrive(l)

PageSpec == PageInit /\ [][PageNext]_pageVars

\* The timer goes on, the server answers and answers arrive.
PageFairSpec ==
    /\ PageSpec
    /\ \A l \in Slots : WF_pageVars(Poll(l)) /\ WF_pageVars(Answer(l)) /\ WF_pageVars(Arrive(l))
-----------------------------------------------------------------------------
(* Properties                                                              *)

\* The service leaves the database only for a reason that can be named: a commit
\* was torn; a request, the page's own polls included, waited too long for a
\* connection; Postgres refused the insert of a long ref; or the page asked for
\* the report of a scan that failed, that was posted without enrichment, or that
\* is not in the database.  So polling a scan until its report is there does not
\* by itself switch the service, however its loads overlap: what the page takes
\* from the list is still so when it asks for the report.
SwitchHasCause ==
    [][dbAvailable /\ ~dbAvailable' =>
           \/ torn' > torn \/ timeouts' > timeouts
           \/ \E s \in LongRefs : pc[s] = "entered" /\ pc'[s] = "refused"
           \/ /\ at = "page"
              /\ \/ rows[watched].status = "failed"
                 \/ watched \notin Enriched \/ ~InDatabase(watched)]_pageVars

\* A scan the page has been given is "unknown" to it only if newer scans fill
\* the list, the service has left the store that holds it, or was restarted.
UnknownHasCause ==
    at = "page" /\ page.status = "unknown" =>
        \/ Cardinality(Later(watched)) >= Limit
        \/ InDatabase(watched) /\ ~dbAvailable
        \/ restarts > 0

\* The list names the scan and the report can be had.
Reachable ==
    /\ at = "page"
    /\ dbAvailable => dbUp
    /\ Listed(watched) \in Done /\ Visible(watched).report

\* Once a scan's report can be had, the page comes to show it, with its status
\* and without an error, and goes on showing it, whatever overlapping loads
\* still bring and however many answers were lost before.
PageSettles ==
    <>[]Reachable => <>[](Message = "report" /\ page.status = Listed(watched))
=============================================================================
