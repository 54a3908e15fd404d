--------------------------- MODULE ScanLifecycle ---------------------------
(***************************************************************************)
(* What the orchestrator promises about a scan, independently of where it  *)
(* is stored and of how the background task is written: the life cycle of  *)
(* the one status a reader of the record can see.                          *)
(*                                                                         *)
(*   absent --> queued --> running --> completed | failed                  *)
(*                  \----------------------------^                         *)
(*                                                                         *)
(* A scan may fail before it ran, its status may be withdrawn (completed   *)
(* --> failed) when the commit that published it reported an error, and    *)
(* scans that were not accepted durably may be forgotten, several at once. *)
(***************************************************************************)
CONSTANT Scans
VARIABLES status, durable

Init ==
    /\ status = [s \in Scans |-> "absent"]
    /\ durable = {}

Move(s, from, to) ==
    /\ status[s] \in from
    /\ status' = [status EXCEPT ![s] = to]

Accept(s)   == Move(s, {"absent"}, "queued") /\ durable' \in {durable, durable \cup {s}}
Start(s)    == Move(s, {"queued"}, "running") /\ UNCHANGED durable
Complete(s) == Move(s, {"running"}, "completed") /\ UNCHANGED durable
Fail(s)     == Move(s, {"queued", "running"}, "failed") /\ UNCHANGED durable
Withdraw(s) == Move(s, {"completed"}, "failed") /\ UNCHANGED durable

Forget ==
    /\ status' = [s \in Scans |-> IF s \in durable THEN status[s] ELSE "absent"]
    /\ UNCHANGED durable

Next ==
    \/ \E s \in Scans : Accept(s) \/ Start(s) \/ Complete(s) \/ Fail(s) \/ Withdraw(s)
    \/ Forget

Spec == Init /\ [][Next]_<<status, durable>>
=============================================================================
