----------------------------- MODULE Governance -----------------------------
(***************************************************************************)
(* The control plane (control_plane/governance.py) and the limits of the   *)
(* cost tracker it asks (utils/cost_tracker.py).                           *)
(*                                                                         *)
(* authorize_action is a coroutine without an await, so each call of it is *)
(* one step; the clock may move between its check and its increment, which *)
(* read it separately.  Amounts are cents, shares percent, time ticks.     *)
(***************************************************************************)
EXTENDS Integers, FiniteSets

CONSTANTS
    Agents,
    Policies,    \* of each agent: [calls per hour, cents per action, approval conditions]
    Actions,     \* what an agent may ask to do: the attributes it states, a class by its rank
    Estimates,   \* cost estimates
    Charges,     \* costs recorded by the agents' LLM calls
    Sessions,
    MaxDaily, MaxSession,   \* limits of the cost tracker
    Hour,        \* ticks in the limiter's window
    MaxTime, MaxCalls, MaxSpend    \* bounds of the instance

ASSUME PolicyAssumption ==
    /\ Policies \in [Agents -> [calls : Nat, spend : Nat,
                                conditions : SUBSET [op : {"always", "is", "above", "below"},
                                                     key : STRING, value : Nat]]]
    /\ Hour \in Nat \ {0} /\ MaxTime \in Nat /\ Estimates \subseteq Nat /\ Charges \subseteq Nat

NoSession == "none"

VARIABLES
    clock,
    kept,       \* RateLimiter._call_counts: the calls each agent's list holds
    daily,      \* spend recorded today
    session,    \* spend recorded for each session
    verdict,    \* the last decision: "none", "rate", "spend", "daily", "session", "approval", "ok"
    history     \* every call ever let through; the code keeps no such list

vars == <<clock, kept, daily, session, verdict, history>>

Call(a, t, n) == [agent |-> a, time |-> t, number |-> n]

\* The next call of an agent, let through at time t.
NextCall(a, t) == Call(a, t, Cardinality({c \in history : c.agent = a}))

\* The calls of the last hour.
Recent(a) == {c \in kept[a] : c.time > clock - Hour}

\* Variant: the call that fills the hour is let through too.
CheckInclusive(a) == Cardinality(Recent(a)) <= Policies[a].calls

Check(a) == Cardinality(Recent(a)) < Policies[a].calls

Remaining(a) ==
    LET left == Policies[a].calls - Cardinality(Recent(a)) IN IF left > 0 THEN left ELSE 0

\* An attribute the action does not state has the default that passes.
Attribute(action, key, default) == IF key \in DOMAIN action THEN action[key] ELSE default

Evaluate(c, action) ==
    CASE c.op = "always" -> TRUE
      [] c.op = "is"     -> c.key \in DOMAIN action /\ action[c.key] = c.value
      [] c.op = "above"  -> Attribute(action, c.key, 0) > c.value
      [] c.op = "below"  -> Attribute(action, c.key, 100) < c.value

\* can_proceed: the limit that stops it, or none.
Stopped(estimate, s) ==
    IF daily + estimate > MaxDaily THEN "daily"
    ELSE IF s # NoSession /\ session[s] + estimate > MaxSession THEN "session" ELSE "none"

Init ==
    /\ clock = 0 /\ daily = 0 /\ session = [s \in Sessions |-> 0]
    /\ kept = [a \in Agents |-> {}]
    /\ verdict = "none" /\ history = {}

\* The checks in their order; the first that fails decides.
Decision(a, action, estimate, s) ==
    IF ~Check(a) THEN "rate"
    ELSE IF estimate > Policies[a].spend THEN "spend"
    ELSE IF Stopped(estimate, s) # "none" THEN Stopped(estimate, s)
    ELSE IF \E c \in Policies[a].conditions : Evaluate(c, action) THEN "approval"
    ELSE "ok"

\* Variant: the call is counted before the checks, whatever they say.
AuthorizeCounting(a, action, estimate, s) ==
    LET call == NextCall(a, clock)
    IN  /\ Cardinality(history) < MaxCalls
        /\ verdict' = Decision(a, action, estimate, s)
        /\ history' = history \cup {call}
        /\ kept' = [kept EXCEPT ![a] = Recent(a) \cup {call}]
        /\ UNCHANGED <<clock, daily, session>>

\* check drops what is older than an hour, whatever is decided then; increment
\* records the time it reads itself.
Authorize(a, action, estimate, s) ==
    /\ verdict' = Decision(a, action, estimate, s)
    /\ IF verdict' = "ok"
       THEN /\ Cardinality(history) < MaxCalls
            /\ clock' \in {clock, clock + 1} /\ clock' <= MaxTime
            /\ LET call == NextCall(a, clock')
               IN  /\ history' = history \cup {call}
                   /\ kept' = [kept EXCEPT ![a] = Recent(a) \cup {call}]
       ELSE /\ kept' = [kept EXCEPT ![a] = Recent(a)]
            /\ UNCHANGED <<clock, history>>
    /\ UNCHANGED <<daily, session>>

\* add_cost, by BaseAgent.invoke_llm.
AddCost(cost, s) ==
    /\ daily + cost <= MaxSpend /\ (s # NoSession => session[s] + cost <= MaxSpend)
    /\ daily' = daily + cost
    /\ session' = IF s = NoSession THEN session ELSE [session EXCEPT ![s] = @ + cost]
    /\ UNCHANGED <<clock, kept, verdict, history>>

Tick == clock < MaxTime /\ clock' = clock + 1 /\ UNCHANGED <<kept, daily, session, verdict, history>>

\* Midnight: the spend is looked up under another date.
NewDay == daily > 0 /\ daily' = 0 /\ UNCHANGED <<clock, kept, session, verdict, history>>

Next ==
    \/ \E a \in Agents, action \in Actions, estimate \in Estimates, s \in Sessions \cup {NoSession} :
           Authorize(a, action, estimate, s)
    \/ \E cost \in Charges, s \in Sessions \cup {NoSession} : AddCost(cost, s)
    \/ Tick \/ NewDay

Spec == Init /\ [][Next]_vars

\* Time passes.
FairSpec == Spec /\ WF_vars(Tick)

-----------------------------------------------------------------------------
(* Properties                                                              *)

\* The rate limit holds for every hour, not only for the ones the limiter looks
\* at: up to any call, no agent had more calls let through within an hour than
\* its policy allows, although lists are pruned on every check and the time
\* recorded is not the time checked.
WindowBounded ==
    \A c \in history :
        Cardinality({d \in history : d.agent = c.agent /\ d.time > c.time - Hour /\ d.time <= c.time})
            <= Policies[c.agent].calls

\* An agent that has used its hour up gets calls back, however often it asks in
\* between and however it is refused: asking does not extend the wait.
QuotaReturns ==
    \A a \in Agents :
        Policies[a].calls > 0 /\ Remaining(a) = 0 /\ clock + Hour <= MaxTime ~> Remaining(a) > 0
=============================================================================
