------------------------- MODULE SupervisorWorkflow -------------------------
(***************************************************************************)
(* The enrichment of a scan (agents/): SupervisorAgent's four-node graph,  *)
(* the legal research agent's concurrent lookups in the knowledge engine,  *)
(* the one LLM call of the documentation generator and the process-wide    *)
(* CostTracker that is asked before the call and told after it.            *)
(*                                                                         *)
(*   classify_risk -> research_legal -> generate_narrative -> synthesize   *)
(*                                                                         *)
(* Several scans are enriched at once on one event loop, one after another *)
(* in each place of Scans; they share only the cost tracker.  It goes by   *)
(* the day: a scan makes one call, far below the limit of a session.       *)
(* ScanService takes one whole run of this graph as its step Supervise.    *)
(***************************************************************************)
EXTENDS Integers, FiniteSets

CONSTANTS
    Scans,          \* places for scans being enriched at the same time
    Rules,          \* rule ids a finding can have
    RuleSets,       \* the sets of rules with unsuppressed findings considered
    MaxConcurrency, \* _MAX_CONCURRENCY: lookups of one scan in flight
    PromptCost,     \* what estimate_cost(prompt, "") gives
    MaxReplyCost,   \* bound: what the reply can add to it
    DailyLimit      \* max_daily_spend

ASSUME ScansAssumption == IsFiniteSet(Scans) /\ IsFiniteSet(Rules)
ASSUME RuleSetsAssumption == RuleSets \subseteq SUBSET Rules
ASSUME CostAssumption ==
    /\ MaxConcurrency \in Nat \ {0} /\ PromptCost \in Nat \ {0}
    /\ MaxReplyCost \in Nat /\ DailyLimit \in Nat /\ PromptCost <= DailyLimit

VARIABLES
    node,       \* the graph node each scan's run is at
    rules,      \* unique_rules of each scan
    lookup,     \* each rule's lookup: waiting, asked, answered, failed
    state,      \* the graph state accumulated so far
    returned,   \* what SupervisorAgent.execute returned
    daily       \* CostTracker: what was recorded today

vars == <<node, rules, lookup, state, returned, daily>>
-----------------------------------------------------------------------------
Nodes == {"idle", "classify_risk", "research_legal", "lookups",
          "generate_narrative", "asking", "synthesize", "done"}

(* The part of ScanState the agents fill in.  records: what finding_       *)
(* citations holds for each rule (the citations of an answered lookup may  *)
(* be none at all); narrative: who wrote it.                               *)
Outcomes  == {"answered", "failed"}
Initial   == [posture |-> FALSE, records |-> [r \in Rules |-> "none"],
              narrative |-> "none", report |-> FALSE]
States    == [posture : BOOLEAN, records : [Rules -> Outcomes \cup {"none"}],
              narrative : {"none", "llm", "fallback"}, report : BOOLEAN]
Returned  == [status : {"none", "completed", "failed"}, state : States]

NotReturned == [status |-> "none", state |-> Initial]

Init ==
    /\ node = [s \in Scans |-> "idle"]
    /\ rules = [s \in Scans |-> {}]
    /\ lookup = [s \in Scans |-> [r \in Rules |-> "waiting"]]
    /\ state = [s \in Scans |-> Initial]
    /\ returned = [s \in Scans |-> NotReturned]
    /\ daily = 0

Goto(s, next) == node' = [node EXCEPT ![s] = next]
-----------------------------------------------------------------------------
\* supervisor.execute(create_initial_state(...)) for a next scan.
Start(s) ==
    /\ node[s] \in {"idle", "done"}
    /\ Goto(s, "classify_risk")
    /\ \E found \in RuleSets : rules' = [rules EXCEPT ![s] = found]
    /\ lookup' = [lookup EXCEPT ![s] = [r \in Rules |-> "waiting"]]
    /\ state' = [state EXCEPT ![s] = Initial]
    /\ returned' = [returned EXCEPT ![s] = NotReturned]
    /\ UNCHANGED daily

\* RiskClassifierAgent.execute: no await and no LLM.
ClassifyRisk(s) ==
    /\ node[s] = "classify_risk"
    /\ state' = [state EXCEPT ![s].posture = TRUE]
    /\ Goto(s, "research_legal")
    /\ UNCHANGED <<rules, lookup, returned, daily>>
-----------------------------------------------------------------------------
(* LegalResearchAgent.execute *)

\* Without a finding there is nothing to look up.
Research(s) ==
    /\ node[s] = "research_legal"
    /\ Goto(s, IF rules[s] = {} THEN "generate_narrative" ELSE "lookups")
    /\ UNCHANGED <<rules, lookup, state, returned, daily>>

\* Variant: a lookup that failed keeps its place in the semaphore.
InFlightLeaking(s) == {r \in rules[s] : lookup[s][r] \in {"asked", "failed"}}

InFlight(s) == {r \in rules[s] : lookup[s][r] = "asked"}

\* _bounded: the semaphore lets MaxConcurrency lookups of a scan be in flight.
Ask(s, r) ==
    /\ node[s] = "lookups" /\ r \in rules[s] /\ lookup[s][r] = "waiting"
    /\ Cardinality(InFlight(s)) < MaxConcurrency
    /\ lookup' = [lookup EXCEPT ![s][r] = "asked"]
    /\ UNCHANGED <<node, rules, state, returned, daily>>

\* _query: whatever goes wrong is turned into an empty, FAILED result, by its
\* own handlers or by gather's return_exceptions.
Answer(s, r) ==
    /\ node[s] = "lookups" /\ r \in rules[s] /\ lookup[s][r] = "asked"
    /\ \E out \in Outcomes : lookup' = [lookup EXCEPT ![s][r] = out]
    /\ UNCHANGED <<node, rules, state, returned, daily>>

Gathered(s) == \A r \in rules[s] : lookup[s][r] \in Outcomes

\* Variant: gather without return_exceptions, its failures dropped.
CollectFailing(s) ==
    /\ node[s] = "lookups" /\ Gathered(s)
    /\ state' = [state EXCEPT ![s].records = [r \in Rules |->
                     IF r \in rules[s] /\ lookup[s][r] # "failed" THEN lookup[s][r] ELSE "none"]]
    /\ Goto(s, "generate_narrative")
    /\ UNCHANGED <<rules, lookup, returned, daily>>

\* gather is over: one record per rule, in the order of the rules.
Collect(s) ==
    /\ node[s] = "lookups" /\ Gathered(s)
    /\ state' = [state EXCEPT ![s].records =
                     [r \in Rules |-> IF r \in rules[s] THEN lookup[s][r] ELSE "none"]]
    /\ Goto(s, "generate_narrative")
    /\ UNCHANGED <<rules, lookup, returned, daily>>

\* The HTTP client itself raises, before the first lookup or, on being closed,
\* after the last one: results is [] and zip leaves no record for any rule.
LoseClient(s) ==
    /\ node[s] = "lookups"
    /\ Gathered(s) \/ \A r \in rules[s] : lookup[s][r] = "waiting"
    /\ Goto(s, "generate_narrative")
    /\ UNCHANGED <<rules, lookup, state, returned, daily>>
-----------------------------------------------------------------------------
(* DocumentationGeneratorAgent.execute *)

Narrate(s, writer) ==
    /\ state' = [state EXCEPT ![s].narrative = writer]
    /\ Goto(s, "synthesize")

\* can_proceed says no: invoke_llm raises and the template is used.
Refused(s) ==
    /\ node[s] = "generate_narrative" /\ daily + PromptCost > DailyLimit
    /\ Narrate(s, "fallback")
    /\ UNCHANGED <<rules, lookup, returned, daily>>

\* Variant: the call is made whatever can_proceed says.
CallUnchecked(s) ==
    /\ node[s] = "generate_narrative"
    /\ Goto(s, "asking")
    /\ UNCHANGED <<rules, lookup, state, returned, daily>>

\* can_proceed says yes, on an estimate without the reply; nothing is reserved
\* while the reply is awaited.
Call(s) ==
    /\ node[s] = "generate_narrative" /\ daily + PromptCost <= DailyLimit
    /\ Goto(s, "asking")
    /\ UNCHANGED <<rules, lookup, state, returned, daily>>

\* The reply is charged and parsed.
Reply(s) ==
    /\ node[s] = "asking"
    /\ \E c \in 0..MaxReplyCost : daily' = daily + PromptCost + c
    /\ \E writer \in {"llm", "fallback"} : Narrate(s, writer)
    /\ UNCHANGED <<rules, lookup, returned>>

\* The call raises, or its content is a list, on which estimate_cost raises
\* before add_cost: the template is used and nothing is charged.
ReplyLost(s) ==
    /\ node[s] = "asking"
    /\ Narrate(s, "fallback")
    /\ UNCHANGED <<rules, lookup, returned, daily>>
-----------------------------------------------------------------------------
\* _synthesize, END and the end of execute.
Synthesize(s) ==
    /\ node[s] = "synthesize"
    /\ LET final == [state[s] EXCEPT !.report = TRUE]
       IN  /\ state' = [state EXCEPT ![s] = final]
           /\ returned' = [returned EXCEPT ![s] = [status |-> "completed", state |-> final]]
    /\ Goto(s, "done")
    /\ UNCHANGED <<rules, lookup, daily>>

\* Variant: execute returns what the graph had got to.
NodeRaisesPartial(s) ==
    /\ node[s] \in {"classify_risk", "research_legal", "generate_narrative", "synthesize"}
    /\ returned' = [returned EXCEPT ![s] = [status |-> "failed", state |-> state[s]]]
    /\ Goto(s, "done")
    /\ UNCHANGED <<rules, lookup, state, daily>>

\* A node raises: execute returns the state it was given, marked as failed.
NodeRaises(s) ==
    /\ node[s] \in {"classify_risk", "research_legal", "generate_narrative", "synthesize"}
    /\ returned' = [returned EXCEPT ![s] = [status |-> "failed", state |-> Initial]]
    /\ Goto(s, "done")
    /\ UNCHANGED <<rules, lookup, state, daily>>

\* get_daily_spend looks under today's date.
NewDay ==
    /\ daily > 0
    /\ daily' = 0
    /\ UNCHANGED <<node, rules, lookup, state, returned>>
-----------------------------------------------------------------------------
Run(s) ==
    \/ ClassifyRisk(s) \/ Research(s) \/ Collect(s) \/ LoseClient(s)
    \/ \E r \in Rules : Ask(s, r) \/ Answer(s, r)
    \/ Refused(s) \/ Call(s) \/ Reply(s) \/ ReplyLost(s) \/ Synthesize(s) \/ NodeRaises(s)

Next == (\E s \in Scans : Start(s) \/ Run(s)) \/ NewDay

Spec == Init /\ [][Next]_vars

\* Lookups time out after 60 s, the LLM client after its own time; the event
\* loop resumes every coroutine that can go on.
FairSpec == Spec /\ \A s \in Scans : WF_vars(Run(s))
-----------------------------------------------------------------------------
TypeOK ==
    /\ node \in [Scans -> Nodes]
    /\ rules \in [Scans -> SUBSET Rules]
    /\ lookup \in [Scans -> [Rules -> Outcomes \cup {"waiting", "asked"}]]
    /\ state \in [Scans -> States]
    /\ returned \in [Scans -> Returned]
    /\ daily \in Nat

\* Whatever subset of the lookups fails, and in whatever order they return, a
\* scan that goes on has one record for every rule with findings and for no
\* other; a lost client is the only way to have none at all.
RecordPerRule ==
    \A s \in Scans : node[s] \in {"generate_narrative", "asking", "synthesize"} =>
        LET recorded == {r \in Rules : state[s].records[r] # "none"}
        IN  recorded \in {{}, rules[s]}

\* A completed run returns the posture, a written narrative and the report; a
\* failed one returns nothing of what the graph had computed.
WholeOrNothing ==
    \A s \in Scans :
        LET out == returned[s]
        IN  /\ out.status = "completed" =>
                   out.state.posture /\ out.state.report /\ out.state.narrative # "none"
            /\ out.status = "failed" => out.state = Initial

\* The check before a call and the charge after it are apart: the limit can be
\* passed, but by no more than one reply and the calls of the other scans.
OvershootBounded ==
    daily <= DailyLimit + (Cardinality(Scans) * MaxReplyCost)
             + (Cardinality(Scans) * PromptCost) - PromptCost

\* Every run returns: a failed lookup gives its place in the semaphore back.
RunsReturn == \A s \in Scans : node[s] = "classify_risk" ~> node[s] = "done"
=============================================================================
