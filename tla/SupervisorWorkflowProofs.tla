---------------------- MODULE SupervisorWorkflowProofs ----------------------
(***************************************************************************)
(* The safety invariants of SupervisorWorkflow hold for every number of    *)
(* scans, every set of rules and every cost limit.                         *)
(*                                                                         *)
(* Two independent arguments.  What a run has put together is determined   *)
(* by the node it is at (Progress).  What can still be charged is bounded  *)
(* by the calls in flight (Budget): a call that passes the check leaves at *)
(* most DailyLimit - PromptCost recorded, whatever the calls in flight,    *)
(* and each of these, one per scan at most, adds at most one Unit.         *)
(***************************************************************************)
EXTENDS SupervisorWorkflow, FiniteSetTheorems, TLAPS

Recorded(s) == {r \in Rules : state[s].records[r] # "none"}

Progress(s) ==
    /\ node[s] \in {"idle", "classify_risk", "research_legal", "lookups"} =>
           Recorded(s) = {}
    /\ node[s] \in {"generate_narrative", "asking", "synthesize"} =>
           Recorded(s) \in {{}, rules[s]}
    /\ node[s] \in {"research_legal", "lookups", "generate_narrative", "asking", "synthesize"} =>
           state[s].posture
    /\ node[s] = "synthesize" => state[s].narrative # "none"
    /\ returned[s].status = "completed" =>
           /\ returned[s].state.posture /\ returned[s].state.report
           /\ returned[s].state.narrative # "none"
    /\ returned[s].status = "failed" => returned[s].state = Initial

Asking == {s \in Scans : node[s] = "asking"}
Unit   == PromptCost + MaxReplyCost
Budget == daily + (Cardinality(Asking) * Unit)
              <= DailyLimit - PromptCost + (Cardinality(Scans) * Unit)
-----------------------------------------------------------------------------
(* Facts about the costs.                                                  *)

LEMMA Costs == PromptCost \in Nat /\ MaxReplyCost \in Nat /\ DailyLimit \in Nat
               /\ PromptCost <= DailyLimit /\ Unit \in Nat
  BY CostAssumption DEF Unit

\* One call more, or one less, in flight.
LEMMA UnitStep ==
  ASSUME NEW a \in Nat, NEW u \in Nat
  PROVE  /\ (a + 1) * u = a * u + u
         /\ a * u \in Nat
  OBVIOUS

LEMMA UnitSplit ==
  ASSUME NEW n \in Nat, NEW p \in Nat, NEW m \in Nat
  PROVE  n * (p + m) = n * m + n * p
  OBVIOUS

LEMMA UnitMonotone ==
  ASSUME NEW a \in Nat, NEW n \in Nat, NEW u \in Nat, a <= n
  PROVE  a * u <= n * u
  OBVIOUS

(* Types.                                                                  *)

LEMMA TypeInit == Init => TypeOK
  BY DEF Init, TypeOK, NotReturned, Initial, Returned, States, Outcomes, Nodes

LEMMA TypeStep == TypeOK /\ [Next]_vars => TypeOK'
<1> SUFFICES ASSUME TypeOK, [Next]_vars PROVE TypeOK'
  OBVIOUS
<1> USE DEF TypeOK, States, Outcomes, Nodes, Goto
<1>1. CASE UNCHANGED vars
  BY <1>1 DEF vars
<1>2. CASE NewDay
  BY <1>2 DEF NewDay
<1>3. ASSUME NEW s \in Scans, Start(s) PROVE TypeOK'
  BY <1>3, RuleSetsAssumption DEF Start, Initial, NotReturned, Returned
<1>4. ASSUME NEW s \in Scans, Run(s) PROVE TypeOK'
  <2>1. CASE ClassifyRisk(s)
    BY ZenonT(30), <2>1 DEF ClassifyRisk
  <2>2. CASE Research(s)
    BY <2>2 DEF Research
  <2>3. CASE Collect(s)
    BY ZenonT(30), <2>3 DEF Collect, Gathered
  <2>4. CASE LoseClient(s)
    BY <2>4 DEF LoseClient
  <2>5. CASE Refused(s)
    BY <2>5 DEF Refused, Narrate
  <2>6. CASE Call(s)
    BY <2>6 DEF Call
  <2>7. CASE Reply(s)
    <3>1. daily' \in Nat
      BY <2>7, Costs DEF Reply
    <3>2. PICK writer \in {"llm", "fallback"} : Narrate(s, writer)
      BY <2>7 DEF Reply
    <3>3. UNCHANGED <<rules, lookup, returned>>
      BY <2>7 DEF Reply
    <3>4. node' \in [Scans -> Nodes] /\ state' \in [Scans -> States]
      BY <3>2 DEF Narrate
    <3> QED
      BY <3>1, <3>3, <3>4
  <2>8. CASE ReplyLost(s)
    BY <2>8 DEF ReplyLost, Narrate
  <2>9. CASE Synthesize(s)
    <3> DEFINE final == [state[s] EXCEPT !.report = TRUE]
    <3>1. final \in States
      BY ZenonT(30)
    <3>2. /\ state' = [state EXCEPT ![s] = final]
          /\ returned' = [returned EXCEPT ![s] = [status |-> "completed", state |-> final]]
          /\ node' = [node EXCEPT ![s] = "done"]
          /\ UNCHANGED <<rules, lookup, daily>>
      BY <2>9 DEF Synthesize
    <3> HIDE DEF final, States
    <3> QED
      BY <3>1, <3>2 DEF Returned
  <2>10. CASE NodeRaises(s)
    BY <2>10 DEF NodeRaises, Returned, Initial
  <2>11. ASSUME NEW r \in Rules, Ask(s, r) PROVE TypeOK'
    BY <2>11 DEF Ask
  <2>12. ASSUME NEW r \in Rules, Answer(s, r) PROVE TypeOK'
    BY <2>12 DEF Answer
  <2> QED
    BY <1>4, <2>1, <2>2, <2>3, <2>4, <2>5, <2>6, <2>7, <2>8, <2>9, <2>10, <2>11, <2>12 DEF Run
<1> QED
  BY <1>1, <1>2, <1>3, <1>4 DEF Next

\* Every reachable state is well typed: the tracker never records a negative
\* or fractional total, and every run is at a node of the graph.
THEOREM TypeCorrect == Spec => []TypeOK
  BY TypeInit, TypeStep, PTL DEF Spec
-----------------------------------------------------------------------------
(* What a run has put together.                                            *)

LEMMA ProgressInit == Init => \A s \in Scans : Progress(s)
  BY DEF Init, Progress, Recorded, Initial, NotReturned

\* A step of one run leaves the others as they are.
LEMMA ProgressFrame ==
  ASSUME NEW s \in Scans, NEW t \in Scans, TypeOK, Progress(t),
         node'[t] = node[t], rules'[t] = rules[t], state'[t] = state[t],
         returned'[t] = returned[t]
  PROVE  Progress(t)'
  BY DEF Progress, Recorded

LEMMA OthersKept ==
  ASSUME NEW s \in Scans, NEW t \in Scans \ {s}, TypeOK, Start(s) \/ Run(s)
  PROVE  /\ node'[t] = node[t] /\ rules'[t] = rules[t]
         /\ state'[t] = state[t] /\ returned'[t] = returned[t]
<1> USE DEF TypeOK, Goto
<1>1. CASE Start(s)
  BY <1>1 DEF Start
<1>2. CASE ClassifyRisk(s)
  BY <1>2 DEF ClassifyRisk
<1>3. CASE Research(s)
  BY <1>3 DEF Research
<1>4. CASE Collect(s)
  BY <1>4 DEF Collect
<1>5. CASE LoseClient(s)
  BY <1>5 DEF LoseClient
<1>6. CASE Refused(s) \/ ReplyLost(s)
  BY <1>6 DEF Refused, ReplyLost, Narrate
<1>7. CASE Call(s)
  BY <1>7 DEF Call
<1>8. CASE Reply(s)
  <2> PICK writer \in {"llm", "fallback"} : Narrate(s, writer)
    BY <1>8 DEF Reply
  <2> QED
    BY <1>8 DEF Reply, Narrate
<1>9. CASE Synthesize(s)
  BY <1>9 DEF Synthesize
<1>10. CASE NodeRaises(s)
  BY <1>10 DEF NodeRaises
<1>11. CASE \E r \in Rules : Ask(s, r) \/ Answer(s, r)
  BY <1>11 DEF Ask, Answer
<1> QED
  BY <1>1, <1>2, <1>3, <1>4, <1>5, <1>6, <1>7, <1>8, <1>9, <1>10, <1>11 DEF Run

\* The run that takes the step gets from each node to the next with what the
\* node owes.
LEMMA ProgressOwn ==
  ASSUME NEW s \in Scans, TypeOK, Progress(s), Start(s) \/ Run(s)
  PROVE  Progress(s)'
<1> USE DEF TypeOK, Goto, Progress, Recorded
<1>1. CASE Start(s)
  BY <1>1 DEF Start, Initial, NotReturned
<1>2. CASE ClassifyRisk(s)
  <2> DEFINE next == [state[s] EXCEPT !.posture = TRUE]
  <2>1. state'[s] = next /\ next.posture /\ next.records = state[s].records
    BY <1>2 DEF ClassifyRisk, States
  <2> HIDE DEF next
  <2> QED
    BY <1>2, <2>1 DEF ClassifyRisk
<1>3. CASE Research(s)
  BY <1>3 DEF Research
<1>4. CASE Collect(s)
  <2> DEFINE kept == [r \in Rules |-> IF r \in rules[s] THEN lookup[s][r] ELSE "none"]
             next == [state[s] EXCEPT !.records = kept]
  <2>1. /\ state'[s] = next /\ next.posture = state[s].posture
        /\ next.records = kept
    BY <1>4 DEF Collect, States
  <2>2. {r \in Rules : kept[r] # "none"} = rules[s]
    BY <1>4 DEF Collect, Gathered, Outcomes
  <2> HIDE DEF next, kept
  <2> QED
    BY <1>4, <2>1, <2>2 DEF Collect
<1>5. CASE LoseClient(s)
  BY <1>5 DEF LoseClient
<1>6. ASSUME NEW writer \in {"llm", "fallback"}, Narrate(s, writer),
             node[s] \in {"generate_narrative", "asking"}, UNCHANGED <<rules, returned>>
      PROVE  Progress(s)'
  <2> DEFINE next == [state[s] EXCEPT !.narrative = writer]
  <2>1. /\ state'[s] = next /\ next.posture = state[s].posture
        /\ next.records = state[s].records /\ next.narrative # "none"
    BY <1>6 DEF Narrate, States
  <2> HIDE DEF next
  <2> QED
    BY <1>6, <2>1 DEF Narrate
<1>7. CASE Call(s)
  BY <1>7 DEF Call
<1>8. CASE Refused(s) \/ Reply(s) \/ ReplyLost(s)
  BY <1>6, <1>8 DEF Refused, Reply, ReplyLost
<1>9. CASE Synthesize(s)
  <2> DEFINE final == [state[s] EXCEPT !.report = TRUE]
  <2>1. /\ final.report /\ final.posture = state[s].posture
        /\ final.narrative = state[s].narrative
    BY DEF States
  <2>2. /\ node[s] = "synthesize" /\ node'[s] = "done"
        /\ returned'[s] = [status |-> "completed", state |-> final]
    BY <1>9 DEF Synthesize
  <2> HIDE DEF final
  <2> QED
    BY <2>1, <2>2
<1>10. CASE NodeRaises(s)
  BY <1>10 DEF NodeRaises
<1>11. CASE \E r \in Rules : Ask(s, r) \/ Answer(s, r)
  BY <1>11 DEF Ask, Answer
<1> QED
  BY <1>1, <1>2, <1>3, <1>4, <1>5, <1>7, <1>8, <1>9, <1>10, <1>11 DEF Run

LEMMA ProgressStep ==
  TypeOK /\ (\A t \in Scans : Progress(t)) /\ [Next]_vars => (\A t \in Scans : Progress(t)')
<1> SUFFICES ASSUME TypeOK, \A t \in Scans : Progress(t), [Next]_vars, NEW t \in Scans
             PROVE  Progress(t)'
  OBVIOUS
<1>1. CASE UNCHANGED vars \/ NewDay
  BY <1>1, ProgressFrame DEF vars, NewDay
<1>2. ASSUME NEW s \in Scans, Start(s) \/ Run(s) PROVE Progress(t)'
  BY <1>2, ProgressOwn, ProgressFrame, OthersKept
<1> QED
  BY <1>1, <1>2 DEF Next

LEMMA ProgressGives ==
  (\A s \in Scans : Progress(s)) => RecordPerRule /\ WholeOrNothing
  BY DEF Progress, Recorded, RecordPerRule, WholeOrNothing

\* Whatever lookups fail, and in whatever order they return, the record of a
\* scan that goes on has an entry for each of its rules, or none at all.
THEOREM RecordPerRuleAlways == Spec => []RecordPerRule
<1> DEFINE All == \A s \in Scans : Progress(s)
<1>1. Init => All
  BY ProgressInit
<1>2. TypeOK /\ All /\ [Next]_vars => All'
  BY ProgressStep
<1>3. All => RecordPerRule
  BY ProgressGives
<1> QED
  BY <1>1, <1>2, <1>3, TypeCorrect, PTL DEF Spec

\* A run returns everything the four nodes owe, or nothing of it.
THEOREM WholeOrNothingAlways == Spec => []WholeOrNothing
<1> DEFINE All == \A s \in Scans : Progress(s)
<1>1. Init => All
  BY ProgressInit
<1>2. TypeOK /\ All /\ [Next]_vars => All'
  BY ProgressStep
<1>3. All => WholeOrNothing
  BY ProgressGives
<1> QED
  BY <1>1, <1>2, <1>3, TypeCorrect, PTL DEF Spec
-----------------------------------------------------------------------------
(* What can still be charged.                                              *)

LEMMA AskingCounts ==
  /\ Cardinality(Scans) \in Nat
  /\ IsFiniteSet(Asking) /\ Cardinality(Asking) \in Nat
  /\ Cardinality(Asking) <= Cardinality(Scans)
<1>1. Asking \in SUBSET Scans
  BY DEF Asking
<1> QED
  BY <1>1, ScansAssumption, FS_Subset, FS_CardinalityType

LEMMA AskingCountsNext ==
  /\ IsFiniteSet(Asking') /\ Cardinality(Asking') \in Nat
  /\ Cardinality(Asking') <= Cardinality(Scans)
<1>1. Asking' \in SUBSET Scans
  BY DEF Asking
<1> QED
  BY <1>1, ScansAssumption, FS_Subset, FS_CardinalityType

\* Nothing is charged and no call begins.
LEMMA BudgetKept ==
  ASSUME TypeOK, Budget, daily' = daily, Asking' \in SUBSET Asking
  PROVE  Budget'
<1>1. Cardinality(Asking') <= Cardinality(Asking)
  BY AskingCounts, FS_Subset
<1>2. Cardinality(Asking') * Unit <= Cardinality(Asking) * Unit
  BY <1>1, Costs, AskingCounts, AskingCountsNext, UnitMonotone
<1>3. ASSUME NEW d \in Nat, NEW x \in Nat, NEW y \in Nat, NEW b \in Int,
             d + x <= b, y <= x
      PROVE  d + y <= b
  BY <1>3
<1>4. /\ Cardinality(Asking) * Unit \in Nat /\ Cardinality(Asking') * Unit \in Nat
      /\ DailyLimit - PromptCost + (Cardinality(Scans) * Unit) \in Int
  BY Costs, AskingCounts, AskingCountsNext, UnitStep
<1> QED
  BY <1>2, <1>3, <1>4 DEF Budget, TypeOK

\* With at most DailyLimit - PromptCost recorded, every scan may be asking.
LEMMA BudgetReset ==
  ASSUME daily' \in Nat, daily' <= DailyLimit - PromptCost
  PROVE  Budget'
<1>1. Cardinality(Asking') * Unit <= Cardinality(Scans) * Unit
  BY Costs, AskingCounts, AskingCountsNext, UnitMonotone
<1>2. ASSUME NEW d \in Nat, NEW x \in Nat, NEW y \in Nat, NEW b \in Int, d <= b, x <= y
      PROVE  d + x <= b + y
  BY <1>2
<1>3. /\ Cardinality(Scans) * Unit \in Nat /\ Cardinality(Asking') * Unit \in Nat
      /\ DailyLimit - PromptCost \in Int
  BY Costs, AskingCounts, AskingCountsNext, UnitStep
<1> QED
  BY <1>1, <1>2, <1>3 DEF Budget

\* A reply turns one call in flight into at most one Unit recorded.
LEMMA BudgetCharged ==
  ASSUME NEW s \in Scans, TypeOK, Budget, Reply(s)
  PROVE  Budget'
<1>1. s \in Asking
  BY DEF Reply, Asking
<1>2. Asking' = Asking \ {s}
  <2> PICK writer \in {"llm", "fallback"} : Narrate(s, writer)
    BY DEF Reply
  <2> QED
    BY DEF Asking, Narrate, Goto, TypeOK
<1>3. Cardinality(Asking) = Cardinality(Asking') + 1
  <2>1. Cardinality(Asking \ {s}) = Cardinality(Asking) - 1
    BY <1>1, AskingCounts, FS_RemoveElement
  <2>2. Cardinality(Asking') = Cardinality(Asking) - 1
    BY <1>2, <2>1
  <2> HIDE DEF Asking
  <2> QED
    BY <2>2, AskingCounts
<1>4. Cardinality(Asking) * Unit = Cardinality(Asking') * Unit + Unit
  BY <1>3, Costs, AskingCountsNext, UnitStep
<1>5. PICK c \in 0..MaxReplyCost : daily' = daily + PromptCost + c
  BY DEF Reply
<1>6. daily \in Nat /\ daily' \in Nat /\ daily' <= daily + Unit
  BY <1>5, Costs DEF Unit, TypeOK
<1>7. ASSUME NEW d \in Nat, NEW e \in Nat, NEW u \in Nat, NEW x \in Nat, NEW b \in Int,
             d + (x + u) <= b, e <= d + u
      PROVE  e + x <= b
  BY <1>7
<1>8. /\ Cardinality(Asking') * Unit \in Nat
      /\ DailyLimit - PromptCost + (Cardinality(Scans) * Unit) \in Int
  BY Costs, AskingCounts, AskingCountsNext, UnitStep
<1> QED
  BY <1>4, <1>6, <1>7, <1>8, Costs DEF Budget

LEMMA BudgetInit == Init => Budget
<1> SUFFICES ASSUME Init PROVE Budget
  OBVIOUS
<1>1. Asking = {}
  BY DEF Init, Asking
<1>2. Cardinality(Asking) = 0
  BY <1>1, FS_EmptySet
<1>3. 0 * Unit = 0 /\ Cardinality(Scans) * Unit \in Nat
  BY Costs, AskingCounts, UnitStep
<1>4. daily = 0 /\ 0 <= DailyLimit - PromptCost /\ DailyLimit - PromptCost \in Int
  BY Costs DEF Init
<1>5. daily + 0 <= DailyLimit - PromptCost + (Cardinality(Scans) * Unit)
  BY <1>3, <1>4
<1> QED
  BY <1>2, <1>3, <1>5 DEF Budget

LEMMA BudgetStep == TypeOK /\ Budget /\ [Next]_vars => Budget'
<1> SUFFICES ASSUME TypeOK, Budget, [Next]_vars PROVE Budget'
  OBVIOUS
<1> USE DEF TypeOK, Goto, Asking
<1>1. CASE UNCHANGED vars
  BY <1>1, BudgetKept DEF vars
<1>2. CASE NewDay
  BY <1>2, BudgetReset, Costs DEF NewDay
<1>3. ASSUME NEW s \in Scans, Start(s) PROVE Budget'
  BY <1>3, BudgetKept DEF Start
<1>4. ASSUME NEW s \in Scans, Run(s) PROVE Budget'
  <2>1. CASE ClassifyRisk(s) \/ Research(s) \/ Collect(s) \/ LoseClient(s)
    BY <2>1, BudgetKept DEF ClassifyRisk, Research, Collect, LoseClient
  <2>2. CASE \E r \in Rules : Ask(s, r) \/ Answer(s, r)
    BY <2>2, BudgetKept DEF Ask, Answer
  <2>3. CASE Refused(s) \/ ReplyLost(s)
    BY <2>3, BudgetKept DEF Refused, ReplyLost, Narrate
  <2>4. CASE Call(s)
    <3>1. daily' \in Nat /\ daily' <= DailyLimit - PromptCost
      BY <2>4, Costs DEF Call
    <3> QED
      BY <3>1, BudgetReset
  <2>5. CASE Reply(s)
    BY <2>5, BudgetCharged
  <2>6. CASE Synthesize(s) \/ NodeRaises(s)
    BY <2>6, BudgetKept DEF Synthesize, NodeRaises
  <2> QED
    BY <1>4, <2>1, <2>2, <2>3, <2>4, <2>5, <2>6 DEF Run
<1> QED
  BY <1>1, <1>2, <1>3, <1>4 DEF Next

LEMMA BudgetGives == TypeOK /\ Budget => OvershootBounded
<1> SUFFICES ASSUME TypeOK, Budget PROVE OvershootBounded
  OBVIOUS
<1>1. Cardinality(Scans) * Unit
          = Cardinality(Scans) * MaxReplyCost + Cardinality(Scans) * PromptCost
  BY Costs, AskingCounts, UnitSplit DEF Unit
<1>2. /\ Cardinality(Asking) * Unit \in Nat
      /\ Cardinality(Scans) * MaxReplyCost \in Nat
      /\ Cardinality(Scans) * PromptCost \in Nat
  BY Costs, AskingCounts, UnitStep
<1>3. ASSUME NEW d \in Nat, NEW x \in Nat, NEW l \in Nat, NEW p \in Nat,
             NEW a \in Nat, NEW b \in Nat, d + x <= l - p + (a + b)
      PROVE  d <= l + a + b - p
  BY <1>3
<1> QED
  BY <1>1, <1>2, <1>3, Costs DEF Budget, OvershootBounded, TypeOK

\* However many scans are enriched at once, the daily limit is passed by no
\* more than the calls that were in flight can add.
THEOREM OvershootAlwaysBounded == Spec => []OvershootBounded
  BY BudgetInit, BudgetStep, BudgetGives, TypeCorrect, PTL DEF Spec
=============================================================================
