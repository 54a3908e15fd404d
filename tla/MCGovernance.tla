---------------------------- MODULE MCGovernance ----------------------------
(* A classifier, a researcher and the documentation generator, whose policy *)
(* asks a human every time.                                                 *)
EXTENDS Governance

PROHIBITED == 3
MCAgents == {"risk_classifier", "legal_research", "documentation_generator"}
Policy(calls, spend, conditions) == [calls |-> calls, spend |-> spend, conditions |-> conditions]
Condition(op, key, value) == [op |-> op, key |-> key, value |-> value]
MCPolicies ==
    [a \in MCAgents |->
        CASE a = "risk_classifier" -> Policy(1, 1, {Condition("is", "classification", PROHIBITED),
                                                    Condition("above", "violations", 0)})
          [] a = "legal_research" -> Policy(2, 2, {Condition("below", "confidence", 75)})
          [] OTHER -> Policy(1, 2, {Condition("always", "", 0)})]
MCActions == {[none |-> 0], [classification |-> PROHIBITED], [violations |-> 1], [confidence |-> 50]}
=============================================================================
