SPECIFICATION FairSpec
CONSTANTS
    Agents <- MCAgents
    Policies <- MCPolicies
    Actions <- MCActions
    Estimates = {1, 2}
    Charges = {2}
    Sessions = {"s1"}
    MaxDaily = 4
    MaxSession = 3
    Hour = 2
    MaxTime = 4
    MaxCalls = 4
    MaxSpend = 4
INVARIANTS
    WindowBounded
PROPERTIES
    QuotaReturns
CHECK_DEADLOCK FALSE
