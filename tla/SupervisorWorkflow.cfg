SPECIFICATION FairSpec
CONSTANTS
    Scans = {s1, s2}
    Rules = {r1, r2, r3}
    RuleSets = {{}, {r1, r2, r3}}
    MaxConcurrency = 2
    PromptCost = 1
    MaxReplyCost = 2
    DailyLimit = 2
INVARIANTS
    RecordPerRule
    WholeOrNothing
    OvershootBounded
PROPERTY
    RunsReturn
CHECK_DEADLOCK FALSE
