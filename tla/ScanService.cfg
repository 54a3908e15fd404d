SPECIFICATION FairSpec
CONSTANTS
    Scans = {s1, s2}
    Enriched = {s1}
    LongRefs = {s2}
    GetKinds = {"scan", "report", "list", "wrong"}
    MaxOutages = 1
    MaxRestarts = 1
    MaxTorn = 1
    MaxTimeouts = 2
INVARIANTS
    OneStore
    AckedRecordKept
    CompletedIsComplete
    LossHasCause
PROPERTIES
    SettledRowKept
    CoroutineEnds
    AckedSettles
    ImplementsLifecycle
CHECK_DEADLOCK FALSE
