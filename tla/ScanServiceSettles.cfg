SPECIFICATION FairSpec
CONSTANTS
    Scans = {s1, s2}
    Enriched = {s1}
    LongRefs = {}
    GetKinds = {"scan", "report", "list"}
    MaxOutages = 0
    MaxRestarts = 0
    MaxTorn = 0
    MaxTimeouts = 0
PROPERTY
    QueuedScanSettles
CHECK_DEADLOCK FALSE
