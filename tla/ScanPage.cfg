SPECIFICATION PageFairSpec
CONSTANTS
    Scans = {s1, s2}
    Mine = {s1}
    Enriched = {s1}
    LongRefs = {s2}
    Limit = 1
    Slots = {l1, l2}
    MaxRestarts = 1
    MaxOutages = 0
    MaxTorn = 0
    MaxTimeouts = 1
    GetKinds = {"list", "report"}
INVARIANTS
    UnknownHasCause
PROPERTIES
    SwitchHasCause
    PageSettles
CHECK_DEADLOCK FALSE
