SPECIFICATION FairSpec
CONSTANTS
    Scans = {s1, s2, s3}
    LongRefs = {s3}
    Readers = {r1}
    Capacities = {2, 3, 7}
INVARIANTS
    GivenBack
    AmplePoolServes
PROPERTY
    EveryRequestEnds
CHECK_DEADLOCK FALSE
