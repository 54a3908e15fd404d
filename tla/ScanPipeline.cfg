SPECIFICATION Spec
CONSTANTS
    NumFiles = 3
    Contents <- MCContents
    Suppressed <- Lists
    Verdicts <- MCVerdicts
    MaxSurfaces = 2
    BatchSize = 1
    MaxTriage = 2
INVARIANTS
    EveryRouteAccountedFor
    ProhibitedNeedsDeployment
    ProductionOutranksTests
    OnlyWhereAiIsUsed
PROPERTY
    TriageOnlyQuietens
CHECK_DEADLOCK FALSE
