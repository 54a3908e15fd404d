SPECIFICATION Spec
CONSTANTS
    NumEntities = 2
    NumStructural = 1
    Relations <- MCRelations
    NodeBatch = 1
    RelBatch = 1
    VectorBatch = 2
    MinNodes = 2
    MinRels = 1
    MinVectors = 2
    MaxJobs = 3
    MaxRetries = 1
    RestoreBatch = 2
    MaxRestores = 2
    MaxDamage = 1
CHECK_DEADLOCK FALSE
INVARIANTS
    TypeOK
    LoadComplete
    NoneSkippedMeansAll
    RestoreFaithful
    QuietDumpRestores
PROPERTIES
    VectorsKept
    VerifiedWhole
