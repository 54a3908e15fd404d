SPECIFICATION Spec
CONSTANTS
    Entities <- MCEntities
    Articles <- MCArticles
    Invented <- MCInvented
    Regulations = {"GDPR", "EU_AI_ACT"}
    Regulation <- MCRegulation
    RelTypes <- MCRelTypes
    Questions <- MCQuestions
    Replies <- MCReplies
    Terms <- MCTerms
    TypeFilters <- MCTypeFilters
    Graphs <- MCGraphs
    TopKs = {0, 1, 2}
    DefaultTopK = 4
    Hops = {0, 1}
    DefaultHops = 2
    PathCounts = {1, 3}
    TermLimit = 2
    SeedLimit = 2
    Promoted = 2
    OverFetch = 1
    MinFetch = 3
    NameFetch = 1
    MinNames = 3
    ComplementLimit = 2
    PathLimit = 3
    MaxRank = 8
    Points <- MCPoints
    MaxChanges = 1
    MaxOutages = 1
    MaxRestarts = 1
INVARIANTS
    AgreementOutranks
    FilterHolds
    HighIsGrounded
PROPERTIES
    HealthyMeansAnswering
CHECK_DEADLOCK FALSE
