SPECIFICATION Spec
CONSTANTS
    Corpora <- MCCorpora
    Shipped <- Complete
    Mentions <- MCMentions
    DefinitionArticles <- MCDefinitionArticles
    Rules <- MCRules
    Rights <- MCRights
    Concepts <- MCConcepts
    ConceptArticles <- MCConceptArticles
    Names <- MCNames
    CrossMappings <- MCCrossMappings
    Bearer <- MCBearer
    ExpectedArticles = 3
    MinRels = 6
    MaxOrphans = 0
    MaxEdits = 1
    MaxKills = 1
CHECK_DEADLOCK FALSE
INVARIANTS
    RerunHeals
    OnlyCuratedDangles
    ValidatedLoads
    StructureIsWhole
