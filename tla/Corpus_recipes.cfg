SPECIFICATION CorpusSpec
CONSTANTS
    Destinations <- MCDestinations
    Splits <- MCSplits
    Kept <- MCKept
    Geometries = {g1, g2}
    g1 = g1
    g2 = g2
    Target <- MCTarget
    MaxInterruptions = 3
    RawArchives <- MCRawArchives
    Counts <- MCCounts
    Slots = {w1, w2}
    MaxBatchDocuments = 2
    MaxBatchTokens = 3
    MaxFaults = 2
    TempSurvives = FALSE
    None = None
INVARIANTS
    AlwaysResumable
    PublishedIsReference
    PublicationExact
    CacheExact
PROPERTIES
    PublishedIsFinal
    RecipeCompletes
