SPECIFICATION Spec
CONSTANTS
    Destinations <- MCDestinations
    Splits <- MCSplits
    Kept <- MCKept
    Geometries = {g1, g2}
    g1 = g1
    g2 = g2
    Target <- MCTarget
    MaxInterruptions = 1
    TempSurvives = TRUE
    None = None
INVARIANTS
    ResumeNeverRefuses
