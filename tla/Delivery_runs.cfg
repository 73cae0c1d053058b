SPECIFICATION DeliverySpec
CONSTANTS
    Scenes = {"writer", "qualification", "launch"}
    NumDocs = 3
    DocEnd <- MCDocEnd
    SeqLen = 2
    RowsPerShard = 2
    DrainRows = 2
    MaxFaults = 3
    ManifestTempSurvives = FALSE
    None = None
    Geometries <- MCGeometries
    Warmup = 1
    StopAfter = 1
    MinimumSoak = 2
    OrderSteps = 4
    Rates = {0, 1, 2}
    Lagging = {"final"}
    MaxKills = 1
    MaxEdits = 1
    Orders = {"A", "B"}
    Commits = {{}, {"certifier", "qualifier"}}
    Capacity = 4
    Saves = 3
    MaxTenants = 2
    MaxTroubles = 3
INVARIANTS
    ResumeNeverRefuses
    CommitsHold
    QualifiedIsMeasured
    AcceptedIsFastest
    LaunchedIsQualified
    SavesHaveRoom
PROPERTIES
    Promised
    BuildConcludes
    GridConcludes
    LaunchConcludes
CHECK_DEADLOCK FALSE
