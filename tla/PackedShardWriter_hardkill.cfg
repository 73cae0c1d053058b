SPECIFICATION Spec
CONSTANTS
    NumDocs = 3
    DocEnd <- MCDocEnd
    SeqLen = 2
    RowsPerShard = 2
    DrainRows = 2
    MaxFaults = 1
    ManifestTempSurvives = TRUE
    None = None
INVARIANT ResumeNeverRefuses
