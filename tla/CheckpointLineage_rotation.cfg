SPECIFICATION MCSpec
CONSTANTS
    Trainers = {t1, t2}
    t1 = t1
    t2 = t2
    MaxSteps = 2
    MaxGenerations = 4
    MaxFaults = 2
    MaxCorruptions = 1
    PeakGenerations = 3
    None = None
INVARIANTS
    TypeOK
    PublishedWhole
    TwoGenerations
    CommitSurvives
    KnownGoodKept
    LivePartKept
PROPERTY SoleRotation
SYMMETRY Launches
CHECK_DEADLOCK FALSE
