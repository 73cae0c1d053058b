SPECIFICATION MCSpec
CONSTANTS
    Trainers = {t1, t2}
    t1 = t1
    t2 = t2
    MaxSteps = 1
    MaxGenerations = 3
    MaxFaults = 1
    MaxCorruptions = 0
    PeakGenerations = 3
    None = None
INVARIANT FreshNeverOverwrites
CHECK_DEADLOCK FALSE
