SPECIFICATION MCKillSpec
CONSTANTS
    SplitOf <- MCSplitOf
    SplitOrder <- MCSplitOrder
    Quota <- MCQuota
    None = None
    Pods = {1, 2}
    Retention = 2
    NearCorpora <- MCNearCorpora
    Threshold <- MCThreshold
    MaxPosting = 3
    MaxPairs = 4
    NearBatch = 2
    MaxInterruptions = 3
INVARIANTS SnapshotsRecoverable
CHECK_DEADLOCK FALSE
