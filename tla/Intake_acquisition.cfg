SPECIFICATION IntakeSpec
CONSTANTS w0 = w0
 w1 = w1
 Workers <- MCWorkers
 Texts <- MCTexts
 Shards <- MCShards
 Target <- MCTarget
 CheckpointRows = 2
 MaxFaults = 2
 MaxTroubles = 1
 Grown <- MCGrown
 Littered <- MCLittered
 None = None
INVARIANTS ScanWithinQuota CollectorsRecoverable AuditHolds
PROPERTIES CollectionPromised IntakeCompletes
CHECK_DEADLOCK FALSE
