SPECIFICATION IntakeSpec
CONSTANTS w0 = w0
 w1 = w1
 Workers <- MCWorkers
 Texts <- MCTexts
 Shards <- MCShards
 Target <- MCTarget
 CheckpointRows = 2
 MaxFaults = 0
 MaxTroubles = 0
 Grown <- MCGrown
 Littered <- MCLittered
 None = None
INVARIANT GateMeansAudited
CHECK_DEADLOCK FALSE
