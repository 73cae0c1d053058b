SPECIFICATION FairRunSpec
CONSTANTS
    WorldSize = 2
    LocalRows = 1
    Accumulation = 2
    MaxSteps = 3
    EvalEvery = 2
    EvalAtStart = TRUE
    CheckpointEvery = 2
    MaxLaunches = 5
    MaxKills = 1
    MaxStops = 2
    None = None
    SeqLen = 3
    RowsPerShard = 3
    Weights <- MCWeights
    RowSpan = 32
    Shuffles = {"reversed", "riffled"}
    Unset = Unset
    Corpora <- MCCorpora
    Policies <- MCPolicies
    HeldOut <- MCHeldOut
    Orders <- MCOrders
    Seed = "riffled"
    EvalBatches = 2
    MaxSwaps = 1
INVARIANTS
    RanksAgree
    LearnsTheOrder
    NothingLeftUnsaved
    OrderExact
PROPERTIES
    ProgressInOrder
    RunCompletes
