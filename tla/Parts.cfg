SPECIFICATION PartsSpec
CONSTANTS
    Rank = {head, worker}
    HeadRank = head
    Layers = 2
    Corpus <- MCCorpus
    Capacity = 1
    FlushEvery = 3
    Delay = TRUE
    MaxDeaths = 1
    Matrix = {"gate", "down"}
    Shard = {"s1", "s2", "s3"}
    Home <- MCHome
    Settings = {"fine", "coarse", "bf16"}
    Format <- MCFormat
    SearchDivisor = {"fine", "bf16"}
    Improves <- MCImproves
    Node = {"a", "b"}
    Share <- MCShare
    MaxKills = 1
    W13 <- MCW13
    Rest = {"down", "norm"}
    RepairHome <- MCRepairHome
    GlobalPair <- MCGlobalPair
    Reference = {"released", "rebuilt"}
    MaxRepairKills = 2
    Bases = {"v1", "v2", "v3", "v4"}
    Reviewed = {"v1", "v2", "v3"}
    Truncated <- MCTruncated
    Exact = {"v1", "v3"}
    PassShard = {"p1", "p2"}
    MaxPassKills = 2
    Geometries <- MCGeometries
    PoolSize = 2
    StorageBlock = 2
    DcpSize = 2
    Requests = 2
    MaxVerify = 2
    MaxLen = 9
    Pool = 2
    Ranks = 2
    TokenStripe = 1
    Chosen = 2
    ModelLen = 9
    Block = 4
    DraftSteps = 1
    DecodeRows = 2
    MaxSeqs = 2
    MaxBatched = 18
    SlidingWindow = 3
    Scores <- MCScores
    Slot = {1, 2}
    Steps = 2
    Vocab = {1, 2, 3}
    TopK = 2
    Taps = 3
    GraphBatches = {2}
    Anchors = {1}
    Edge <- MCEdge
    TopCode = 22
    RadiusBelow = 3
    RadiusAbove = 5
    Phases = {1, 2, 3, 4}
    WeightGroups <- MCWeightGroups
    Root = {"head", "worker"}
    CaptureGroups <- MCCaptureGroups
    StratumLimit = 3
    Overrides <- MCOverrides
INVARIANTS
    FlushIsDurable
    LabelsAreRight
    VerifiedBuildIsWhole
    VerifiedRepairIsWhole
    IndexIsCommit
    LayersShareSafely
    AccountsAgree
    PoolsAreExact
    RowsSeeTheirTail
    ShardsAttendAsOne
    StepsFitTheirBuffers
    RejectionReadsProposal
    OptimizerNeverLoses
    ServedScaleIsSafe
    
CHECK_DEADLOCK FALSE
