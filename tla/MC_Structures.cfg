SPECIFICATION StructuresSpec
CONSTANTS
    Outpoints = {o1, o2}
    Coins = {c1, c2}
    Spent = Spent
    Blocks = {b1, b2}
    NullHash = NullHash
    DiskBlocks = {0, 1, 2, 3, 4}
    DiskGenesis = 0
    DiskParent <- MCDiskParent
    LastFileNumber = 1
    BlocksPerFile = 2
    BlocksToKeep = 2
    PruneAfter = 2
    CheckBlocks = 1
    MaxCrashes = 1
    Faults = {"power", "index write", "disk space"}
    EmptySlot = EmptySlot
    FileBlocks <- MCFileBlocks
    GenesisBlock = "g"
    FileParent <- MCFileParent
    BadHeaders = {}
    BadBodies = {"b1"}
    Mutated = {"a3"}
    Layouts <- MCLayouts
    Bootstraps <- MCBootstraps
    Junk = "junk"
    MaxStops = 1
    LeafIds = {1, 2, 3, 4, 5, 6, 7, 8, 9}
    MaxLeaves = 9
    MaxRepeated = 8
    ForkHeights = {2, 9}
    MaxHeight = 17
    MaxSide = 9
    CbTxs = {1, 2, 3, 4}
    ShortId <- MCShortId
    Buckets <- MCBuckets
    MaxPerBucket = 2
    MaxBlockTxs = 3
    MaxPoolTxs = 2
    MaxExtraTxs = 1
    SigOps <- MCSigOps
    PubKeyOps <- MCPubKeyOps
    Starts <- MCStarts
    ValidSigs <- MCValidSigs
    ScriptFlags <- MCScriptFlags
    MaxSigLen = 1
    MaxScriptLen = 3
    MaxOpsPerScript = 4
    MaxPubKeys = 3
    MaxStackSize = 8
    ArenaSize = 10
    ArenaAlign = 2
    LockLimit = 8
    MaxArenas = 2
    Sizes = {0, 1, 2, 4, 5, 9, 11}
CONSTRAINT UpToFailure
PROPERTY RefinesUtxoStore
INVARIANT RestartSucceeds
INVARIANT DiskHoldsTogether
INVARIANT ReindexComplete
INVARIANT PartialTreeRoundTrips
INVARIANT MutationDetected
INVARIANT ForkFound
INVARIANT HonestBlockRebuilt
INVARIANT ScriptStaysInBounds
INVARIANT MultisigExact
INVARIANT ArenasExact
CHECK_DEADLOCK FALSE
