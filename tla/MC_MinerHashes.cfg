SPECIFICATION MiningSpec
CONSTANTS
    Miners = {m1, m2}
    Solo = TRUE
    Blocks = 1
    EpochLength = 3
    PrepareAfter = 1
    StartHeight = 1
    MaxOthers = 0
    MaxTies = 1
    NoWork = NoWork
INVARIANT HashesAreBlocks
CHECK_DEADLOCK FALSE
