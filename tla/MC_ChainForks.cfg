SPECIFICATION ForksSpec
CONSTANTS
    g = g
    a1 = a1
    a2 = a2
    b1 = b1
    b2 = b2
    b3 = b3
    c2 = c2
    c3 = c3
    c4 = c4
    Blocks = {g, a1, b1, b2, b3, c2, c3, c4}
    Genesis = g
    NoBlock = NoBlock
    Parent <- MCParent
    Proof <- MCProof
    Ptr <- MCPtr
    BadContext = {}
    BadConnect = {c2}
    Damaged = {b3}
    Threads = {t1}
    Operations = {"prune", "invalidate", "precious", "reconsider"}
    MinBlocksToKeep = 2
    MaxSequenceId = 7
    MaxPrecious = 2
INVARIANT ForkCheckBlockIndex
INVARIANT ForkBestChainWhenIdle
INVARIANT ActiveChainSound
CHECK_DEADLOCK FALSE
