SPECIFICATION Spec
CONSTANTS
    g = g
    a1 = a1
    a2 = a2
    b1 = b1
    b2 = b2
    b3 = b3
    c2 = c2
    c3 = c3
    c4 = c4
    Blocks = {g, a1, a2, b1, b2, b3}
    Genesis = g
    NoBlock = NoBlock
    Parent <- MCParent
    Proof <- MCProof
    Ptr <- MCPtr
    BadContext = {}
    BadConnect = {}
    Damaged = {}
    Threads = {t1, t2}
    Operations = {}
    MinBlocksToKeep = 1
    MaxSequenceId = 6
    MaxPrecious = 2
INVARIANT BestChainWhenIdle
CHECK_DEADLOCK FALSE
