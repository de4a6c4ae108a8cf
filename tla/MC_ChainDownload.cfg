SPECIFICATION FairSpec
CONSTANTS
    g = g
    a1 = a1
    a2 = a2
    b1 = b1
    b2 = b2
    b3 = b3
    c2 = c2
    c3 = c3
    c4 = c4
    Blocks = {g, a1, a2, b1, b2, b3, c2}
    Genesis = g
    NoBlock = NoBlock
    Parent <- MCParent
    Proof <- MCProof
    Ptr <- MCPtr
    BadContext = {a2}
    BadConnect = {b2}
    Damaged = {c2}
    Threads = {t1, t2}
    Operations = {}
    MinBlocksToKeep = 1
    MaxSequenceId = 7
    MaxPrecious = 2
INVARIANT CheckBlockIndex
PROPERTY ActivationTerminates
CHECK_DEADLOCK FALSE
