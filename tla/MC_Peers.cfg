SPECIFICATION PeersSpec
CONSTANTS
    Peers = {p1, p2}
    Honest = {p1}
    Preferable = {p1, p2}
    Whitelisted = {p2}
    Hashes = {0, 1, 2}
    FirstHash = 0
    HashChain <- MCHashChain
    PrevHash <- MCPrevHash
    PeerTip <- MCPeerTip
    BadBlocks = {}
    Window = 1
    MaxInTransit = 2
    KeepBlocks = 1
    RecentHeight = 1
    Kinds = {"inv", "block", "damaged"}
    NoHash = NoHash
    TxPeers = {r1, r2}
    Txs = {1, 2, 3}
    Spends <- MCSpends
    Refused = {3}
    Policy = {2}
    MaxOrphans = 2
    MaxTips = 2
    Services <- MCServices
    Sources = {1, 2}
    NewBuckets = 2
    NewBucket <- MCNewBucket
    NewPosition <- MCNewPosition
    TriedSlot <- MCTriedSlot
    MaxRefs = 2
    Outbound = {o1}
    Inbound = {i1, i2}
    OutboundSlots = 1
    SlotPosts = 1
    MaxInbound = 1
INVARIANT DownloadsExact
INVARIANT RelayStateExact
INVARIANT AddrManExact
INVARIANT ConnectionsExact
SYMMETRY RelaySymmetry
CHECK_DEADLOCK FALSE
