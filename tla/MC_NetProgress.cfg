SPECIFICATION NetSpec
CONSTANTS
    Peers = {p1, p2}
    Honest = {p1}
    Preferable = {p1, p2}
    Whitelisted = {}
    Hashes = {0, 1, 2, 3}
    FirstHash = 0
    HashChain <- MCHashChain
    PrevHash <- MCPrevHash
    PeerTip <- MCPeerTip
    BadBlocks = {3}
    Window = 1
    MaxInTransit = 2
    KeepBlocks = 1
    RecentHeight = 2
    Kinds = {"block"}
    NoHash = NoHash
    Announcers = {q1, q2}
    Replying = {q2}
    Wanted = {t1, t2}
    Retry = 2
    MaxAsked = 1
    MaxMapAskFor = 0
    MaxSetAskFor = 0
    MaxTime = 5
    Outbound = {o1}
    Inbound = {i1}
    OutboundSlots = 1
    SlotPosts = 1
    MaxInbound = 1
    PeerRequests <- MCRequests
    FloodSize = 1
    SendMax = 1
    SocketBuffer = 1
PROPERTY CatchesUp
PROPERTY AnnouncedIsObtained
PROPERTY DisconnectedIsDeleted
PROPERTY AllAnswered
CHECK_DEADLOCK FALSE
