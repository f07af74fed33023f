SPECIFICATION TrafficSpec
CONSTANTS
    a1 = a1
    a2 = a2
    b0 = b0
    b1 = b1
    b2 = b2
    honest = honest
    other = other
    Peer = {master, honest, other}
    Master = master
    Honest = {honest}
    Batches = 3
    MaxSkeletonSize = 2
    MaxJoins = 1
    PartPeer = {honest, other}
    HonestPart = {honest}
    Blocks = 4
    Noop <- Empty
    blockCacheItems = 3
    maxResultsProcess = 2
    MaxCount = 2
    Announcer = {honest, other}
    Hash = {b1, b2}
    Number <- Numbers
    Parent <- Parents
    Root = b0
    NoPeer = nil
    Body <- Bodies
    NoBody = noBody
    Valid = {b1}
    hashLimit = 2
    blockLimit = 1
    maxUncleDist = 0
    maxQueueDist = 2
    MaxAnnounces = 2
    MaxDebt = 2
    Holder = {a1, a2}
    Coinbase = a2
    GenesisBalance = 8
    GasLimit = 6
    TxGas = 1
    TicketPrice = 3
    Reward = 2
    Tx <- BlockTxs
    Pools <- Offers
    MaxHeight = 2
PROPERTY
    OnePurchasePerBlock
\* The bound on the height ends the blocks; a finished synchronisation stops.
CHECK_DEADLOCK FALSE
