SPECIFICATION TicketsSpec
CONSTANTS
    a1 = a1
    a2 = a2
    a3 = a3
    fsn = fsn
    Address <- MCAddress
    Nobody = nobody
    AssetID <- MCAssetID
    SystemAssetID = fsn
    Genesis <- MCGenesis
    TimeLockForever = 5
    MaxTimestamp = 4
    Amount = {1}
    TicketPrice = 1
    MinTicketLife = 2
    calcRewards <- HalvedReward
    InitialReward = 1
    HalvingBlocks = 2
    maxNumberOfDeletedTickets = 2
    GenesisTickets <- MCGenesisTickets
    Lives <- MCLives
    MaxHeight = 5
INVARIANTS
    NoInflation
    DrawnTicketsExist
PROPERTY
    StakeIsKept
CHECK_DEADLOCK FALSE
