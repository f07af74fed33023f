SPECIFICATION ChainSpec
CONSTANTS
    Address <- Four
    Genesis <- Four
    Keys <- One
    Epoch = 5
    Word = 65536
    MaxBlocks = 7
    MaxCalls = 0
    Block <- ShortChain
    Origin = g
    ParentHash <- ParentOf
    Batches <- ShortBatches
    Importer = {p1, p2}
    Checker = {k1}
    Miner = {m1, m2, m3}
    Second = 2
    Period = 6
    delayTimeModifier = 6
    adjustIntervalBlocks = 4
    MinBlockTime = 3
    maxBlockTime = 8
    Spans <- SomeSpans
    Latency = 2
    MaxStops = 1
    MaxIdle = 20
    Nothing = Nothing
    g = g
    a1 = a1
    a2 = a2
    a3 = a3
    b1 = b1
    b2 = b2
    b3 = b3
    c2 = c2
    p1 = p1
    p2 = p2
    k1 = k1
    m1 = m1
    m2 = m2
    m3 = m3
SYMMETRY MinerSymmetry
INVARIANTS
    EnoughCanSign
    TallyIsVotes
    LightAgrees
    CanonicalIsAncestry
    HeadHasState
    LinkedIsAccepted
PROPERTIES
    MajorityChanges
    NotOvertaken
    SealedIsValid
\* The bounds on blocks, crashes and idle time end every part.
CHECK_DEADLOCK FALSE
