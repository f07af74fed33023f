SPECIFICATION ProgressSpec
CONSTANTS
    Nothing = Nothing
    g = g
    a1 = a1
    a2 = a2
    b1 = b1
    b2 = b2
    c2 = c2
    p1 = p1
    m1 = m1
    m2 = m2
INVARIANT
    OneBlockPerParent
PROPERTIES
    BestIsAdopted
    HeadIsWorkedOn
    ChainGrows
\* Blocks are bounded: the chain and the worker may come to an end.
CHECK_DEADLOCK FALSE
