SPECIFICATION LedgerSpec
CONSTANTS
    a1 = a1
    a2 = a2
    a3 = a3
    fsn = fsn
    tok = tok
    Address = {a1, a2, a3}
    AssetID = {fsn, tok}
    SystemAssetID = fsn
    Nobody = Nobody
    Genesis <- MCGenesis
    GenesisAssets <- MCGenesisAssets
    TimeLockForever = 4
    MaxTimestamp = 2
    ClockLead = 1
    Amount = {1}
    MaxSupply = 2
INVARIANTS
    NonNegative
    AssetsConserved
    AddIsPointwiseSum
    SpendIsExact
SYMMETRY AccountSymmetry
PROPERTIES
    StepIsTransfer
\* Add and Sub are functions: they stop when they have their result.
CHECK_DEADLOCK FALSE
