SPECIFICATION AllSpec
CONSTANTS
    a1 = a1
    a2 = a2
    fsn = fsn
    tok = tok
    usan = usan
    Address = {a1, a2}
    Nobody = Nobody
    AssetID = {fsn, tok}
    SystemAssetID = fsn
    OwnerUSANAssetID = usan
    Genesis <- MCGenesis
    GenesisAssets <- MCGenesisAssets
    TimeLockForever = 3
    MaxTimestamp = 2
    ClockLead = 0
    Amount = {1, 2}
    MaxSupply = 2
    checkDigits <- MCCheckDigits
    Unset = Unset
    MaxNotation = 2
    SwapID = {s1, s2, s3}
    s1 = s1
    s2 = s2
    s3 = s3
    Offer <- MCOffer
INVARIANTS
    AllConserved
    NotationOwned
SYMMETRY SwapSymmetry
PROPERTY
    OwnerMadeWhole
\* Every swap may have been made and closed.
CHECK_DEADLOCK FALSE
