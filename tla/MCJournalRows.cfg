SPECIFICATION StateSpec
CONSTANTS
    a1 = a1
    a2 = a2
    fsn = fsn
    k1 = k1
    Address = {a1, a2}
    AssetID = {fsn}
    SystemAssetID = fsn
    Value = {0, 1}
    Cell = {"nonce", "code"}
    Ticket = {k1}
    MaxEntries = 3
    MaxRevisions = 2
    MaxTxs = 1
    Genesis <- MCGenesis
    None = None
    root0 = root0
    rootA = rootA
    rootB = rootB
    leaf = leaf
    store = store
    Zero = Zero
\* The last transaction explored is finalised; the trie database never stops.
CHECK_DEADLOCK FALSE
PROPERTY
    RevertRestoresRows
