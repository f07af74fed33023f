SPECIFICATION SharingSpec
CONSTANTS
    Channel = {c1, c2}
    Sender = {s1, s2}
    Capacity = 1
    MaxSubs = 2
    Proc = {p1, p2}
    Hash = {h1, h2, h3}
    ZeroHash = ZeroHash
    N = 3
    Nil = Nil
    Empty = Empty
    Torn = Torn
    None = None
    alice = alice
    bob = bob
    Failed = Failed
SYMMETRY Symmetry
INVARIANTS
    ServedOnce
    ReplayFindsTheSet
PROPERTIES
    NothingAfter
    HoldsTheLatest
    QuietGetIsExact
\* Both goroutines may wait for ever on a lock they copied, and the bounds end
\* the sends and subscriptions.
CHECK_DEADLOCK FALSE
