SPECIFICATION NodeSpec
CONSTANTS
    Topics = {t}
    Callers = {c, d}
    TtlInterval = 1
    MaxChanges = 1
    Configs <- AllConfigs
    MinRangePortValue = 2
    MaxRetriesIfBindError = 2
    WithCallers <- AskedConfigs
    MayFail <- Faults
    s1 = s1 s2 = s2 s3 = s3
    InitialPeersList <- ThreeSeeders
    SeederDistance <- Distances
    MaxSeeders = 1
    Unreachable = {s1}
    MaxRefusals = 1
    MaxDrops = 1
    MaxCreateFails = 1
    BootstrapCallers = {a, b}
    MaxLookupFails = 1
    Types = {"legacy", "optimized", "nil"}
    Peers = {p, q}
    Addresses = {x, y}
    Shards = {1, 2}
    MayRemove = TRUE
    MaxListed = 2
INVARIANTS ConstructionInv CloseReachesEveryone DiscoveryInv OneBootstrapSucceeds HolderInv
PROPERTIES CloseEndsGoroutines CacheCatchesUp BootstrapReturns SeederIsReached GoroutinesEnd
CHECK_DEADLOCK FALSE
