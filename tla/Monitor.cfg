SPECIFICATION FairSpec
CONSTANTS
    p1 = p1 p2 = p2 p3 = p3 p4 = p4 p5 = p5 p6 = p6 p7 = p7
    Peers <- SevenPeers
    Distance <- Distances
    MaxPeerCount = 5
    MaxIntraShardValidators = 1
    MaxCrossShardValidators = 1
    MaxIntraShardObservers = 1
    MaxCrossShardObservers = 1
    MaxSeeders = 0
    InitiallyConnected <- InitialFive
    Comers <- TwoComers
    Leavers = {p2}
    InitialKinds <- SevenKinds
    Learnable = {p6}
    Deniable = {p7}
    Threshold = 5
    SharderTypes = {"ListsSharder", "OneListSharder"}
    MaxGone = 1
INVARIANTS MonitorInv
PROPERTIES DeniedPeersDropped ReconnectAllowedAgain
CHECK_DEADLOCK FALSE
