SPECIFICATION MessagesSpec
CONSTANTS
    m = m
    d = d
    author = author
    relay = relay
    Messages = {m}
    DirectMessages = {d}
    Peers = {author, relay}
    Originator <- MCOriginator
    CacheDuration = 2
    PastDuration = 2
    AdvanceDuration = 1
    DirectCacheDuration = 1
    BanDuration = 3
    Fractions = 2
    MaxSecond = 5
    Topics = {t, u}
    RequestTopics = {u}
    Identifiers = {i, j}
    ReceivedMessages = {r}
    MaxObjects = 3
    MayClose = TRUE
    RatedPeers = {x, y, z}
    Capacity = 2
    MinRating <- MinusOne
    MaxRating = 1
    IncreaseFactor = 2
    DecreaseFactor <- MinusOne
    MaxAsked = 2
    MaxConns = 2
    MaxConnChanges = 1
SYMMETRY MessagesSymmetry
INVARIANTS PastMessagesProcessedOnce ProcessedAtMostTwice DirectReplaysAreBounded OnlyOriginatorsSpoil DenialIsEarned RegistryInv  UnregisterAllIsComplete RatingInv SelectionIsEnough ReportedRatingWasHeld
CHECK_DEADLOCK FALSE
