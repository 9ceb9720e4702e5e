SPECIFICATION RegistrySpec
CONSTANTS
    Topics = {t, u}
    RequestTopics = {u}
    Identifiers = {p}
    ReceivedMessages = {}
    MaxObjects = 2
    MayClose = FALSE
INVARIANT AllAreUnregistered
CHECK_DEADLOCK FALSE
