SPECIFICATION Spec
CONSTANTS
    Peers = {p, q, r}
    Addresses = {x}
    Shards = {1}
    MayRemove = TRUE
    MaxListed = 3
PROPERTIES RemoveRemovesPeer
CHECK_DEADLOCK FALSE
