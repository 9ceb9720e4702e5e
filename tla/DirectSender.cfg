SPECIFICATION Spec
CONSTANTS
    Callers = {a, b}
    Peers = {p, q}
    NoPeer = NoPeer
    NoCaller = NoCaller
    Conns = {1}
    MaxMutexes = 1
    MaxStreams = 3
    MaxSends = 3
    MaxRestarts = 1
    MaxChanges = 2
INVARIANTS StreamInv NewMessagesAreNotRefused
PROPERTIES EverySendReturns
CHECK_DEADLOCK FALSE
