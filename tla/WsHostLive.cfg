SPECIFICATION FairHostSpec
CONSTANTS
    CliCallers = {}
    SrvCallers = {s}
    MaxConns = 2
    WithAck = {"srv"}
    BlockingAckOnError = TRUE
    InitialHandler = "app"
    Faults = {"connClose"}
    DropIfNoConn = FALSE
    MayClose = {}
INVARIANTS ServerAckMeansHandled
PROPERTIES ReconnectsUnlessHeld ServerSendReturnsEventually
CHECK_DEADLOCK FALSE
