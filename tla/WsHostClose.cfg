SPECIFICATION FairHostSpec
CONSTANTS
    CliCallers = {a}
    SrvCallers = {}
    MaxConns = 1
    WithAck = {"cli"}
    BlockingAckOnError = TRUE
    InitialHandler = "app"
    Faults = {"connClose", "newTransceiver"}
    DropIfNoConn = TRUE
    MayClose = {"cli", "srv"}
PROPERTIES HostCloseEndsGoroutines DeadConnectionsRemoved
CHECK_DEADLOCK FALSE
