SPECIFICATION HostSpec
CONSTANTS
    CliCallers = {a, b}
    SrvCallers = {}
    MaxConns = 2
    WithAck = {"cli"}
    BlockingAckOnError = TRUE
    InitialHandler = "nil"
    Faults = {"construct", "connClose"}
    DropIfNoConn = TRUE
    MayClose = {}
SYMMETRY CallerSymmetry
INVARIANTS ClientAckMeansHandled NoDoubleClose
PROPERTIES ClientSendsAreAckedDeliveries
CHECK_DEADLOCK FALSE
