SPECIFICATION LiveSpecDaemon
CONSTANTS
    n1 = n1
    n2 = n2
    v1 = v1
    Nodes = {n1, n2}
    Values = {v1}
    Data = {"d1"}
    Owner <- MCOwner
    QueueBound = 2
    None = None
    Controller = n1
    Starts = 1
INVARIANTS
    TypeOKDaemon
    ConfigAsked
PROPERTIES
    RemovedNodesLeave
    CloseEndsNetwork
    SigTermEnds
CHECK_DEADLOCK FALSE
