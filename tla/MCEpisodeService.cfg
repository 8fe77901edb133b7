SPECIFICATION FairSpec
CONSTANTS
    k1 = k1
    k2 = k2
    k3 = k3
    Clients <- MCClients
    Ends <- MCEnds
    Frames = 3
CHECK_DEADLOCK FALSE
INVARIANTS
    TypeOK
    ShownEndIsReal
    StopIsFinal
PROPERTIES
    WorkerDelivers
    ImplementsControl
