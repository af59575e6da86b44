SPECIFICATION FairSpec
CONSTANTS
    f1 = f1
    f2 = f2
    f3 = f3
    i1 = i1
    Flows <- MCFlows
    Ifaces <- MCIfaces
    IfaceOf <- MCIfaceOf
    HomeOf <- MCHomeOf
    numb <- MCnumb
    UpQueues = {0, 1}
    NumQueues = 2
    FlowLength = 2
    PacketCapacity <- NoLimit
    DataCapacity = 0
    SharedBuffer = 2
    Headroom = 0
    XOFF = 2
    WireFrames = 1
INVARIANTS
    TypeOK
    PauseHasWitness
    PausesCounted
    FlowsKeepOrder
PROPERTIES
    PauseEnds
CHECK_DEADLOCK FALSE
