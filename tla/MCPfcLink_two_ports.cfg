SPECIFICATION FairSpec
CONSTANTS
    i1 = i1
    i2 = i2
    Ifaces <- MCTwoIfaces
    NumPriorities = 1
    DataCapacity = 8
    SharedBuffer = 0
    Headroom = 0
    XON = 0
    XOFF = 2
    Packets = 4
    WireFrames = 1
    PfcDelay = 1
INVARIANTS
    TypeOK
    PausesAgree
    EgressWorkConserving
PROPERTIES
    PauseEnds
