SPECIFICATION Spec
CONSTANTS
    i1 = i1
    i2 = i2
    Ifaces <- MCOneIface
    NumPriorities = 2
    DataCapacity = 3
    SharedBuffer = 0
    Headroom = 0
    XON = 0
    XOFF = 2
    Packets = 7
    WireFrames = 2
    PfcDelay = 1
PROPERTIES
    LosslessUnlessPauseLost
