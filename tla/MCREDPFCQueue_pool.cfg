SPECIFICATION Spec
CONSTANTS
    i1 = i1
    i2 = i2
    NumQueues = 2
    PortOf <- MCOnePort
    Ifaces <- MCIfaces
    Traffic <- MCMixedLengths
    PacketCapacity <- NoLimit
    DataCapacity = 2
    SharedBuffer = 4
    AlphaNum = 1
    AlphaDen = 1
    Headroom = 1
    UsePfc = TRUE
    XON = 0
    XOFF = 4
    UseEcn = TRUE
    Kmin = 1
    Kmax = 3
    Pmax = 50
    SDrop = 5
    OtherLengths = {0, 3}
    MaxLen = 4
    MaxShared = 6
INVARIANTS
    TypeOK
    PoolNotLeaked
    PoolNotOverdrawn
    PausedOnlyIfBacklogged
PROPERTIES
    EcnMarking
\* The environment stops sending once the bound MaxShared is reached.
CHECK_DEADLOCK FALSE
