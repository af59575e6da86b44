SPECIFICATION Spec
CONSTANTS
    i1 = i1
    i2 = i2
    NumQueues = 2
    PortOf <- MCOnePort
    Ifaces <- MCIfaces
    Traffic <- MCMixedLengths
    PacketCapacity <- NoLimit
    DataCapacity = 2
    SharedBuffer = 4
    AlphaNum = 1
    AlphaDen = 1
    Headroom = 1
    UsePfc = TRUE
    XON = 0
    XOFF = 4
    UseEcn = FALSE
    Kmin = 0
    Kmax = 0
    Pmax = 0
    SDrop = 0
    OtherLengths = {0}
    MaxLen = 4
    MaxShared = 6
INVARIANTS
    PoolWithinConfigured
\* The environment stops sending once the bound MaxShared is reached.
CHECK_DEADLOCK FALSE
