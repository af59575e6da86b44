SPECIFICATION Spec
CONSTANTS
    NumFlows = 1
    Lengths <- MCLong
    max_pck_size = 2
    HeaderLength = 1
    ByteCounter_th = 6
    frSteps_th = 2
    MaxFrSteps = 3
    Rai = 1
    Rhai = 2
    linkspeed = 8
    initialRate = 6
    gamma = 1
    AlphaUnit = 4
PROPERTIES
    ByteCounterIncreasesRate
CHECK_DEADLOCK FALSE
