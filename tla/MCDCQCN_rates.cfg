SPECIFICATION FairSpec
CONSTANTS
    NumFlows = 2
    Lengths <- MCLengths
    max_pck_size = 2
    HeaderLength = 1
    ByteCounter_th = 3
    frSteps_th = 2
    MaxFrSteps = 3
    Rai = 1
    Rhai = 2
    linkspeed = 8
    initialRate = 6
    gamma = 1
    AlphaUnit = 2
INVARIANTS
    TypeOK
    IterValid
    TimersOwned
    RatesOrdered
    RecoversToCutRate
PROPERTIES
    EveryFlowSent
\* The sender is done when its flows are sent.
CHECK_DEADLOCK FALSE
