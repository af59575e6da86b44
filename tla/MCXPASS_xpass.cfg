SPECIFICATION FairSpec
CONSTANTS
    r1 = r1
    r2 = r2
    Receivers <- MCReceivers
    FlowSizes = {1, 3}
    Priorities = {0, 1}
    max_pck_size = 2
    Word = 64
    useECN = FALSE
    TargetNum = 1
    TargetDen = 10
    MaxFlows = 2
    MaxCredits = 4
INVARIANTS
    TypeOK
    StatesAgree
    CreditsFlow
    NotStranded
    RatePositive
    SizesCoverRemain
PROPERTIES
    StopArrives
CHECK_DEADLOCK FALSE
