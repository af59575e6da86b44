SPECIFICATION Spec
CONSTANTS
    NumProviders = 3
    Weights <- WeightsOfTurns
    Credits = 2
    Prioritized = 3
    Watched = {1, 3}
    CreditTimes = {1}
    MaxTime = 1
    dataCapacity <- Unlimited
    packetCapacity = 2
    CreditTx = 1
    DataTx = 1
    MaxWaiting = 2
INVARIANTS
    TypeOK
    BoundedBypass
