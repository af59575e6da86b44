SPECIFICATION FairSpec
CONSTANTS
    NumProviders = 3
    Weights <- WeightsOfNed
    Credits = 2
    Prioritized = 3
    Watched = {}
    CreditTimes = {2, 3, 4}
    MaxTime = 4
    dataCapacity = 9
    packetCapacity = 3
    CreditTx = 1
    DataTx = 3
    MaxWaiting = 2
INVARIANTS
    CreditNotOverlooked
    TimerMatchesFirst
PROPERTIES
    CreditsLeave
