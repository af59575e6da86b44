SPECIFICATION FairSpec
CONSTANTS
    MaxQueue = 3
    PauseUnits <- MCPauseUnits
    TIMELY = TRUE
    PfcCommands = TRUE
    Lifecycle <- MCStopAndCrash
INVARIANTS
    TypeOK
    TimersMatchState
    NoCheckFails
    IdleOnlyWhenEmpty
PROPERTIES
    BacklogIsServed
\* A check that fails ends the simulation.
CHECK_DEADLOCK FALSE
