SPECIFICATION Spec
CONSTANTS
    MaxQueue = 3
    PauseUnits <- MCPauseUnits
    TIMELY = FALSE
    PfcCommands = FALSE
    Lifecycle <- MCNoLifecycle
PROPERTIES
    NoFrameWhilePauseStored
