CONSTANTS
    ForeignMetrics = {}
    Configs <- StrictDualStack
    InitModes <- WanFirst
    InitForeign <- NoForeign
    WaitLimit = 3
    NoAddrCap = 0
    MaxSwitches = 1
    MaxEvents = 1
SPECIFICATION FairSpec
PROPERTY Terminates
CHECK_DEADLOCK FALSE
