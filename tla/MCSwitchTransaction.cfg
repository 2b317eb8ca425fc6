CONSTANTS
    ForeignMetrics = {30}
    Configs <- AllDeployments
    InitModes <- WanFirst
    InitForeign <- ModemForeign
    WaitLimit = 1
    NoAddrCap = 0
    MaxSwitches = 1
    MaxEvents = 1
SPECIFICATION Spec
INVARIANTS TypeOK SupersededBeforeCommit OldExitKept RollbackRestores
PROPERTIES NeverBlackholes LiveExitUntouched CommittedExit KeepsContract
CHECK_DEADLOCK FALSE
