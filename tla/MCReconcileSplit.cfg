CONSTANTS
    ForeignMetrics = {}
    Configs <- StrictDualStack
    InitModes <- WanFirst
    AnswerSets <- IPv4Leads
    Cooldown = 2
    HealthInterval = 2
    ProbeFailStreak = 2
    AlignConfirm = 2
    Disturbances = {"crash"}
    MaxEvents = 1
SPECIFICATION FairSpec
PROPERTY SplitRepaired
