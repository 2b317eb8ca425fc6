CONSTANTS
    ForeignMetrics = {}
    Configs <- LooseDualStack
    InitModes <- WanFirst
    AnswerSets <- IPv4Leads
    Cooldown = 2
    HealthInterval = 2
    ProbeFailStreak = 2
    AlignConfirm = 2
    Disturbances = {}
    MaxEvents = 0
SPECIFICATION FairSpec
PROPERTY SettlesAlways
