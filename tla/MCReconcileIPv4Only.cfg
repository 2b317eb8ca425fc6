CONSTANTS
    ForeignMetrics = {}
    Configs <- IPv4Only
    InitModes <- WanFirst
    AnswerSets <- IPv4Leads
    Cooldown = 2
    HealthInterval = 2
    ProbeFailStreak = 2
    AlignConfirm = 2
    Disturbances = {}
    MaxEvents = 0
SPECIFICATION FairSpec
PROPERTY RecoversAlways
