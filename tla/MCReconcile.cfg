CONSTANTS
    ForeignMetrics = {}
    Configs <- AllDeployments
    InitModes <- WanFirst
    AnswerSets <- IPv4Leads
    Cooldown = 2
    HealthInterval = 2
    ProbeFailStreak = 2
    AlignConfirm = 2
    Disturbances = {"hotplug", "align", "network", "outside", "crash"}
    MaxEvents = 1
SPECIFICATION Spec
INVARIANT TypeOK
PROPERTIES FailedAlignRestores OtherExitKept NeverBlackholes AttemptsSpaced PrimaryKept
