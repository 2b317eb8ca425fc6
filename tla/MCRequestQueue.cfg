CONSTANTS
    Request = {r1, r2, r3}
    Asks = {"wan_only", "modem_first", "align"}
    InitMode = "wan_first"
    LoopLimit = 3
    LockRounds = 1
    MaxAligns = 1
    Watch = watch
SPECIFICATION Spec
INVARIANTS TypeOK LatestServed BusyMeansWriter
PROPERTY NewestStays
CONSTRAINT Bounded
SYMMETRY Interchangeable
CHECK_DEADLOCK FALSE
