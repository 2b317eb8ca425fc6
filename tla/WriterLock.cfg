CONSTANTS
    Proc = {p1, p2, p3}
    Waits = {1}
    StaleLimit = 1
    ClaimLimit = 1
    MaxCalls = 1
    MaxCrashes = 1
SPECIFICATION FairSpec
INVARIANTS TypeOK ExclusiveUnlessStolen
PROPERTIES CallEnds DeadOwnerReclaimed
CHECK_DEADLOCK FALSE
