CONSTANTS
    Proc = {p1, p2, p3}
    Waits = {1}
    StaleLimit = 3
    ClaimLimit = 8
    MaxCalls = 1
    MaxCrashes = 0
SPECIFICATION Spec
INVARIANT MutualExclusion
CHECK_DEADLOCK FALSE
