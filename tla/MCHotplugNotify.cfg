CONSTANTS
    p1 = p1
    p2 = p2
    Proc = {p1, p2}
    Abouts <- Bursts
    Watch = watch
    Switch = switch
    LockRetry = 1
    MaxSwitches = 1
    MaxCrashes = 1
SPECIFICATION FairSpec
INVARIANTS TypeOK CoalescedIsServed OneRunPerBurst
PROPERTIES EventServed EventProbed
