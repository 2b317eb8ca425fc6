CONSTANTS
    Modes = {"wan_first", "modem_first"}
    Poll = {q1, q2}
    MaxSwitches = 1
    MaxChanges = 1
SPECIFICATION FairSpec
INVARIANTS TypeOK ConfigCurrent 
PROPERTY StatusFollows
