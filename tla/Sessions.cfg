SPECIFICATION FairSpec
CONSTANTS
    NTargets = 2
    Remote = {1}
    Reconnect = TRUE
    Timed = {1}
    MaxAttempts = 2
    BaseDelay = 2
    MaxDelay = 3
    MaxConns = 2
INVARIANTS TypeOK ExitComplete ServesItsConnection
PROPERTY EndsWhenTold
CHECK_DEADLOCK FALSE
