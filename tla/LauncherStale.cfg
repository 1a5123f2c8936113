SPECIFICATION Spec
CONSTANTS
    Instances = {i1}
    MaxProcs = 2
INVARIANT AvailableHasTunnel
CHECK_DEADLOCK FALSE
