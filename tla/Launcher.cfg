SPECIFICATION Spec
CONSTANTS
    Instances = {i1, i2}
    MaxProcs = 2
SYMMETRY Symmetry
INVARIANTS TypeOK SingleTunnel StoppedIsOver CallsGoOn
PROPERTY RetiredNotRevived
CHECK_DEADLOCK FALSE
