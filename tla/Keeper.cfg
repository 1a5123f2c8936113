SPECIFICATION FairSpec
CONSTANTS
    NShells = 3
    Grace = 3
    Check = 2
INVARIANTS TypeOK ServiceKept
PROPERTIES GraceNearlyFull ServiceEnds
CHECK_DEADLOCK FALSE
