SPECIFICATION FairSpec
CONSTANTS
    Folders = {fa, fb}
    Orders = {byName}
    MaxEntries = 1
    MaxHistory = 2
    MaxWrites = 1
    MaxFaults = 1
INVARIANTS TypeOK SettledView
PROPERTIES HistoryKept RetryHappens
CHECK_DEADLOCK FALSE
