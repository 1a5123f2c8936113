SPECIFICATION FairSpec
CONSTANTS
    Polls = {p1, p2}
    MaxVersion = 3
    MaxPages = 2
    MaxFaults = 1
    MaxDownloads = 1
INVARIANTS TypeOK ShowsWholeVersions
PROPERTY FollowsFile
CHECK_DEADLOCK FALSE
