SPECIFICATION FairSpec
CONSTANTS
    Polls = {p1}
    MaxVersion = 3
    MaxPages = 1
    MaxFaults = 0
    MaxDownloads = 1
PROPERTY FollowsAlways
CHECK_DEADLOCK FALSE
