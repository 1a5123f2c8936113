SPECIFICATION FairSpec
CONSTANTS
    Uploads = {u1, u2}
    Other = other
INVARIANTS TypeOK NeverTorn
PROPERTIES PublishesAsTold StagingRemoved
CHECK_DEADLOCK FALSE
