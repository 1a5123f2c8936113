SPECIFICATION FairSpec
CONSTANTS
 Dirs = {d1}
 Pythons = {p1, p2}
 Requests = {r1, r2}
 MaxLaunches = 2
INVARIANTS TypeOK RegistryAgrees
PROPERTIES  ServiceSpec RequestsAnswered
CHECK_DEADLOCK FALSE
