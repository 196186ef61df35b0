\* v1 comes and goes over one directory: what a recovered v1 is heard of.
CONSTANTS
    r1 = r1
    Roots <- OneRoot
    TransientRoots = {}
    Paths = {1}
    RootOf <- AllInOne
    UidOf <- Uids
    Settings <- Fixed
    Denials = {{}}
    MaxInc <- Twice
    QueueMax = 1
    TopApps = {0, 10001}
    ActivityApps = {0, 10002}
    ActivityFails = TRUE
SPECIFICATION Spec
PROPERTIES
    RecoveredV1IsWatched
