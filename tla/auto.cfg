\* v1 comes and goes over one directory, which is made three times at most.
CONSTANTS
    r1 = r1
    Roots <- OneRoot
    TransientRoots = {}
    Paths = {1}
    RootOf <- AllInOne
    UidOf <- Uids
    Settings <- Fixed
    Denials = {{}}
    MaxInc <- Thrice
    QueueMax = 1
    TopApps = {0, 10001}
    ActivityApps = {10002}
    ActivityFails = TRUE
SPECIFICATION FairSpec
INVARIANTS
    TypeOK
    
    NoLostCgroup
PROPERTIES
    SourceOrder
    ImplementsReports
    V1Reports
    
