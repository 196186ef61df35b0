\* Two roots, one of which comes and goes, one directory under each, and an epoll that may refuse.
CONSTANTS
    r1 = r1
    r2 = r2
    Roots <- TwoRoots
    TransientRoots <- OneRoot
    Paths = {1, 2}
    RootOf <- Spread
    UidOf <- Uids
    Settings <- Changing
    Denials = {{}, {2}}
    MaxInc <- Once
    QueueMax = 1
    MaxReady = 1
    ErrorOnChange = {FALSE, TRUE}
    RegisterCanFail = TRUE
    MaxGen = 3
SPECIFICATION Spec
INVARIANTS
    RegistrationsAgree
    NoDeafWatch
    NoLostCgroup
    QuietIsCurrent
PROPERTIES
    ImplementsReports
