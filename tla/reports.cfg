\* An aborted poll: the caller never receives what was reported.
CONSTANTS
    r1 = r1
    r2 = r2
    Roots <- OneRoot
    TransientRoots = {}
    Paths = {1, 2}
    RootOf <- AllInOne
    UidOf <- Uids
    Settings <- AllNamed
    Denials = {{}}
    MaxInc <- FirstTwice
    QueueMax = 2
    MaxReady = 2
    ErrorOnChange = {FALSE}
    RegisterCanFail = FALSE
    MaxGen = 20
SPECIFICATION Spec
INVARIANTS
    ReportsWhatHappened
