\* From packages.xml and the foreground to the reducer's identity.
CONSTANTS
    app = app
    shell = shell
    activity = activity
    Candidates <- Everyone
    WithUid <- Apps
    WithPidOnly <- PidsOnly
    MaxVersion = 2
    Enabled = TRUE
    Interval = 2
    Failures <- FailsBothWays
SPECIFICATION RuntimeFairSpec
INVARIANTS
    TypeOK
    NoLostInvalidation
    RuntimeTypeOK
PROPERTIES
    IdentityFromCurrentList
    EventuallyIdentified
