\* The resolver's cache follows the marker, and its choice among what v1, v2 and the
\* ActivityManager answer.
CONSTANTS
    game = game
    chat = chat
    keyboard = keyboard
    shared = shared
    NoPackage = NoPackage
    MaxVersion = 3
    Uids <- SomeUids
    Packages <- SomePackages
    Database <- Versions
    Interval = 2
    MayExit = TRUE
    Modulus = 100000
    MinAppId = 10000
    AccessibilityUids <- Service
    BlockedPackages <- Blocked
    MaxPids = 2
SPECIFICATION FairSpec
INVARIANTS
    ResolverTypeOK
    NoLostRebuild
    FirstProperAnswer
PROPERTIES
    EventuallyRebuilt
