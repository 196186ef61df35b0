\* Two applications' processes and one of the system's, changing as they are read.
CONSTANTS
    Pids = {50, 101, 102}
    Uids = {1000, 10001, 10002, 10003}
    Packages <- AppPackages
    Termux = "termux"
    PackagesOf <- Cache
    ValidUids = {10001, 10002, 10003}
    BlockedPackages = {"blocked"}
    Processes <- Kinds
SPECIFICATION Spec
INVARIANTS
    TypeOK
    CandidateIsCoherent
    ChoosesTheTopApp
