-------------------------- MODULE ForegroundResolver --------------------------
(***************************************************************************)
(* The resolver of services/foreground/resolver.rs: a package cache with   *)
(* an invalidation of its own, and the choice of the foreground package    *)
(* from v1's pids, v2's uid and the ActivityManager's answer, in turn.     *)
(*                                                                         *)
(* It counts the changes of the foreground; at every Interval-th it looks  *)
(* at a marker file (packages.xml), and a fingerprint that differs from    *)
(* the one it knows makes it load the packages again.  The fingerprint it  *)
(* then keeps was taken before the load.  The caller gives it its first    *)
(* packages and fingerprint.                                               *)
(*                                                                         *)
(* Versions of the packages and of the marker are as in IdentityCache; a   *)
(* version's packages are pairs of a package and its uid.  The text of a   *)
(* report is left out, and so is that of the ActivityManager's answer.     *)
(***************************************************************************)
EXTENDS Naturals, Sequences, SequencesExt

CONSTANTS
    MaxVersion,         \* bound: how often packages change
    Uids, Packages,
    Database,           \* the packages of each version: pairs <<package, uid>>
    Interval,           \* 0: the marker is never looked at
    MayExit,            \* whether the package command may exit with a failure
    Modulus, MinAppId,  \* AppUidFilter
    AccessibilityUids, BlockedPackages,
    MaxPids,            \* bound: pids in one payload
    NoPackage

NoUid == 0
NotYet == MaxVersion + 1

ASSUME ResolverAssumption ==
    /\ MaxVersion \in Nat \ {0}
    /\ Uids \subseteq Nat \ {0}
    /\ Database \in [1..MaxVersion -> SUBSET (Packages \X Uids)]
    /\ Interval \in Nat
    /\ MayExit \in BOOLEAN
    /\ Modulus \in Nat /\ MinAppId \in Nat
    /\ AccessibilityUids \subseteq Uids /\ BlockedPackages \subseteq Packages
    /\ MaxPids \in Nat
    /\ NoPackage \notin Packages

VARIABLES
    installed,          \* version of the package manager's database
    marker,             \* version of the marker file, 0 when it was never written
    reachable,          \* whether the marker can be looked at
    list,               \* cache: the version it was loaded from, 0 for an empty one
    fingerprint,        \* marker_fingerprint, 0 for None
    count,              \* foreground_changes, modulo Interval
    seen,               \* the fingerprint a running rebuild took, 0 when none runs
    listed,             \* the version its command listed, 0 for no packages, or NotYet
    adopted             \* history: the version taken for unchanged at first sight

environment == <<installed, marker, reachable>>
vars == <<environment, list, fingerprint, count, seen, listed, adopted>>

-----------------------------------------------------------------------------
(* The package manager.                                                    *)

Install == installed < MaxVersion /\ installed' = installed + 1 /\ UNCHANGED <<marker, reachable>>
Persist == marker # installed /\ marker' = installed /\ UNCHANGED <<installed, reachable>>
ToggleReachable == reachable' = ~reachable /\ UNCHANGED <<installed, marker>>

PackageManager ==
    /\ Install \/ Persist \/ ToggleReachable
    /\ UNCHANGED <<list, fingerprint, count, seen, listed, adopted>>

-----------------------------------------------------------------------------
(* ForegroundResolverState::foreground_changed.                            *)

Counted == IF Interval = 0 THEN 0 ELSE (count + 1) % Interval

CanStat == reachable /\ marker # 0

\* Mutant: an unknown fingerprint counts as a changed one.
ChangedFromUnknown == fingerprint # marker

\* An unknown fingerprint is not a changed one.
Changed == fingerprint # 0 /\ fingerprint # marker

ForegroundChanged ==
    /\ seen = 0
    /\ count' = Counted
    /\ IF Interval # 0 /\ count' = 0 /\ CanStat
       THEN IF Changed
            THEN seen' = marker /\ UNCHANGED <<fingerprint, adopted>>
            ELSE /\ fingerprint' = marker
                 /\ adopted' = IF fingerprint = 0 THEN marker ELSE adopted
                 /\ UNCHANGED seen
       ELSE UNCHANGED <<fingerprint, adopted, seen>>
    /\ UNCHANGED <<environment, list, listed>>

\* Mutant: the fingerprint is taken after the load.
FingerprintNow == marker
FingerprintOfRebuild == seen

\* Mutant: a load that failed is not tried again.
FingerprintSpent == seen
FingerprintOfFailure == fingerprint

\* The command lists the packages of the moment, or exits with a failure and lists none.
ListPackages(version) ==
    /\ seen # 0
    /\ listed = NotYet
    /\ listed' = version
    /\ UNCHANGED <<environment, list, fingerprint, count, seen, adopted>>

EndRebuild ==
    /\ listed # NotYet
    /\ list' = listed
    /\ fingerprint' = FingerprintOfRebuild
    /\ seen' = 0
    /\ listed' = NotYet
    /\ UNCHANGED <<environment, count, adopted>>

\* The command cannot be run, or its output cannot be read.
RebuildFails ==
    /\ seen # 0
    /\ fingerprint' = FingerprintOfFailure
    /\ seen' = 0
    /\ listed' = NotYet
    /\ UNCHANGED <<environment, list, count, adopted>>

Rebuild ==
    \/ ListPackages(installed)
    \/ MayExit /\ ListPackages(0)
    \/ EndRebuild
    \/ RebuildFails

-----------------------------------------------------------------------------
(* The choice of the foreground package.                                   *)

\* UidPackageCache: the packages that have a uid, by a list of the packages.
PackagesOf(version, uid) ==
    IF version = 0 THEN {} ELSE {package \in Packages : <<package, uid>> \in Database[version]}

Accepts(uid) == Modulus # 0 /\ uid % Modulus >= MinAppId

\* Mutant: one of the packages of a shared uid will do.
AnyPackage(uid) ==
    LET named == PackagesOf(list, uid)
    IN  IF named = {} THEN NoPackage ELSE CHOOSE package \in named : TRUE

\* A uid answers with its package if that is the only one and is wanted.
PackageOf(uid) ==
    LET answers == {package \in Packages \ BlockedPackages :
                        /\ uid # NoUid
                        /\ Accepts(uid)
                        /\ uid \notin AccessibilityUids
                        /\ PackagesOf(list, uid) = {package}}
    IN  IF answers = {} THEN NoPackage ELSE CHOOSE package \in answers : TRUE

\* Mutant: the last of v1's pids wins.
LastOf(uids) == FoldLeft(LAMBDA found, uid : IF PackageOf(uid) # NoPackage THEN PackageOf(uid) ELSE found,
                         NoPackage, uids)

\* The pids in the payload's order; what looking up each one's uid answered, or no uid.
FromV1(uids) == FoldLeft(LAMBDA found, uid : IF found # NoPackage THEN found ELSE PackageOf(uid),
                         NoPackage, uids)

\* The ActivityManager names a package, with no uid to filter by.
FromActivity(package) == IF package \in BlockedPackages THEN NoPackage ELSE package

\* resolve_after_v1_v2_unavailable_lazy; without v2, resolve_after_v1_unavailable_lazy.
Resolved(uids, v2, activity) ==
    IF FromV1(uids) # NoPackage THEN FromV1(uids)
    ELSE IF PackageOf(v2) # NoPackage THEN PackageOf(v2)
    ELSE FromActivity(activity)

Answers == Uids \cup {NoUid}
Payloads == UNION {[1..n -> Answers] : n \in 0..MaxPids}

\* The caller looks at the marker, which may fail, and loads the packages after that,
\* or starts with an empty cache.
Init ==
    /\ installed \in 1..MaxVersion
    /\ marker \in 0..installed
    /\ reachable \in BOOLEAN
    /\ fingerprint \in 0..marker
    /\ list \in {0} \cup fingerprint..installed
    /\ count = 0
    /\ seen = 0
    /\ listed = NotYet
    /\ adopted = 0

Next ==
    \/ PackageManager
    \/ ForegroundChanged
    \/ Rebuild

Spec == Init /\ [][Next]_vars

\* The foreground keeps changing, and of the rebuilds it starts there is always another
\* whose command works.
Fairness ==
    /\ SF_vars(ForegroundChanged)
    /\ WF_vars(Rebuild)
    /\ SF_vars(ListPackages(installed))
    /\ SF_vars(EndRebuild)

FairSpec == Spec /\ Fairness

-----------------------------------------------------------------------------
(* Properties.                                                             *)

\* Types; and what the resolver has seen of the marker was written.
ResolverTypeOK ==
    /\ installed \in 1..MaxVersion
    /\ marker \in 0..installed
    /\ reachable \in BOOLEAN
    /\ list \in 0..installed
    /\ fingerprint \in 0..marker
    /\ seen \in 0..marker
    /\ seen # 0 => fingerprint # 0
    /\ listed \in (0..installed) \cup {NotYet}
    /\ listed # NotYet => seen # 0
    /\ adopted \in 0..fingerprint
    /\ count \in Nat
    /\ Interval # 0 => count < Interval

\* Packages older than the fingerprint are never taken for current, whatever changed
\* between the look at the marker and the list of the packages: the next look would not
\* find them out.  Excused are an empty list, and a marker that was seen for the first
\* time by the resolver itself: it is taken for unchanged, and the packages may be older.
NoLostRebuild ==
    list # 0 /\ list < fingerprint => adopted = fingerprint

\* The package of a uid that the user would take for the foreground: an application's,
\* no accessibility service, not blocked, and the only package of that uid.
Proper(uid, package) ==
    /\ Accepts(uid) /\ uid \notin AccessibilityUids /\ package \notin BlockedPackages
    /\ list # 0
    /\ {pair \in Database[list] : pair[2] = uid} = {<<package, uid>>}

\* Whatever is asked of the cache of the moment, the answer is the first proper package
\* of v1's processes and then of v2's uid; only when there is none does the
\* ActivityManager's answer count.
FirstProperAnswer ==
    \A uids \in Payloads, v2 \in Answers, activity \in Packages \cup {NoPackage} :
        LET asked == uids \o <<v2>>
            proper == {i \in DOMAIN asked : \E package \in Packages : Proper(asked[i], package)}
            answer == Resolved(uids, v2, activity)
        IN  IF proper # {}
            THEN \E i \in proper : (\A j \in proper : i <= j) /\ Proper(asked[i], answer)
            ELSE answer \in {activity, NoPackage} \ BlockedPackages

\* A change of the marker brings a load of the packages as new as the marker, if it can
\* be looked at from some time on, though commands may fail to run.  A first sight of
\* the marker promises nothing, nor does a command that exits with a failure.
EventuallyRebuilt ==
    Interval # 0 /\ <>[]reachable =>
        \A version \in 1..MaxVersion :
            (marker = version /\ fingerprint \notin {0, version}) ~> (list >= version \/ list = 0)

=============================================================================
