---------------------------- MODULE IdentityCache ----------------------------
(***************************************************************************)
(* The runtime's package cache and its invalidation (runtime.rs,           *)
(* services/identity_cache.rs, services/foreground/cache.rs).              *)
(*                                                                         *)
(* The package manager's database is a version number; the version last    *)
(* written to packages.xml lags behind it.  The runtime loads the list of  *)
(* packages by a command, and looks at packages.xml's fingerprint on every *)
(* Interval-th change of the foreground: a fingerprint not seen before     *)
(* makes the cache dirty, and a caller that asks is told to refresh.  The  *)
(* command takes time: the database and the file may change between the    *)
(* list's making and its installation in the cache.  The provider is       *)
(* CmdPackageList; with none configured the cache stays empty.             *)
(*                                                                         *)
(* A fingerprint (device, inode, size, times) stands for the version it    *)
(* was taken of: the file is replaced by a rename, so no two versions of   *)
(* it share one.                                                           *)
(***************************************************************************)
EXTENDS Naturals

CONSTANTS
    MaxVersion,     \* bound: how often packages change
    Enabled,        \* packages_xml_path is not empty
    Interval,       \* foreground_check_interval
    Failures        \* how the command may fail: to run, or by its exit status

ASSUME CacheAssumption == /\ MaxVersion \in Nat \ {0}
                          /\ Enabled \in BOOLEAN
                          /\ Interval \in Nat \ {0}
                          /\ Failures \subseteq {"spawn", "exit"}

VARIABLES
    installed,      \* version of the package manager's database
    xml,            \* version of packages.xml, 0 when it was never written
    reachable,      \* whether packages.xml can be looked at
    pc,             \* "idle", or the call whose command runs
    loaded,         \* what the running command made of the database
    started,        \* EngineRuntime::started
    cache,          \* version of the cached list, 0 for the empty one
    warmup,         \* identity_cache_state: whether a source or an error is set
    count,          \* foreground_count, modulo Interval
    fingerprint,    \* packages_xml_fingerprint, 0 for None
    dirty           \* packages_xml_changed

packageVars == <<installed, xml, reachable>>
runtimeVars == <<started, cache, warmup>>
invalidatorVars == <<count, fingerprint, dirty>>
vars == <<packageVars, pc, loaded, runtimeVars, invalidatorVars>>

-----------------------------------------------------------------------------
(* The package manager.                                                    *)

Install ==
    /\ installed < MaxVersion
    /\ installed' = installed + 1
    /\ UNCHANGED <<xml, reachable>>

\* packages.xml is written after the database has changed, once for many changes.
Persist ==
    /\ xml # installed
    /\ xml' = installed
    /\ UNCHANGED <<installed, reachable>>

ToggleReachable ==
    /\ reachable' = ~reachable
    /\ UNCHANGED <<installed, xml>>

Packages ==
    /\ Install \/ Persist \/ ToggleReachable
    /\ UNCHANGED <<pc, loaded, runtimeVars, invalidatorVars>>

-----------------------------------------------------------------------------
(* IdentityCacheInvalidator.                                               *)

CanStat == reachable /\ xml # 0

\* A file that cannot be looked at changes nothing.
CheckPackagesXml ==
    IF CanStat
    THEN /\ fingerprint' = xml
         /\ dirty' = (dirty \/ fingerprint # xml)
    ELSE UNCHANGED <<fingerprint, dirty>>

MarkForegroundCandidate ==
    /\ pc = "idle"
    /\ Enabled
    /\ count' = (count + 1) % Interval
    /\ IF count' = 0 THEN CheckPackagesXml ELSE UNCHANGED <<fingerprint, dirty>>
    /\ UNCHANGED <<packageVars, pc, loaded, runtimeVars>>

-----------------------------------------------------------------------------
(* EngineRuntime.                                                          *)

NotLoaded == [result |-> "none", version |-> 0]
Failed == [result |-> "error", version |-> 0]
List(version) == [result |-> "list", version |-> version]

\* A command that cannot be run is an error; one that runs and exits with a
\* failure is a list, an empty one.
LoadIdentityCache ==
    {List(installed)} \cup {Failed : f \in Failures \cap {"spawn"}}
                      \cup {List(0) : f \in Failures \cap {"exit"}}

Call(name, outcome) ==
    /\ pc = "idle"
    /\ outcome \in LoadIdentityCache
    /\ pc' = name
    /\ loaded' = outcome
    /\ UNCHANGED <<packageVars, runtimeVars, invalidatorVars>>

\* A second start is refused and changes nothing.
Start(outcome) == ~started /\ Call("start", outcome)

Refresh(outcome) == Call("refresh", outcome)

\* Mutant: a failed load leaves the packages of the one before.
CacheKept(outcome) == IF outcome = Failed THEN cache ELSE outcome.version
CacheAfter(outcome) == outcome.version

DirtyAfter(outcome) == dirty /\ outcome = Failed

\* Mutant: a refresh takes the file as seen.
FingerprintTaken(outcome) == IF CanStat THEN xml ELSE fingerprint
FingerprintAfter(outcome) == fingerprint

WarmupAfter(outcome) == IF outcome = Failed THEN "failed" ELSE "warm"

RefreshIdentityCache ==
    /\ pc # "idle"
    /\ cache' = CacheAfter(loaded)
    /\ warmup' = WarmupAfter(loaded)
    /\ dirty' = DirtyAfter(loaded)
    /\ fingerprint' = FingerprintAfter(loaded)
    /\ started' = (started \/ pc = "start")
    /\ pc' = "idle"
    /\ loaded' = NotLoaded
    /\ UNCHANGED <<packageVars, count>>

Shutdown ==
    /\ pc = "idle"
    /\ started
    /\ started' = FALSE
    /\ UNCHANGED <<packageVars, pc, loaded, cache, warmup, invalidatorVars>>

\* EngineRuntime::new looks at packages.xml and loads nothing.
Init ==
    /\ installed \in 1..MaxVersion
    /\ xml \in 0..installed
    /\ reachable \in BOOLEAN
    /\ pc = "idle"
    /\ loaded = NotLoaded
    /\ started = FALSE
    /\ cache = 0
    /\ warmup = "none"
    /\ count = 0
    /\ fingerprint = IF Enabled /\ CanStat THEN xml ELSE 0
    /\ dirty = FALSE

Next ==
    \/ Packages
    \/ MarkForegroundCandidate
    \/ \E outcome \in LoadIdentityCache : Start(outcome) \/ Refresh(outcome)
    \/ RefreshIdentityCache
    \/ Shutdown

Spec == Init /\ [][Next]_vars

-----------------------------------------------------------------------------
(* Properties.                                                             *)

\* Types; and what the runtime has seen exists: a fingerprint is of a version that
\* was written, a version that was written was installed, and a runtime whose load
\* failed offers no packages.
TypeOK ==
    /\ installed \in 1..MaxVersion
    /\ xml \in 0..installed
    /\ reachable \in BOOLEAN
    /\ pc \in {"idle", "start", "refresh"}
    /\ loaded \in {NotLoaded, Failed} \cup {List(v) : v \in 0..installed}
    /\ (pc = "idle") <=> (loaded = NotLoaded)
    /\ started \in BOOLEAN
    /\ cache \in 0..installed
    /\ warmup \in {"none", "warm", "failed"}
    /\ warmup # "warm" => cache = 0
    /\ count \in 0..(Interval - 1)
    /\ fingerprint \in 0..xml
    /\ dirty \in BOOLEAN

\* A list of packages older than packages.xml is never taken for current: the cache
\* is dirty already, or the next look at the file will make it so, whenever the file
\* was written while the command of a refresh ran.
NoLostInvalidation ==
    Enabled /\ warmup = "warm" /\ cache # 0 /\ cache < xml
        => dirty \/ fingerprint # xml

\* What a test says: a failed refresh preserves the dirty state
\* (failed_refresh_preserves_dirty_state).  The code holds it for a command that cannot
\* be run; the failure of one that runs is taken for an empty list.
FailedRefreshPreservesDirty ==
    [][(RefreshIdentityCache /\ loaded.version = 0 /\ dirty) => dirty']_vars

=============================================================================
