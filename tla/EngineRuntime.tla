---------------------------- MODULE EngineRuntime ----------------------------
(***************************************************************************)
(* From a foreground candidate to the reducer's last_identity (runtime.rs, *)
(* services/foreground/manager.rs, dispatch.rs, services/identity.rs,      *)
(* state.rs), on top of the package cache of IdentityCache.                *)
(*                                                                         *)
(* A step of the runtime takes a copy of the package cache, then handles   *)
(* what the watcher brings: a candidate that differs from the last payload *)
(* counts as a change, which may look at packages.xml, and is resolved     *)
(* against the copy.  The reducer sees an identity as soon as it is        *)
(* resolved, also when the step returns an error afterwards.  Between two  *)
(* steps the caller may refresh the cache.  While a step runs the caller   *)
(* cannot (step borrows the runtime), the package manager can.             *)
(*                                                                         *)
(* Of a candidate only its keys matter.  A resolved identity is told by    *)
(* the candidate it is of and the list of packages it was looked up in.    *)
(* The refresh that a step would do itself is left out: it is asked for by *)
(* events of identity hint paths only, of which there are none             *)
(* (IdentityCacheInvalidator::watch_hint_paths is empty).                  *)
(***************************************************************************)
EXTENDS IdentityCache

CONSTANTS
    Candidates,     \* what the foreground source may answer
    WithUid,        \* those with a uid
    WithPidOnly     \* those with a pid and no uid; the others have neither

ASSUME CandidatesAssumption == /\ WithUid \subseteq Candidates
                               /\ WithPidOnly \subseteq Candidates \ WithUid

VARIABLES
    stepping,       \* a step of the runtime is running
    services,       \* the package cache the step's IdentityService holds
    last_payload,   \* ForegroundManager::last_payload
    last_identity   \* EngineState::last_identity

flowVars == <<stepping, services, last_payload, last_identity>>
runtimeAll == <<vars, flowVars>>

None == "no candidate"

\* A list of packages, or none: what IdentityService::package_cache holds.
NoList == [known |-> FALSE, list |-> 0]
Lookup(version) == [known |-> TRUE, list |-> version]

SystemServices == IF warmup = "warm" THEN Lookup(cache) ELSE NoList

\* Mutant: every candidate is resolved.
DispatchedAlways(candidate) == TRUE

\* Dispatcher::dispatch asks for an identity only where there is a key to it.
Dispatched(candidate) == candidate \in WithUid \cup WithPidOnly

\* No list tells the package of a pid.
Resolve(candidate) ==
    [of |-> candidate, from |-> IF candidate \in WithUid THEN services ELSE NoList]

-----------------------------------------------------------------------------
(* A step.                                                                 *)

\* Mutant: the services are made once and kept from step to step.
ServicesKept == IF services.known THEN services ELSE SystemServices
ServicesForStep == SystemServices

BeginStep ==
    /\ started
    /\ pc = "idle"
    /\ ~stepping
    /\ stepping' = TRUE
    /\ services' = ServicesForStep
    /\ UNCHANGED <<vars, last_payload, last_identity>>

\* Mutant: only a first candidate counts, and it never does.
NeverCounts == FALSE
CountsAsChange == last_payload # None

\* One step, for nothing comes between: filter_changed sets last_payload, no error
\* follows it in the handler, and apply_events, which the loop calls next, fails only
\* where an action is performed that is none of a candidate's (services.perform fails
\* for RunExec alone).
HandleCandidate(candidate) ==
    /\ stepping
    /\ candidate # last_payload
    /\ IF CountsAsChange /\ Enabled THEN MarkForegroundCandidate ELSE UNCHANGED vars
    /\ last_payload' = candidate
    /\ last_identity' = IF Dispatched(candidate) THEN Resolve(candidate) ELSE last_identity
    /\ UNCHANGED <<stepping, services>>

\* With its events, or with the error of a later one.
EndStep ==
    /\ stepping
    /\ stepping' = FALSE
    /\ UNCHANGED <<vars, services, last_payload, last_identity>>

-----------------------------------------------------------------------------
(* Between steps.                                                          *)

\* The caller may count a change of its own as well.
BetweenSteps ==
    /\ ~stepping
    /\ \/ MarkForegroundCandidate
       \/ \E outcome \in LoadIdentityCache : Start(outcome) \/ Refresh(outcome)
       \/ RefreshIdentityCache
       \/ Shutdown
    /\ UNCHANGED flowVars

RuntimeInit ==
    /\ Init
    /\ stepping = FALSE
    /\ services = NoList
    /\ last_payload = None
    /\ last_identity = [of |-> None, from |-> NoList]

RuntimeNext ==
    \/ Packages /\ UNCHANGED flowVars
    \/ BeginStep
    \/ \E candidate \in Candidates : HandleCandidate(candidate)
    \/ EndStep
    \/ BetweenSteps

RuntimeSpec == RuntimeInit /\ [][RuntimeNext]_runtimeAll

\* Every application comes to the foreground again and again while the caller keeps
\* calling step; a step and a command end; a caller that is told to refresh does so,
\* and of the commands it runs there is always another that works.
RuntimeFairness ==
    /\ SF_runtimeAll(BeginStep)
    /\ \A candidate \in Candidates : SF_runtimeAll(HandleCandidate(candidate))
    /\ WF_runtimeAll(EndStep)
    /\ WF_runtimeAll(RefreshIdentityCache /\ UNCHANGED flowVars)
    /\ SF_runtimeAll(dirty /\ ~stepping /\ Refresh(List(installed)) /\ UNCHANGED flowVars)

RuntimeFairSpec == RuntimeSpec /\ RuntimeFairness

-----------------------------------------------------------------------------
(* Properties.                                                             *)

Lists == {NoList} \cup {Lookup(version) : version \in 0..installed}

\* Types; and a step never runs in a runtime that is loading or was shut down.
RuntimeTypeOK ==
    /\ stepping \in BOOLEAN
    /\ stepping => started /\ pc = "idle"
    /\ services \in Lists
    /\ last_payload \in Candidates \cup {None}
    /\ last_identity \in [of : WithUid \cup WithPidOnly \cup {None}, from : Lists]

\* An identity is looked up in the packages the runtime has now, not in those of an
\* earlier step, and in none where the last load failed.
IdentityFromCurrentList ==
    [][last_identity' # last_identity /\ last_identity'.of \in WithUid
        => last_identity'.from = IF warmup = "warm" THEN Lookup(cache) ELSE NoList]_runtimeAll

\* The cache is empty and nothing asks for a refresh: a command exited with a failure,
\* or could not be run by a start or a refresh that nothing had asked for.  What the
\* property below cannot promise.
LeftEmpty == warmup # "none" /\ cache = 0 /\ ~dirty

\* A change of packages.xml that was not seen yet reaches the identity the reducer
\* reports, if the file can be looked at from some time on and the caller keeps
\* calling step: through the count of changes, the fingerprint, the dirty state, the
\* refresh that a command may fail, the copy a step takes and the deduplication.
EventuallyIdentified ==
    <>[]reachable /\ []<>stepping =>
        \A version \in 1..MaxVersion, candidate \in WithUid :
            (Enabled /\ xml = version /\ fingerprint # version)
                ~> \/ /\ last_identity.of = candidate
                      /\ last_identity.from.known
                      /\ last_identity.from.list >= version
                   \/ LeftEmpty

=============================================================================
