------------------------- MODULE EngineRuntimeProofs -------------------------
(***************************************************************************)
(* The flow from a candidate to the reducer's identity, for every set of   *)
(* candidates and every package cache of IdentityCache.                    *)
(*                                                                         *)
(* The runtime adds its own variables to those of the package cache and    *)
(* takes the cache's steps or none, so it implements IdentityCache and     *)
(* keeps its invariants.  That an identity is looked up in the packages    *)
(* the runtime has now rests on CopyIsCurrent: nothing replaces the cache  *)
(* while a step runs.                                                      *)
(***************************************************************************)
EXTENDS EngineRuntime, IdentityCacheProofs

CopyIsCurrent == stepping => services = SystemServices

RuntimeInv == Inv /\ RuntimeTypeOK /\ CopyIsCurrent

-----------------------------------------------------------------------------
\* Every step of the runtime is one of the package cache, or leaves it alone.
LEMMA StepOfCache ==
    ASSUME RuntimeNext \/ UNCHANGED runtimeAll
    PROVE  [Next]_vars
<1>1. ASSUME Packages /\ UNCHANGED flowVars PROVE [Next]_vars
  BY <1>1 DEF Next
<1>2. ASSUME BeginStep PROVE [Next]_vars
  BY <1>2 DEF BeginStep
<1>3. ASSUME NEW candidate \in Candidates, HandleCandidate(candidate) PROVE [Next]_vars
  BY <1>3 DEF HandleCandidate, Next
<1>4. ASSUME EndStep PROVE [Next]_vars
  BY <1>4 DEF EndStep
<1>5. ASSUME BetweenSteps PROVE [Next]_vars
  BY <1>5 DEF BetweenSteps, Next
<1>6. ASSUME UNCHANGED runtimeAll PROVE [Next]_vars
  BY <1>6 DEF runtimeAll
<1> QED
  BY <1>1, <1>2, <1>3, <1>4, <1>5, <1>6 DEF RuntimeNext

LEMMA RuntimeInitInv == RuntimeInit => RuntimeInv
<1> SUFFICES ASSUME RuntimeInit PROVE RuntimeInv
  OBVIOUS
<1>1. Inv
  BY InitInv DEF RuntimeInit
<1>2. NoList \in Lists
  BY DEF Lists
<1>3. RuntimeTypeOK
  BY <1>2 DEF RuntimeInit, RuntimeTypeOK
<1> QED
  BY <1>1, <1>3 DEF RuntimeInit, RuntimeInv, CopyIsCurrent

-----------------------------------------------------------------------------
(* What the flow keeps, operation by operation.                            *)

\* What services hold stays a list of a version that was installed.
LEMMA ListsGrow ==
    ASSUME TypeOK, installed' \in Nat, installed <= installed'
    PROVE  Lists \subseteq Lists'
<1>1. 0..installed \subseteq 0..installed'
  BY CacheAssumption DEF TypeOK
<1> QED
  BY <1>1 DEF Lists, NoList, Lookup

LEMMA InstalledGrows ==
    ASSUME TypeOK, [Next]_vars
    PROVE  installed' \in Nat /\ installed <= installed'
<1> USE CacheAssumption DEF TypeOK
<1>1. CASE Packages
  BY <1>1 DEF Packages, Install, Persist, ToggleReachable
<1>2. CASE MarkForegroundCandidate
  BY <1>2 DEF MarkForegroundCandidate, packageVars
<1>3. CASE \E outcome \in LoadIdentityCache : Start(outcome) \/ Refresh(outcome)
  BY <1>3 DEF Start, Refresh, Call, packageVars
<1>4. CASE RefreshIdentityCache
  BY <1>4 DEF RefreshIdentityCache, packageVars
<1>5. CASE Shutdown
  BY <1>5 DEF Shutdown, packageVars
<1>6. CASE UNCHANGED vars
  BY <1>6 DEF vars, packageVars
<1> QED
  BY <1>1, <1>2, <1>3, <1>4, <1>5, <1>6 DEF Next

LEMMA ServicesAreALoadedList ==
    ASSUME TypeOK
    PROVE  SystemServices \in Lists
BY DEF TypeOK, SystemServices, Lists

\* A copy of the cache is as current after a step that replaces no cache as before.
LEMMA SameCacheSameServices ==
    ASSUME UNCHANGED <<cache, warmup>>
    PROVE  SystemServices' = SystemServices
BY DEF SystemServices, Lookup, NoList

LEMMA PackagesFlow ==
    ASSUME RuntimeInv, Lists \subseteq Lists', Packages, UNCHANGED flowVars
    PROVE  RuntimeTypeOK' /\ CopyIsCurrent'
<1>1. UNCHANGED <<pc, started, cache, warmup, stepping, services, last_payload, last_identity>>
  BY DEF Packages, runtimeVars, flowVars
<1>2. RuntimeTypeOK'
  BY <1>1 DEF RuntimeInv, RuntimeTypeOK
<1>3. CopyIsCurrent'
  BY <1>1, SameCacheSameServices DEF RuntimeInv, CopyIsCurrent
<1> QED
  BY <1>1, <1>2, <1>3 DEF RuntimeInv

LEMMA BeginStepFlow ==
    ASSUME RuntimeInv, Lists \subseteq Lists', BeginStep
    PROVE  RuntimeTypeOK' /\ CopyIsCurrent'
<1>1. UNCHANGED <<pc, started, cache, warmup, last_payload, last_identity>>
  BY DEF BeginStep, vars, runtimeVars
<1>2. services' = SystemServices /\ stepping' = TRUE /\ started /\ pc = "idle"
  BY DEF BeginStep, ServicesForStep
<1>3. RuntimeTypeOK'
  BY <1>1, <1>2, ServicesAreALoadedList DEF RuntimeInv, Inv, RuntimeTypeOK
<1>4. CopyIsCurrent'
  BY <1>1, <1>2, SameCacheSameServices DEF CopyIsCurrent
<1> QED
  BY <1>1, <1>3, <1>4 DEF RuntimeInv

\* Handling a candidate counts and looks at packages.xml at most: the cache stays.
LEMMA HandlingKeepsTheCache ==
    ASSUME NEW candidate, HandleCandidate(candidate)
    PROVE  UNCHANGED <<pc, started, cache, warmup, stepping, services>>
BY DEF HandleCandidate, MarkForegroundCandidate, vars, runtimeVars

LEMMA HandleCandidateFlow ==
    ASSUME RuntimeInv, Lists \subseteq Lists', NEW candidate \in Candidates,
           HandleCandidate(candidate)
    PROVE  RuntimeTypeOK' /\ CopyIsCurrent'
<1>1. UNCHANGED <<pc, started, cache, warmup, stepping, services>>
  BY HandlingKeepsTheCache
<1>2. last_payload' = candidate
      /\ last_identity' = IF Dispatched(candidate) THEN Resolve(candidate) ELSE last_identity
  BY DEF HandleCandidate
<1>3. last_identity' \in [of : WithUid \cup WithPidOnly \cup {None}, from : Lists]
  <2>1. NoList \in Lists /\ services \in Lists
    BY DEF Lists, RuntimeInv, RuntimeTypeOK
  <2>2. CASE Dispatched(candidate)
    BY <1>2, <2>1, <2>2 DEF Dispatched, Resolve
  <2>3. CASE ~Dispatched(candidate)
    BY <1>2, <2>3 DEF RuntimeInv, RuntimeTypeOK
  <2> QED
    BY <2>2, <2>3
<1>4. RuntimeTypeOK'
  BY <1>1, <1>2, <1>3 DEF RuntimeInv, RuntimeTypeOK
<1>5. CopyIsCurrent'
  BY <1>1, SameCacheSameServices DEF RuntimeInv, CopyIsCurrent
<1> QED
  BY <1>4, <1>5

LEMMA EndStepFlow ==
    ASSUME RuntimeInv, Lists \subseteq Lists', EndStep
    PROVE  RuntimeTypeOK' /\ CopyIsCurrent'
<1>1. UNCHANGED <<services, last_payload, last_identity>> /\ stepping' = FALSE
  BY DEF EndStep
<1> QED
  BY <1>1 DEF RuntimeInv, RuntimeTypeOK, CopyIsCurrent

LEMMA BetweenStepsFlow ==
    ASSUME RuntimeInv, Lists \subseteq Lists', BetweenSteps
    PROVE  RuntimeTypeOK' /\ CopyIsCurrent'
<1>1. UNCHANGED <<stepping, services, last_payload, last_identity>> /\ ~stepping
  BY DEF BetweenSteps, flowVars
<1> QED
  BY <1>1 DEF RuntimeInv, RuntimeTypeOK, CopyIsCurrent

-----------------------------------------------------------------------------
LEMMA RuntimeStepInv == RuntimeInv /\ [RuntimeNext]_runtimeAll => RuntimeInv'
<1> SUFFICES ASSUME RuntimeInv, [RuntimeNext]_runtimeAll PROVE RuntimeInv'
  OBVIOUS
<1>1. [Next]_vars
  BY StepOfCache
<1>2. Inv'
  BY <1>1, StepInv DEF RuntimeInv
<1>3. Lists \subseteq Lists'
  BY <1>1, InstalledGrows, ListsGrow DEF RuntimeInv, Inv
<1>4. RuntimeTypeOK' /\ CopyIsCurrent'
  <2>1. CASE Packages /\ UNCHANGED flowVars
    BY <1>3, <2>1, PackagesFlow
  <2>2. CASE BeginStep
    BY <1>3, <2>2, BeginStepFlow
  <2>3. ASSUME NEW candidate \in Candidates, HandleCandidate(candidate)
        PROVE  RuntimeTypeOK' /\ CopyIsCurrent'
    BY <1>3, <2>3, HandleCandidateFlow
  <2>4. CASE EndStep
    BY <1>3, <2>4, EndStepFlow
  <2>5. CASE BetweenSteps
    BY <1>3, <2>5, BetweenStepsFlow
  <2>6. CASE UNCHANGED runtimeAll
    BY <2>6 DEF runtimeAll, vars, packageVars, runtimeVars, flowVars, RuntimeInv, RuntimeTypeOK,
                CopyIsCurrent, SystemServices, Lists, Lookup
  <2> QED
    BY <2>1, <2>2, <2>3, <2>4, <2>5, <2>6 DEF RuntimeNext
<1> QED
  BY <1>2, <1>4 DEF RuntimeInv

\* The runtime implements the package cache: steps, candidates and the reducer add
\* nothing to what happens to the list, the fingerprint and the dirty state.
THEOREM RuntimeImplementsCache == RuntimeSpec => Spec
<1>1. RuntimeInit => Init
  BY DEF RuntimeInit
<1>2. [RuntimeNext]_runtimeAll => [Next]_vars
  BY StepOfCache
<1> QED
  BY <1>1, <1>2, PTL DEF RuntimeSpec, Spec

THEOREM RuntimeInvariant == RuntimeSpec => []RuntimeInv
BY RuntimeInitInv, RuntimeStepInv, PTL DEF RuntimeSpec

\* The types of the flow; and a step runs only in a runtime that was started and is not
\* loading.
THEOREM RuntimeTypeCorrect == RuntimeSpec => []RuntimeTypeOK
<1>1. RuntimeInv => RuntimeTypeOK
  BY DEF RuntimeInv
<1> QED
  BY <1>1, RuntimeInvariant, PTL

\* Each identity is looked up in the packages the runtime has when it is resolved.
THEOREM IdentityAlwaysFromCurrentList == RuntimeSpec => IdentityFromCurrentList
<1> DEFINE Current == last_identity' # last_identity /\ last_identity'.of \in WithUid
                        => last_identity'.from = IF warmup = "warm" THEN Lookup(cache) ELSE NoList
<1>1. RuntimeInv /\ [RuntimeNext]_runtimeAll => [Current]_runtimeAll
  <2> SUFFICES ASSUME RuntimeInv, RuntimeNext, last_identity' # last_identity,
                      last_identity'.of \in WithUid
               PROVE  last_identity'.from = SystemServices
    BY DEF SystemServices
  <2>1. PICK candidate \in Candidates : HandleCandidate(candidate)
    BY DEF RuntimeNext, BeginStep, EndStep, BetweenSteps, flowVars
  <2>2. last_identity' = Resolve(candidate) /\ stepping
    BY <2>1 DEF HandleCandidate
  <2>3. candidate \in WithUid /\ last_identity'.from = services
    BY <2>2 DEF Resolve
  <2> QED
    BY <2>2, <2>3 DEF RuntimeInv, CopyIsCurrent
<1> QED
  BY <1>1, RuntimeInvariant, PTL DEF RuntimeSpec, IdentityFromCurrentList

\* A list of packages older than packages.xml is known to be, or the next look at the
\* file finds it out, in a runtime that steps and handles candidates as well.
THEOREM RuntimeNeverLosesInvalidation == RuntimeSpec => []NoLostInvalidation
BY RuntimeImplementsCache, InvalidationIsNotLost, PTL

=============================================================================
