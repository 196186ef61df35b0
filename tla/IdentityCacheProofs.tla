------------------------- MODULE IdentityCacheProofs -------------------------
(***************************************************************************)
(* The safety of the package cache, for every number of versions, every    *)
(* interval and every way the command may fail.                            *)
(*                                                                         *)
(* NoLostInvalidation relates the cache to packages.xml; what a step keeps *)
(* is the cache's relation to the fingerprint, the last version of the     *)
(* file that was looked at, and the same for the list a running command    *)
(* has made, which is to become the cache.                                 *)
(***************************************************************************)
EXTENDS IdentityCache, TLAPS

NoOlderThanSeen(result, version) ==
    result = "list" /\ version # 0 => version >= fingerprint

\* A warm list is as new as the last look at the file, or known to be older; a list
\* being loaded is as new as the last look, since nothing looks while it is.
SeenOrDirty ==
    /\ warmup = "warm" /\ cache # 0 => dirty \/ cache >= fingerprint
    /\ NoOlderThanSeen(loaded.result, loaded.version)

Inv == TypeOK /\ SeenOrDirty

-----------------------------------------------------------------------------
\* What a command makes of the database is a failure, an empty list or the list of
\* the version installed.
LEMMA LoadedIsKnown ==
    ASSUME NEW outcome \in LoadIdentityCache
    PROVE  outcome \in {Failed, List(0), List(installed)}
BY DEF LoadIdentityCache

LEMMA InitInv == Init => Inv
<1> SUFFICES ASSUME Init PROVE Inv
  OBVIOUS
<1>1. TypeOK
  <2>1. 0 \in 0..(Interval - 1)
    BY CacheAssumption
  <2>2. xml \in 0..installed /\ fingerprint \in 0..xml
    BY CacheAssumption DEF Init
  <2>3. loaded = NotLoaded /\ pc = "idle" /\ warmup = "none" /\ cache = 0 /\ cache \in 0..installed
    BY CacheAssumption DEF Init
  <2>4. started \in BOOLEAN /\ dirty \in BOOLEAN /\ reachable \in BOOLEAN /\ count \in 0..(Interval - 1)
    BY <2>1 DEF Init
  <2> QED
    BY <2>2, <2>3, <2>4 DEF Init, TypeOK
<1>2. SeenOrDirty
  BY DEF Init, SeenOrDirty, NoOlderThanSeen, NotLoaded
<1> QED
  BY <1>1, <1>2 DEF Inv

-----------------------------------------------------------------------------
(* One lemma per operation.                                                *)

LEMMA PackagesInv ==
    ASSUME Inv, Packages
    PROVE  Inv'
<1> USE CacheAssumption
<1>1. installed' \in 1..MaxVersion /\ xml' \in 0..installed' /\ installed <= installed' /\ xml <= xml'
  BY DEF Inv, TypeOK, Packages, Install, Persist, ToggleReachable
<1>2. reachable' \in BOOLEAN
  BY DEF Inv, TypeOK, Packages, Install, Persist, ToggleReachable
<1>3. UNCHANGED <<pc, loaded, started, cache, warmup, count, fingerprint, dirty>>
  BY DEF Packages, runtimeVars, invalidatorVars
<1>4. loaded \in {NotLoaded, Failed} \cup {List(v) : v \in 0..installed'}
  <2>1. 0..installed \subseteq 0..installed'
    BY <1>1 DEF Inv, TypeOK
  <2> QED
    BY <2>1 DEF Inv, TypeOK
<1>5. cache \in 0..installed' /\ fingerprint \in 0..xml'
  BY <1>1 DEF Inv, TypeOK
<1>6. TypeOK'
  BY <1>1, <1>2, <1>3, <1>4, <1>5 DEF Inv, TypeOK, NotLoaded, Failed, List
<1>7. SeenOrDirty'
  BY <1>3 DEF Inv, SeenOrDirty, NoOlderThanSeen
<1> QED
  BY <1>6, <1>7 DEF Inv

\* Looking at the file raises the fingerprint, and then the cache is dirty.
LEMMA MarkForegroundCandidateInv ==
    ASSUME Inv, MarkForegroundCandidate
    PROVE  Inv'
<1> USE CacheAssumption
<1>1. UNCHANGED <<installed, xml, reachable, pc, loaded, started, cache, warmup>>
  BY DEF MarkForegroundCandidate, packageVars, runtimeVars
<1>2. count' \in 0..(Interval - 1)
  <2>1. count + 1 \in Nat /\ Interval \in Nat \ {0}
    BY DEF Inv, TypeOK
  <2>2. (count + 1) % Interval \in 0..(Interval - 1)
    BY <2>1
  <2> QED
    BY <2>2 DEF MarkForegroundCandidate
<1>3. \/ UNCHANGED <<fingerprint, dirty>>
      \/ fingerprint' = xml /\ dirty' = (dirty \/ fingerprint # xml)
  BY DEF MarkForegroundCandidate, CheckPackagesXml
<1>4. fingerprint' \in 0..xml /\ dirty' \in BOOLEAN
  <2>1. fingerprint' \in 0..xml
    BY <1>3 DEF Inv, TypeOK
  <2>2. dirty' \in BOOLEAN
    BY <1>3, Zenon DEF Inv, TypeOK
  <2> QED
    BY <2>1, <2>2
<1>5. TypeOK'
  BY <1>1, <1>2, <1>4 DEF Inv, TypeOK, NotLoaded, Failed, List
<1>6. loaded' = NotLoaded
  BY <1>1 DEF Inv, TypeOK, MarkForegroundCandidate
<1>7. warmup = "warm" /\ cache # 0 => dirty' \/ cache >= fingerprint'
  BY <1>3 DEF Inv, TypeOK, SeenOrDirty
<1>8. SeenOrDirty'
  BY <1>1, <1>6, <1>7 DEF SeenOrDirty, NoOlderThanSeen, NotLoaded
<1> QED
  BY <1>5, <1>8 DEF Inv

LEMMA CallInv ==
    ASSUME Inv, NEW name \in {"start", "refresh"}, NEW outcome \in LoadIdentityCache,
           Call(name, outcome)
    PROVE  Inv'
<1>1. UNCHANGED <<installed, xml, reachable, started, cache, warmup, count, fingerprint, dirty>>
  BY DEF Call, packageVars, runtimeVars, invalidatorVars
<1>2. pc' = name /\ loaded' = outcome
  BY DEF Call
<1>3. outcome \in {Failed, List(0), List(installed)}
  BY LoadedIsKnown
<1>4. 0 \in 0..installed /\ installed \in 0..installed
  BY CacheAssumption DEF Inv, TypeOK
<1>5. outcome \in {NotLoaded, Failed} \cup {List(v) : v \in 0..installed} /\ outcome # NotLoaded
  BY <1>3, <1>4 DEF NotLoaded, Failed, List
<1>6. TypeOK'
  BY <1>1, <1>2, <1>5 DEF Inv, TypeOK, NotLoaded, Failed, List
<1>7. NoOlderThanSeen(outcome.result, outcome.version)
  BY <1>3, CacheAssumption DEF Inv, TypeOK, NoOlderThanSeen, Failed, List
<1>8. SeenOrDirty'
  BY <1>1, <1>2, <1>7 DEF Inv, SeenOrDirty, NoOlderThanSeen
<1> QED
  BY <1>6, <1>8 DEF Inv

LEMMA RefreshIdentityCacheInv ==
    ASSUME Inv, RefreshIdentityCache
    PROVE  Inv'
<1>1. /\ UNCHANGED <<installed, xml, reachable, count, fingerprint>>
      /\ cache' = loaded.version
      /\ warmup' = WarmupAfter(loaded)
      /\ dirty' = (dirty /\ loaded = Failed)
      /\ pc' = "idle"
      /\ loaded' = NotLoaded
      /\ started' = (started \/ pc = "start")
  BY DEF RefreshIdentityCache, CacheAfter, DirtyAfter, FingerprintAfter, packageVars
<1>2. loaded \in {Failed} \cup {List(v) : v \in 0..installed}
  BY DEF Inv, TypeOK, RefreshIdentityCache
<1>3. loaded.version \in 0..installed /\ (loaded = Failed => loaded.version = 0)
  BY <1>2, CacheAssumption DEF Inv, TypeOK, Failed, List
<1>4. warmup' \in {"warm", "failed"} /\ (warmup' # "warm" <=> loaded = Failed)
  BY <1>1 DEF WarmupAfter
<1>5. TypeOK'
  BY <1>1, <1>3, <1>4 DEF Inv, TypeOK, NotLoaded, Failed, List
<1>6. loaded # Failed => loaded.result = "list"
  BY <1>2 DEF Failed, List
<1>7. SeenOrDirty'
  BY <1>1, <1>4, <1>6 DEF Inv, SeenOrDirty, NoOlderThanSeen, NotLoaded
<1> QED
  BY <1>5, <1>7 DEF Inv

LEMMA ShutdownInv ==
    ASSUME Inv, Shutdown
    PROVE  Inv'
BY DEF Inv, TypeOK, SeenOrDirty, NoOlderThanSeen, Shutdown, packageVars, invalidatorVars,
       NotLoaded, Failed, List

LEMMA StutterInv ==
    ASSUME Inv, UNCHANGED vars
    PROVE  Inv'
BY DEF Inv, TypeOK, SeenOrDirty, NoOlderThanSeen, vars, packageVars, runtimeVars,
       invalidatorVars, NotLoaded, Failed, List

LEMMA StepInv == Inv /\ [Next]_vars => Inv'
<1> SUFFICES ASSUME Inv, [Next]_vars PROVE Inv'
  OBVIOUS
<1>1. CASE Packages
  BY <1>1, PackagesInv
<1>2. CASE MarkForegroundCandidate
  BY <1>2, MarkForegroundCandidateInv
<1>3. ASSUME NEW outcome \in LoadIdentityCache, Start(outcome) \/ Refresh(outcome)
      PROVE  Inv'
  BY <1>3, CallInv DEF Start, Refresh
<1>4. CASE RefreshIdentityCache
  BY <1>4, RefreshIdentityCacheInv
<1>5. CASE Shutdown
  BY <1>5, ShutdownInv
<1>6. CASE UNCHANGED vars
  BY <1>6, StutterInv
<1> QED
  BY <1>1, <1>2, <1>3, <1>4, <1>5, <1>6 DEF Next

LEMMA AlwaysInv == Spec => []Inv
BY InitInv, StepInv, PTL DEF Spec

-----------------------------------------------------------------------------
\* The runtime's state is of its types, and what it has seen of packages.xml exists.
THEOREM CacheTypeCorrect == Spec => []TypeOK
<1>1. Inv => TypeOK
  BY DEF Inv
<1> QED
  BY <1>1, AlwaysInv, PTL

\* A list older than packages.xml is dirty, or the next look at the file makes it so:
\* no write of the file is lost to a refresh that ran while it was made.
THEOREM InvalidationIsNotLost == Spec => []NoLostInvalidation
<1>1. Inv => NoLostInvalidation
  BY CacheAssumption DEF Inv, TypeOK, SeenOrDirty, NoLostInvalidation
<1> QED
  BY <1>1, AlwaysInv, PTL
=============================================================================
