-------------------------- MODULE EngineWatchProofs --------------------------
(***************************************************************************)
(* Theorems about EngineWatch for every set of directories and roots,      *)
(* every filter, every bound, and with or without refused registrations.   *)
(***************************************************************************)
EXTENDS EngineWatch, FiniteSetTheorems, SequenceTheorems, TLAPS

-----------------------------------------------------------------------------
(* How a scan numbers what it opens.                                       *)

\* The rank of an element of a finite set of paths is below the size of the set, and
\* tells the element from the others: the generations of one scan differ.
LEMMA RankFacts ==
    ASSUME NEW S, S \subseteq Paths
    PROVE  /\ Cardinality(S) \in Nat
           /\ \A p \in S : Rank(p, S) \in Nat /\ Rank(p, S) < Cardinality(S)
           /\ \A p, q \in S : Rank(p, S) = Rank(q, S) => p = q
<1> USE PathsAssumption
<1> DEFINE Below(p) == {r \in S : r < p}
<1>1. IsFiniteSet(S) /\ Cardinality(S) \in Nat
  BY FS_Subset, FS_CardinalityType
<1>2. ASSUME NEW p \in S
      PROVE  /\ IsFiniteSet(Below(p))
             /\ Cardinality(Below(p)) \in Nat
             /\ Cardinality(Below(p)) < Cardinality(S)
  <2>1. Below(p) \subseteq S /\ p \notin Below(p)
    BY SMT
  <2>2. IsFiniteSet(Below(p)) /\ Cardinality(Below(p)) \in Nat
    BY <1>1, <2>1, FS_Subset, FS_CardinalityType
  <2>3. Cardinality(Below(p)) <= Cardinality(S) /\ Cardinality(Below(p)) # Cardinality(S)
    BY <1>1, <2>1, FS_Subset
  <2> QED
    BY <1>1, <2>2, <2>3
<1>3. ASSUME NEW p \in S, NEW q \in S, p < q
      PROVE  Cardinality(Below(p)) < Cardinality(Below(q))
  <2>1. S \subseteq Nat
    BY PathsAssumption
  <2>2. p \in Below(q) /\ p \notin Below(p)
    BY <1>3, <2>1
  <2>3. ASSUME NEW r \in S, r < p
        PROVE  r < q
    BY <1>3, <2>1, <2>3
  <2>4. Below(p) \subseteq Below(q)
    BY <2>3
  <2>5. /\ Cardinality(Below(p)) <= Cardinality(Below(q))
        /\ Cardinality(Below(p)) # Cardinality(Below(q))
    BY <1>2, <2>2, <2>4, FS_Subset
  <2> QED
    BY <1>2, <2>5
<1>4. ASSUME NEW p \in S, NEW q \in S, Cardinality(Below(p)) = Cardinality(Below(q))
      PROVE  p = q
  <2>1. ~(p < q) /\ ~(q < p)
    BY <1>2, <1>3, <1>4
  <2> QED
    BY <2>1
<1> QED
  BY <1>1, <1>2, <1>4 DEF Rank

\* Generations tell the watches apart, and were all given out before nextGen; no watch
\* is on a directory that is yet to be made; the key of a registration names no
\* watch but its own path's.
GenerationsOK ==
    /\ \A p \in Paths : watches[p].gen < nextGen /\ watches[p].inc <= inc[p]
    /\ \A p, q \in Paths : watches[p].gen = watches[q].gen /\ watches[p].gen # 0 => p = q
    /\ \A p \in Keyed : keys[p] < nextGen
    /\ \A p \in Keyed, q \in Paths : watches[q].gen = keys[p] => q = p

\* A map of watches that differs from the present one by dropping alone.
Older(ws) ==
    /\ ws \in [Paths -> Watch]
    /\ \A p \in Paths : ws[p].gen \in {0, watches[p].gen} /\ ws[p].inc <= inc[p]

\* A map of watches fit to be installed.
WellNumbered(ws) ==
    /\ ws \in [Paths -> Watch]
    /\ Cardinality(Opened(ws)) \in Nat
    /\ \A p \in Paths : ws[p].gen < nextGen + Cardinality(Opened(ws))
    /\ \A p \in Paths : ws[p].gen < nextGen => ws[p].gen \in {0, watches[p].gen}
    /\ \A p \in Paths : ws[p].inc <= inc[p]
    /\ \A p, q \in Paths : ws[p].gen = ws[q].gen /\ ws[p].gen # 0 => p = q

SourceOK == TreeTypeOK /\ SourceTypeOK /\ GenerationsOK

LEMMA OlderIsWellNumbered ==
    ASSUME NEW ws, SourceOK, Older(ws)
    PROVE  WellNumbered(ws)
<1>1. Opened(ws) = {}
  BY DEF SourceOK, SourceTypeOK, GenerationsOK, Older, Opened, Watch
<1>2. Cardinality(Opened(ws)) = 0
  BY <1>1, FS_EmptySet
<1> QED
  BY <1>2 DEF SourceOK, SourceTypeOK, GenerationsOK, Older, WellNumbered, Watch

\* A scan gives new generations, all different, to the watches it opens.
LEMMA ScanIsWellNumbered ==
    ASSUME NEW ws, SourceOK, Older(ws)
    PROVE  WellNumbered(ScanRoots(ws))
<1> DEFINE S == Unwatched(ws)
           new == ScanRoots(ws)
<1>1. S \subseteq Paths /\ S \subseteq alive
  BY DEF SourceOK, TreeTypeOK, Unwatched, Admitted
<1>2. /\ Cardinality(S) \in Nat
      /\ \A p \in S : Rank(p, S) \in Nat /\ Rank(p, S) < Cardinality(S)
      /\ \A p, q \in S : Rank(p, S) = Rank(q, S) => p = q
  BY <1>1, RankFacts
<1> HIDE DEF S
<1>3. /\ \A p \in S : new[p] = NewWatch(nextGen + Rank(p, S), inc[p])
      /\ \A p \in Paths \ S : new[p] = ws[p]
      /\ new = [p \in Paths |-> new[p]]
  <2>1. new = [p \in Paths |-> IF p \in S THEN NewWatch(nextGen + Rank(p, S), inc[p])
                                         ELSE ws[p]]
    BY DEF S, ScanRoots
  <2> HIDE DEF new
  <2> QED
    BY <1>1, <2>1
<1> HIDE DEF new
<1>4. nextGen \in Nat \ {0} /\ inc \in [Paths -> Nat]
  BY DEF SourceOK, TreeTypeOK, SourceTypeOK
<1>5. \A p \in S : /\ new[p].gen = nextGen + Rank(p, S)
                   /\ new[p].inc = inc[p]
                   /\ new[p] \in Watch
  <2> TAKE p \in S
  <2>1. nextGen + Rank(p, S) \in Nat /\ inc[p] \in Nat
    BY <1>1, <1>2, <1>4
  <2>2. new[p] = NewWatch(nextGen + Rank(p, S), inc[p])
    BY <1>3
  <2> QED
    BY <2>1, <2>2 DEF NewWatch, Watch, Populated
<1>6. \A p \in Paths \ S : /\ new[p].gen \in {0, watches[p].gen}
                           /\ new[p].inc <= inc[p]
                           /\ new[p] \in Watch
                           /\ new[p].gen < nextGen
  BY <1>3, <1>4 DEF SourceOK, SourceTypeOK, GenerationsOK, Older, Watch
<1>7. new \in [Paths -> Watch]
  BY <1>3, <1>5, <1>6
<1>8. Opened(new) = S
  BY <1>1, <1>2, <1>4, <1>5, <1>6, <1>7 DEF Opened, Watch
<1>9. \A p \in Paths : new[p].gen < nextGen + Cardinality(S)
  BY <1>2, <1>4, <1>5, <1>6, <1>7 DEF Watch
<1>10. ASSUME NEW p \in Paths, NEW q \in Paths, new[p].gen = new[q].gen, new[p].gen # 0
       PROVE  p = q
  <2>1. CASE p \in S /\ q \in S
    BY <1>2, <1>4, <1>5, <1>10, <2>1
  <2>2. CASE p \notin S /\ q \notin S
    BY <1>6, <1>10, <2>2 DEF SourceOK, GenerationsOK
  <2>3. CASE (p \in S) # (q \in S)
    BY <1>2, <1>4, <1>5, <1>6, <1>10, <2>3
  <2> QED
    BY <2>1, <2>2, <2>3
<1>11. WellNumbered(new)
  BY <1>1, <1>2, <1>4, <1>5, <1>6, <1>7, <1>8, <1>9, <1>10 DEF WellNumbered
<1> QED
  BY <1>11 DEF new

LEMMA RescanIsWellNumbered ==
    ASSUME NEW ws, SourceOK, Older(ws)
    PROVE  WellNumbered(RescanRoots(ws))
<1> DEFINE kept == [p \in Paths |-> IF p \in alive THEN ws[p] ELSE NoWatch]
<1>1. NoWatch \in Watch /\ NoWatch.gen = 0 /\ NoWatch.inc = 0
  BY DEF NoWatch, Watch, Populated
<1>2. inc \in [Paths -> Nat]
  BY DEF SourceOK, TreeTypeOK
<1>3. Older(kept)
  BY <1>1, <1>2 DEF Older
<1>4. WellNumbered(ScanRoots(kept))
  BY <1>3, ScanIsWellNumbered
<1> QED
  BY <1>4 DEF RescanRoots

LEMMA WatchesAreOlder ==
    ASSUME SourceOK
    PROVE  /\ Older(watches)
           /\ \A p \in Paths : Older(Drop(watches, p))
<1>1. NoWatch \in Watch /\ NoWatch.gen = 0 /\ NoWatch.inc = 0
  BY DEF NoWatch, Watch, Populated
<1>2. inc \in [Paths -> Nat] /\ watches \in [Paths -> Watch]
  BY DEF SourceOK, TreeTypeOK, SourceTypeOK
<1> QED
  BY <1>1, <1>2 DEF SourceOK, GenerationsOK, Older, Drop

LEMMA AddIsWellNumbered ==
    ASSUME NEW p \in Unwatched(watches), SourceOK
    PROVE  WellNumbered(AddUidWatch(watches, p))
<1> DEFINE new == AddUidWatch(watches, p)
<1>1. p \in Paths /\ watches \in [Paths -> Watch] /\ nextGen \in Nat \ {0} /\ inc[p] \in Nat
  BY DEF SourceOK, TreeTypeOK, SourceTypeOK, Unwatched, Admitted
<1>2. NewWatch(nextGen, inc[p]) \in Watch
  BY <1>1 DEF NewWatch, Watch, Populated
<1>3. /\ new \in [Paths -> Watch]
      /\ new[p].gen = nextGen
      /\ new[p].inc = inc[p]
      /\ \A q \in Paths \ {p} : new[q] = watches[q]
  BY <1>1, <1>2 DEF AddUidWatch, NewWatch
<1> HIDE DEF new
<1>4. \A q \in Paths : watches[q].gen \in Nat /\ watches[q].gen < nextGen
  BY <1>1 DEF SourceOK, GenerationsOK, Watch
<1>5. Opened(new) = {p}
  BY <1>1, <1>3, <1>4 DEF Opened
<1>6. Cardinality(Opened(new)) = 1
  BY <1>5, FS_Singleton
<1>7. \A q \in Paths : /\ new[q].gen < nextGen + 1
                       /\ new[q].gen < nextGen => new[q].gen = watches[q].gen
                       /\ new[q].inc <= inc[q]
  BY <1>1, <1>3, <1>4 DEF SourceOK, GenerationsOK
<1>8. \A q, r \in Paths : new[q].gen = new[r].gen /\ new[q].gen # 0 => q = r
  BY <1>1, <1>3, <1>4 DEF SourceOK, GenerationsOK
<1>9. WellNumbered(new)
  BY <1>3, <1>6, <1>7, <1>8 DEF WellNumbered
<1> QED
  BY <1>9 DEF new

LEMMA PollIsWellNumbered ==
    ASSUME SourceOK
    PROVE  WellNumbered(PollCurrentWatches(watches))
<1> DEFINE read == [p \in Paths |->
                      IF p \in (Visited(watches) \ denied) \cap alive
                      THEN [watches[p] EXCEPT !.populated = ReadPopulated(p)]
                      ELSE watches[p]]
<1>1. watches \in [Paths -> Watch]
  BY DEF SourceOK, SourceTypeOK
<1>2. \A p \in Paths : ReadPopulated(p) \in Populated
  BY DEF ReadPopulated, Populated
<1>3. \A p \in Paths : /\ read[p] \in Watch
                       /\ read[p].gen = watches[p].gen
                       /\ read[p].inc = watches[p].inc
  BY <1>1, <1>2 DEF Watch
<1>4. Older(read)
  BY <1>3 DEF Older, SourceOK, GenerationsOK
<1>5. WellNumbered(read) /\ WellNumbered(RescanRoots(read))
  BY <1>4, OlderIsWellNumbered, RescanIsWellNumbered
<1> QED
  BY <1>5 DEF PollCurrentWatches

-----------------------------------------------------------------------------
(* The invariant.                                                          *)

\* Where the call in progress stands, and what it must then hold in its hands.
ControlOK ==
    /\ pc \in {"inotify", "opened"} => inq # <<>>
    /\ pc = "opened" => Head(inq).kind = "create"
    /\ pc = "checked" => cur \in Paths
    /\ pc \in {"new", "idle", "batch", "checked"} => inq = <<>>
    /\ \A event \in ready :
          event.token = InotifyToken => ~event.error /\ queue # <<>>

IInv == TypeOK /\ GenerationsOK /\ ControlOK /\ RegistrationsAgree

\* All steps but the caller's Configure and the kernel's Deny.
SettingKept == UNCHANGED <<setting, denied, admitted>>

\* What the tree, the source and the epoll set are after watches were replaced.
SourceSide ==
    /\ TreeTypeOK
    /\ SourceTypeOK
    /\ GenerationsOK
    /\ epoll \subseteq Watched(watches)
    /\ missed \subseteq alive

LEMMA ReplaceKeepsSource ==
    ASSUME NEW ws, WellNumbered(ws), IInv, Replace(ws), staleRoots' \subseteq Roots,
           UNCHANGED <<up, alive, inc, populated, wd, queue, keys>>, SettingKept
    PROVE  SourceSide'
<1>1. TypeOK /\ GenerationsOK /\ TreeTypeOK /\ SourceTypeOK
  BY DEF IInv, TypeOK
<1>2. /\ watches' = ws
      /\ nextGen' = nextGen + Cardinality(Opened(ws))
      /\ unread' = unread \cup Opened(ws)
      /\ epoll' = {p \in epoll : ws[p].gen = watches[p].gen}
      /\ missed' \subseteq missed \cup alive
  BY DEF Replace, Install, Miss, Unopened
<1>3. TreeTypeOK'
  BY <1>1, <1>2 DEF TreeTypeOK, Opened
<1>4. SourceTypeOK'
  BY <1>1, <1>2 DEF SourceTypeOK, WellNumbered, SettingKept
<1>5. GenerationsOK'
  <2>1. \A p \in Paths : watches'[p].gen < nextGen' /\ watches'[p].inc <= inc'[p]
    BY <1>2 DEF WellNumbered
  <2>2. \A p, q \in Paths : watches'[p].gen = watches'[q].gen /\ watches'[p].gen # 0 => p = q
    BY <1>2 DEF WellNumbered
  <2>3. Keyed' = Keyed /\ keys' = keys /\ keys \in [Paths -> Nat] /\ nextGen \in Nat
    BY <1>1 DEF Keyed, TypeOK, SourceTypeOK
  <2>4. \A p \in Keyed' : keys'[p] < nextGen'
    BY <1>1, <1>2, <2>3 DEF GenerationsOK, WellNumbered, Keyed
  <2>5. \A p \in Keyed', q \in Paths : watches'[q].gen = keys'[p] => q = p
    BY <1>1, <1>2, <2>3 DEF GenerationsOK, WellNumbered, Keyed
  <2> QED
    BY <2>1, <2>2, <2>4, <2>5 DEF GenerationsOK
<1>6. (epoll \subseteq Watched(watches))'
  BY <1>1, <1>2 DEF TypeOK, Watched
<1>7. (missed \subseteq alive)'
  BY <1>1, <1>2 DEF TypeOK
<1> QED
  BY <1>3, <1>4, <1>5, <1>6, <1>7 DEF SourceSide

LEMMA InitHolds == Init => IInv
<1> SUFFICES ASSUME Init PROVE IInv
  OBVIOUS
<1> DEFINE S == Admitted
<1>1. /\ alive \subseteq Paths
      /\ inc = [p \in Paths |-> IF p \in alive THEN 1 ELSE 0]
      /\ keys = [p \in Paths |-> 0]
      /\ Keyed = {}
  BY DEF Init, TreeInit, Keyed
<1>2. /\ Cardinality(S) \in Nat
      /\ \A p \in S : Rank(p, S) \in Nat /\ Rank(p, S) < Cardinality(S)
      /\ \A p, q \in S : Rank(p, S) = Rank(q, S) => p = q
  <2>1. S \subseteq Paths
    BY <1>1 DEF Admitted
  <2> QED
    BY <2>1, RankFacts
<1>3. /\ nextGen = 1 + Cardinality(S)
      /\ watches = [p \in Paths |-> IF p \in S THEN NewWatch(1 + Rank(p, S), inc[p])
                                              ELSE NoWatch]
  BY DEF Init, SourceInit
<1> HIDE DEF S
<1>4. ASSUME NEW p \in Paths
      PROVE  /\ watches[p] \in Watch
             /\ watches[p].inc <= inc[p]
             /\ watches[p].gen < nextGen
             /\ p \in S => watches[p].gen = 1 + Rank(p, S)
             /\ p \notin S => watches[p].gen = 0
  <2>1. inc[p] \in Nat
    BY <1>1
  <2>2. CASE p \in S
    <3>1. 1 + Rank(p, S) \in Nat
      BY <1>2, <2>2
    <3>2. watches[p] = NewWatch(1 + Rank(p, S), inc[p])
      BY <1>3, <2>2
    <3> QED
      BY <1>2, <1>3, <2>1, <2>2, <3>1, <3>2 DEF NewWatch, Watch, Populated
  <2>3. CASE p \notin S
    BY <1>2, <1>3, <2>1, <2>3 DEF NoWatch, Watch, Populated
  <2> QED
    BY <2>2, <2>3
<1>5. \A p, q \in Paths : watches[p].gen = watches[q].gen /\ watches[p].gen # 0 => p = q
  BY <1>2, <1>4
<1>6. GenerationsOK
  BY <1>1, <1>4, <1>5 DEF GenerationsOK
<1>7. SourceTypeOK
  <2>1. nextGen \in Nat \ {0} /\ staleRoots = {}
    BY <1>2, <1>3 DEF Init, SourceInit
  <2>2. watches \in [Paths -> Watch]
    <3>1. watches = [p \in Paths |-> watches[p]]
      BY <1>3
    <3> QED
      BY <1>4, <3>1
  <2>3. setting \in Setting /\ denied \subseteq Paths
    BY UidsAssumption DEF Init, SourceInit
  <2> QED
    BY <2>1, <2>2, <2>3 DEF SourceTypeOK
<1>8. TreeTypeOK
  BY <1>1 DEF Init, TreeInit, TreeTypeOK
<1>9. TypeOK
  <2>1. epoll \subseteq Watched(watches) /\ missed \subseteq alive /\ keys \in [Paths -> Nat]
    BY <1>1 DEF Init
  <2>2. inq \in Seq(Event) /\ attempt \in 1..Attempts
    BY DEF Init, Attempts
  <2>3. {lastPayload, delivered} \cup dropped \subseteq Candidates /\ emitted \in Seq(Candidates)
    BY EmptySeq DEF Init, Candidates
  <2>4. admitted \subseteq Nat
    BY <1>7 DEF Init, SourceTypeOK, Setting
  <2> QED
    BY <1>7, <1>8, <2>1, <2>2, <2>3, <2>4 DEF TypeOK, Init
<1>10. ControlOK
  BY DEF ControlOK, Init
<1>11. RegistrationsAgree
  BY <1>1 DEF RegistrationsAgree, Init
<1> QED
  BY <1>6, <1>9, <1>10, <1>11 DEF IInv

-----------------------------------------------------------------------------
(* The steps of the tree.                                                  *)

LEMMA EnqueueKeepsType ==
    ASSUME TreeTypeOK, NEW event \in Event
    PROVE  Enqueue(event) \in Seq(Event) /\ Enqueue(event) # <<>>
<1>1. Overflow \in Event
  BY DEF Overflow, Event
<1>2. queue \in Seq(Event) /\ QueueMax \in Nat \ {0} /\ Len(queue) \in Nat
  BY BoundsAssumption DEF TreeTypeOK
<1>3. CASE Len(queue) < QueueMax
  BY <1>2, <1>3 DEF Enqueue
<1>4. CASE Len(queue) = QueueMax
  BY <1>1, <1>2, <1>4 DEF Enqueue
<1>5. CASE Len(queue) > QueueMax
  BY <1>2, <1>5 DEF Enqueue
<1> QED
  BY <1>2, <1>3, <1>4, <1>5

LEMMA TreeKeepsType ==
    ASSUME TreeTypeOK, TreeNext
    PROVE  /\ TreeTypeOK'
           /\ queue # <<>> => queue' # <<>>
           /\ \A p \in Paths : inc[p] <= inc'[p]
<1>1. ASSUME NEW p \in Paths, MakeDir(p)
      PROVE  /\ TreeTypeOK'
             /\ queue # <<>> => queue' # <<>>
             /\ \A q \in Paths : inc[q] <= inc'[q]
  <2>1. [kind |-> "create", at |-> p] \in Event
    BY DEF Event
  <2>2. queue' \in Seq(Event) /\ (queue # <<>> => queue' # <<>>)
    BY <1>1, <2>1, EnqueueKeepsType DEF MakeDir, Announce, TreeTypeOK
  <2> QED
    BY <1>1, <2>2 DEF MakeDir, TreeTypeOK
<1>2. ASSUME NEW p \in Paths, RemoveDir(p)
      PROVE  /\ TreeTypeOK'
             /\ queue # <<>> => queue' # <<>>
             /\ \A q \in Paths : inc[q] <= inc'[q]
  <2>1. [kind |-> "delete", at |-> p] \in Event
    BY DEF Event
  <2>2. queue' \in Seq(Event) /\ (queue # <<>> => queue' # <<>>)
    BY <1>2, <2>1, EnqueueKeepsType DEF RemoveDir, Announce, TreeTypeOK
  <2> QED
    BY <1>2, <2>2 DEF RemoveDir, TreeTypeOK
<1>3. ASSUME NEW p \in Paths, TogglePopulated(p)
      PROVE  /\ TreeTypeOK'
             /\ queue # <<>> => queue' # <<>>
             /\ \A q \in Paths : inc[q] <= inc'[q]
  BY <1>3 DEF TogglePopulated, TreeTypeOK
<1>4. ASSUME NEW r \in Roots, MakeRoot(r)
      PROVE  /\ TreeTypeOK'
             /\ queue # <<>> => queue' # <<>>
             /\ \A q \in Paths : inc[q] <= inc'[q]
  BY <1>4 DEF MakeRoot, TreeTypeOK
<1>5. ASSUME NEW r \in Roots, RemoveRoot(r)
      PROVE  /\ TreeTypeOK'
             /\ queue # <<>> => queue' # <<>>
             /\ \A q \in Paths : inc[q] <= inc'[q]
  <2>1. [kind |-> "gone", at |-> r] \in Event
    BY DEF Event
  <2>2. queue' \in Seq(Event) /\ (queue # <<>> => queue' # <<>>)
    BY <1>5, <2>1, EnqueueKeepsType DEF RemoveRoot, TreeTypeOK
  <2> QED
    BY <1>5, <2>2 DEF RemoveRoot, TreeTypeOK
<1> QED
  BY <1>1, <1>2, <1>3, <1>4, <1>5 DEF TreeNext

LEMMA TreeKeepsIInv == IInv /\ Tree => IInv'
<1> SUFFICES ASSUME IInv, Tree PROVE IInv'
  OBVIOUS
<1>1. /\ TreeTypeOK'
      /\ queue # <<>> => queue' # <<>>
      /\ \A p \in Paths : inc[p] <= inc'[p]
  BY TreeKeepsType DEF IInv, TypeOK, Tree
<1>2. TypeOK'
  <2>1. SourceTypeOK'
    BY DEF IInv, TypeOK, SourceTypeOK, Tree, sourceVars
  <2>2. (missed \subseteq alive)'
    BY DEF Tree
  <2>3. (epoll \subseteq Watched(watches))'
    BY DEF IInv, TypeOK, Tree, sourceVars, bookVars, Watched
  <2> QED
    BY <1>1, <2>1, <2>2, <2>3 DEF IInv, TypeOK, Tree, bookVars, reportVars
<1>3. GenerationsOK'
  <2>1. \A p \in Paths : watches[p].inc \in Nat /\ inc[p] \in Nat /\ inc'[p] \in Nat
    BY <1>1 DEF IInv, TypeOK, TreeTypeOK, SourceTypeOK, Watch
  <2>2. \A p \in Paths : watches[p].inc <= inc'[p]
    BY <1>1, <2>1 DEF IInv, GenerationsOK
  <2> QED
    BY <2>2 DEF IInv, GenerationsOK, Keyed, Tree, sourceVars, bookVars
<1>4. ControlOK'
  BY <1>1 DEF IInv, ControlOK, Tree
<1>5. RegistrationsAgree'
  BY DEF IInv, RegistrationsAgree, Keyed, Tree, bookVars
<1> QED
  BY <1>2, <1>3, <1>4, <1>5 DEF IInv

-----------------------------------------------------------------------------
(* The steps that replace watches.                                         *)

\* What such a step has to show beside SourceSide.
LEMMA ReplacedKeepsIInv ==
    ASSUME IInv, SourceSide', UNCHANGED <<fgPaths, prioPaths, keys, tokens, regFailed>>,
           TypeOK => TypeOK', ControlOK'
    PROVE  IInv'
<1>1. RegistrationsAgree'
  BY DEF IInv, RegistrationsAgree, Keyed
<1> QED
  BY <1>1 DEF IInv, SourceSide

LEMMA StaleKeepsIInv ==
    ASSUME NEW event \in ready, NEW p \in Paths, IInv, SettingKept,
           \/ HandleStalePriorityEvent(event, p)
           \/ HandlePriorityEventGone(event, p)
    PROVE  IInv'
<1>1. SourceOK
  BY DEF IInv, TypeOK, SourceOK
<1>2. WellNumbered(HandleStaleEventsPath(watches, p))
  BY <1>1, WatchesAreOlder, RescanIsWellNumbered DEF HandleStaleEventsPath
<1>3. /\ Replace(HandleStaleEventsPath(watches, p))
      /\ UNCHANGED <<up, alive, inc, populated, wd, queue, staleRoots, inq, attempt,
                     fgPaths, prioPaths, keys, tokens, regFailed, unsynced, reportVars>>
      /\ ready' = ready \ {event} /\ pc' = "sync" /\ cur' = p
  BY DEF HandleStalePriorityEvent, HandlePriorityEventGone, Take
<1>4. SourceSide'
  BY <1>2, <1>3, ReplaceKeepsSource DEF IInv, TypeOK, SourceTypeOK
<1>5. TypeOK'
  BY <1>3, <1>4 DEF IInv, TypeOK, SourceSide, SettingKept, reportVars
<1>6. ControlOK'
  BY <1>3 DEF IInv, ControlOK
<1> QED
  BY <1>3, <1>4, <1>5, <1>6, ReplacedKeepsIInv

LEMMA NextAttemptType ==
    ASSUME IInv, NextAttempt, pc \in {"inotify", "opened"}, UNCHANGED queue
    PROVE  /\ pc' \in {"inotify", "sync"}
           /\ attempt' \in 1..Attempts
           /\ UNCHANGED <<ready, inq, cur, reportVars>>
           /\ ControlOK'
<1>1. pc' \in {"inotify", "sync"}
  BY DEF NextAttempt
<1>2. attempt' \in 1..Attempts
  BY DEF NextAttempt, IInv, TypeOK, Attempts
<1>3. UNCHANGED <<ready, inq, cur, reportVars>>
  BY DEF NextAttempt
<1>4. ControlOK'
  BY <1>1, <1>3 DEF IInv, ControlOK
<1> QED
  BY <1>1, <1>2, <1>3, <1>4

\* The handlers of one attempt, whatever map of watches they leave.
LEMMA AttemptKeepsIInv ==
    ASSUME NEW ws, IInv, SettingKept, pc = "inotify", WellNumbered(ws), Replace(ws),
           NextAttempt, staleRoots' \subseteq Roots,
           UNCHANGED <<up, alive, inc, populated, wd, queue,
                       fgPaths, prioPaths, keys, tokens, regFailed, unsynced>>
    PROVE  IInv'
<1>1. SourceSide'
  BY ReplaceKeepsSource
<1>2. /\ pc' \in {"inotify", "sync"}
      /\ attempt' \in 1..Attempts
      /\ UNCHANGED <<ready, inq, cur, reportVars>>
      /\ ControlOK'
  BY NextAttemptType
<1>3. TypeOK'
  BY <1>1, <1>2 DEF IInv, TypeOK, SourceSide, SettingKept, reportVars
<1> QED
  BY <1>1, <1>2, <1>3, ReplacedKeepsIInv

LEMMA FsEventsKeepIInv ==
    ASSUME IInv, SettingKept, HandleOverflow \/ HandleRootGone \/ HandleDelete
    PROVE  IInv'
<1>1. SourceOK /\ staleRoots \subseteq Roots /\ inq \in Seq(Event) /\ (pc = "inotify" => inq # <<>>)
  BY DEF IInv, TypeOK, SourceOK, SourceTypeOK, ControlOK
<1>2. pc = "inotify" => Head(inq) \in Event
  BY <1>1
<1>3. WellNumbered(RescanRoots(watches))
  BY <1>1, WatchesAreOlder, RescanIsWellNumbered
<1>4. CASE HandleOverflow
  BY <1>1, <1>3, <1>4, AttemptKeepsIInv DEF HandleOverflow, InHand
<1>5. CASE HandleRootGone
  <2>1. Head(inq).at \in Roots
    BY <1>2, <1>5 DEF HandleRootGone, InHand, Event
  <2> QED
    BY <1>1, <1>3, <1>5, <2>1, AttemptKeepsIInv DEF HandleRootGone, InHand
<1>6. CASE HandleDelete
  <2>1. pc = "inotify" /\ Head(inq).at \in Paths
    BY <1>2, <1>6 DEF HandleDelete, InHand, Event
  <2>2. WellNumbered(Drop(watches, Head(inq).at))
    BY <1>1, <2>1, WatchesAreOlder, OlderIsWellNumbered
  <2> QED
    BY <1>1, <1>6, <2>1, <2>2, AttemptKeepsIInv DEF HandleDelete
<1> QED
  BY <1>4, <1>5, <1>6

LEMMA CreateNewKeepsIInv == IInv /\ SettingKept /\ HandleCreateNew => IInv'
<1> SUFFICES ASSUME IInv, SettingKept, HandleCreateNew PROVE IInv'
  OBVIOUS
<1>1. SourceOK /\ staleRoots' \subseteq Roots
  BY DEF IInv, TypeOK, SourceOK, SourceTypeOK, HandleCreateNew
<1>2. SourceSide'
  BY <1>1, AddIsWellNumbered, ReplaceKeepsSource DEF HandleCreateNew
<1>3. TypeOK'
  BY <1>2 DEF IInv, TypeOK, SourceSide, SettingKept, HandleCreateNew, reportVars
<1>4. ControlOK'
  BY DEF IInv, ControlOK, HandleCreateNew, InHand
<1> QED
  BY <1>2, <1>3, <1>4, ReplacedKeepsIInv DEF HandleCreateNew

LEMMA PollCurrentKeepsIInv == IInv /\ PollCurrent => IInv'
<1> SUFFICES ASSUME IInv, PollCurrent PROVE IInv'
  OBVIOUS
<1>1. /\ SettingKept
      /\ pc = "idle" /\ pc' \in {"idle", "sync"}
      /\ Replace(PollCurrentWatches(watches))
      /\ unsynced' \in BOOLEAN
      /\ UNCHANGED <<up, alive, inc, populated, wd, queue, staleRoots, ready, inq, attempt, cur,
                     fgPaths, prioPaths, keys, tokens, regFailed, reportVars>>
  <2>1. CASE PollCurrentForeground
    BY <2>1 DEF PollCurrent, PollCurrentForeground, SettingKept, IInv, TypeOK
  <2>2. CASE PollCurrentForegroundFails
    BY <2>2 DEF PollCurrent, PollCurrentForegroundFails, SettingKept
  <2> QED
    BY <2>1, <2>2 DEF PollCurrent
<1>2. SourceOK /\ staleRoots' \subseteq Roots
  BY <1>1 DEF IInv, TypeOK, SourceOK, SourceTypeOK
<1>3. SourceSide'
  BY <1>1, <1>2, PollIsWellNumbered, ReplaceKeepsSource
<1>4. TypeOK'
  BY <1>1, <1>3 DEF IInv, TypeOK, SourceSide, SettingKept, reportVars
<1>5. ControlOK'
  BY <1>1 DEF IInv, ControlOK
<1> QED
  BY <1>1, <1>3, <1>4, <1>5, ReplacedKeepsIInv

\* Another filter, another package cache, or other paths that cannot be opened.
LEMMA OutsideKeepsIInv ==
    ASSUME IInv, Configure \/ Deny
    PROVE  IInv'
<1>1. setting' \in Setting /\ denied' \subseteq Paths
  BY UidsAssumption DEF Configure, Deny, IInv, TypeOK, SourceTypeOK
<1>2. UNCHANGED <<treeVars, sourceVars, pc, ready, inq, attempt, cur, bookVars, reportVars>>
  BY DEF Configure, Deny, watchVars
<1>3. admitted' \subseteq Nat /\ missed' \subseteq alive
  BY <1>1 DEF Configure, Deny, Miss, watchVars, IInv, TypeOK, Setting
<1>4. TypeOK'
  BY <1>1, <1>2, <1>3 DEF IInv, TypeOK, TreeTypeOK, SourceTypeOK, Watched,
                          treeVars, sourceVars, bookVars, reportVars
<1>5. GenerationsOK' /\ RegistrationsAgree' /\ ControlOK'
  BY <1>2 DEF IInv, GenerationsOK, RegistrationsAgree, ControlOK, Keyed,
              treeVars, sourceVars, bookVars
<1> QED
  BY <1>4, <1>5 DEF IInv

-----------------------------------------------------------------------------
(* The steps that read a populated state, and the errors.                  *)

\* What TypeOK says of the reports.
ReportsTyped ==
    /\ {lastPayload, delivered} \cup dropped \subseteq Candidates
    /\ emitted \in Seq(Candidates)

LEMMA ReportType ==
    ASSUME NEW p \in Paths, IInv, Report(CandidateAt(p))
    PROVE  ReportsTyped'
<1>1. CandidateAt(p) \in Candidates
  BY DEF CandidateAt, CandidateForUid, Candidates
<1>2. emitted \in Seq(Candidates) /\ {lastPayload, delivered} \cup dropped \subseteq Candidates
  BY DEF IInv, TypeOK
<1>3. CASE UNCHANGED reportVars
  BY <1>2, <1>3 DEF ReportsTyped, reportVars
<1>4. CASE ~ UNCHANGED reportVars
  <2>1. /\ lastPayload' = CandidateAt(p)
        /\ emitted' = Append(emitted, CandidateAt(p))
        /\ dropped' = dropped \ {CandidateAt(p)}
        /\ UNCHANGED delivered
    BY <1>4 DEF Report
  <2>2. emitted' \in Seq(Candidates)
    BY <1>1, <1>2, <2>1
  <2> QED
    BY <1>1, <1>2, <2>1, <2>2 DEF ReportsTyped
<1> QED
  BY <1>3, <1>4

\* What a failed poll had emitted.
LEMMA LoseType ==
    ASSUME IInv, Lose
    PROVE  ReportsTyped'
<1>1. emitted \in Seq(Candidates) /\ {lastPayload, delivered} \cup dropped \subseteq Candidates
  BY DEF IInv, TypeOK
<1>2. InSeq(emitted) \subseteq Candidates
  BY <1>1 DEF InSeq
<1>3. emitted' \in Seq(Candidates)
  BY EmptySeq DEF Lose
<1> QED
  BY <1>1, <1>2, <1>3 DEF Lose, ReportsTyped

\* Writing the populated state of a watch leaves its generation and incarnation.
LEMMA SetPopulatedKeepsSource ==
    ASSUME NEW p \in Paths, IInv, SettingKept,
           watches' = SetPopulated(watches, p, ReadPopulated(p)),
           unread' \subseteq unread,
           UNCHANGED <<up, alive, inc, populated, wd, nextGen, staleRoots, keys, epoll, missed>>,
           queue' = queue
    PROVE  SourceSide'
<1>1. watches \in [Paths -> Watch]
  BY DEF IInv, TypeOK, SourceTypeOK
<1>2. ReadPopulated(p) \in Populated
  BY DEF ReadPopulated, Populated
<1>3. \A q \in Paths : /\ watches'[q] \in Watch
                       /\ watches'[q].gen = watches[q].gen
                       /\ watches'[q].inc = watches[q].inc
  BY <1>1, <1>2 DEF SetPopulated, Watch
<1>4. watches' \in [Paths -> Watch]
  BY <1>1, <1>3 DEF SetPopulated
<1>5. TreeTypeOK' /\ SourceTypeOK'
  BY <1>4 DEF IInv, TypeOK, TreeTypeOK, SourceTypeOK, SettingKept
<1>6. GenerationsOK'
  BY <1>3 DEF IInv, GenerationsOK, Keyed
<1>7. (epoll \subseteq Watched(watches) /\ missed \subseteq alive)'
  BY <1>3 DEF IInv, TypeOK, Watched
<1> QED
  BY <1>5, <1>6, <1>7 DEF SourceSide

LEMMA ReadPriorityKeepsIInv == IInv /\ SettingKept /\ ReadPriorityEvent => IInv'
<1> SUFFICES ASSUME IInv, SettingKept, ReadPriorityEvent PROVE IInv'
  OBVIOUS
<1>1. cur \in Paths
  BY DEF IInv, ControlOK, ReadPriorityEvent
<1>2. SourceSide'
  BY <1>1, SetPopulatedKeepsSource DEF ReadPriorityEvent, bookVars
<1>3. ReportsTyped'
  BY <1>1, ReportType DEF ReadPriorityEvent
<1>4. TypeOK'
  BY <1>2, <1>3 DEF ReportsTyped, IInv, TypeOK, SourceSide, SettingKept, ReadPriorityEvent, bookVars
<1>5. ControlOK'
  BY DEF IInv, ControlOK, ReadPriorityEvent
<1> QED
  BY <1>2, <1>4, <1>5, ReplacedKeepsIInv DEF ReadPriorityEvent, bookVars

LEMMA ReadNewKeepsIInv == IInv /\ SettingKept /\ ReadNewWatch => IInv'
<1> SUFFICES ASSUME IInv, SettingKept, ReadNewWatch PROVE IInv'
  OBVIOUS
<1> DEFINE p == Head(inq).at
<1>1. p \in Paths
  BY DEF IInv, TypeOK, TreeTypeOK, ReadNewWatch
<1>2. /\ pc = "opened"
      /\ watches' = SetPopulated(watches, p, ReadPopulated(p))
      /\ UNCHANGED <<treeVars, nextGen, staleRoots, bookVars, missed>>
  BY DEF ReadNewWatch
<1>3. SourceSide'
  BY <1>1, <1>2, SetPopulatedKeepsSource DEF treeVars, bookVars
<1>4. CASE CandidateAt(p) = NoCandidate
  <2>1. NextAttempt
    BY <1>4 DEF ReadNewWatch
  <2>2. /\ pc' \in {"inotify", "sync"}
        /\ attempt' \in 1..Attempts
        /\ UNCHANGED <<ready, inq, cur, reportVars>>
        /\ ControlOK'
    BY <1>2, <2>1, NextAttemptType DEF treeVars
  <2>3. TypeOK'
    BY <1>2, <1>3, <2>2 DEF IInv, TypeOK, SourceSide, SettingKept, bookVars, reportVars
  <2> QED
    BY <1>2, <1>3, <2>2, <2>3, ReplacedKeepsIInv DEF bookVars
<1>5. CASE CandidateAt(p) # NoCandidate
  <2>1. Report(CandidateAt(p)) /\ pc' = "sync" /\ UNCHANGED <<ready, inq, attempt, cur>>
    BY <1>5 DEF ReadNewWatch
  <2>2. ReportsTyped'
    BY <1>1, <2>1, ReportType
  <2>3. TypeOK'
    BY <1>2, <1>3, <2>1, <2>2 DEF ReportsTyped, IInv, TypeOK, SourceSide, SettingKept, bookVars
  <2>4. ControlOK'
    BY <1>2, <2>1 DEF IInv, ControlOK, treeVars
  <2> QED
    BY <1>2, <1>3, <2>3, <2>4, ReplacedKeepsIInv DEF bookVars
<1> QED
  BY <1>4, <1>5

LEMMA AbortKeepsIInv ==
    ASSUME IInv, SettingKept, ReadPriorityEventFails \/ ReadNewWatchFails
    PROVE  IInv'
<1>1. /\ Abort
      /\ UNCHANGED <<treeVars, sourceVars, fgPaths, prioPaths, keys, tokens, epoll, regFailed>>
  BY DEF ReadPriorityEventFails, ReadNewWatchFails, bookVars
<1>2. unsynced' \in BOOLEAN
  BY DEF ReadPriorityEventFails, ReadNewWatchFails, bookVars, IInv, TypeOK
<1>3. missed' \subseteq alive'
  BY <1>1 DEF Abort, Miss, treeVars, IInv, TypeOK
<1>4. SourceSide'
  BY <1>1, <1>3 DEF IInv, TypeOK, SourceSide, TreeTypeOK, SourceTypeOK, GenerationsOK, Keyed,
                    Watched, SettingKept, treeVars, sourceVars
<1>5. inq' \in Seq(Event) /\ attempt' \in 1..Attempts /\ cur' \in Paths \cup {NoPath}
  BY <1>1 DEF Abort, Attempts
<1>6. ReportsTyped'
  BY <1>1, LoseType DEF Abort
<1>7. TypeOK'
  BY <1>1, <1>2, <1>4, <1>5, <1>6 DEF ReportsTyped, Abort, IInv, TypeOK, SourceSide, SettingKept
<1>8. ControlOK'
  BY <1>1 DEF Abort, ControlOK
<1> QED
  BY <1>1, <1>4, <1>7, <1>8, ReplacedKeepsIInv

-----------------------------------------------------------------------------
(* The steps of the loop itself.                                           *)

LEMMA ReadySetType ==
    ASSUME IInv, NEW event \in ReadySet
    PROVE  /\ event \in ReadyEvent
           /\ event.token = InotifyToken => ~event.error /\ queue # <<>>
           /\ \A p \in Paths : p \in PathsOf(event.token) => watches[p].gen = event.token
<1>1. /\ queue \in Seq(Event)
      /\ epoll \subseteq Paths
      /\ \A p \in epoll : watches[p].gen \in Nat \ {0}
  BY DEF IInv, TypeOK, TreeTypeOK, SourceTypeOK, Watched, Watch
<1>2. \A p, q \in Paths : <<watches[q].gen, p>> \in tokens => p = q
  BY DEF IInv, RegistrationsAgree, GenerationsOK
<1>3. \A p \in Paths : <<0, p>> \notin tokens
  BY DEF IInv, RegistrationsAgree, Keyed
<1>4. CASE event = [token |-> InotifyToken, error |-> FALSE] /\ 1 \in DOMAIN queue
  BY <1>1, <1>3, <1>4 DEF ReadyEvent, InotifyToken, PathsOf
<1>5. CASE \E p \in epoll, e \in BOOLEAN : event = [token |-> watches[p].gen, error |-> e]
  <2>1. PICK q \in epoll, e \in BOOLEAN : event = [token |-> watches[q].gen, error |-> e]
    BY <1>5
  <2>2. event.token = watches[q].gen /\ event.token # 0 /\ event \in ReadyEvent
    BY <1>1, <2>1 DEF ReadyEvent
  <2>3. \A p \in Paths : p \in PathsOf(event.token) => p = q
    BY <1>1, <1>2, <2>2 DEF PathsOf
  <2> QED
    BY <2>2, <2>3 DEF InotifyToken
<1>6. \/ event \in {[token |-> InotifyToken, error |-> FALSE] : e \in {1} \cap DOMAIN queue}
      \/ event \in {[token |-> watches[p].gen, error |-> TRUE] :
                      p \in {q \in epoll : ~Live(watches, q)}}
      \/ event \in {[token |-> watches[p].gen, error |-> e] :
                      p \in {q \in epoll : Live(watches, q) /\ q \in unread},
                      e \in ErrorOnChange}
  BY DEF ReadySet
<1>7. CASE event \in {[token |-> InotifyToken, error |-> FALSE] : e \in {1} \cap DOMAIN queue}
  BY <1>4, <1>7
<1>8. CASE event \in {[token |-> watches[p].gen, error |-> TRUE] :
                      p \in {q \in epoll : ~Live(watches, q)}}
  BY <1>5, <1>8
<1>9. CASE event \in {[token |-> watches[p].gen, error |-> e] :
                      p \in {q \in epoll : Live(watches, q) /\ q \in unread},
                      e \in ErrorOnChange}
  BY <1>5, <1>9, ReactorAssumption
<1> QED
  BY <1>6, <1>7, <1>8, <1>9

LEMMA WaitKeepsIInv == IInv /\ Wait => IInv'
<1> SUFFICES ASSUME IInv, Wait PROVE IInv'
  OBVIOUS
<1>1. ready' \subseteq ReadySet
  BY DEF Wait, Batches
<1>2. ready' \subseteq ReadyEvent
  BY <1>1, ReadySetType
<1>3. TypeOK'
  BY <1>2 DEF IInv, TypeOK, TreeTypeOK, SourceTypeOK, Watched, Wait,
              treeVars, sourceVars, bookVars, reportVars
<1>4. ControlOK'
  BY <1>1, ReadySetType DEF IInv, ControlOK, Wait, treeVars
<1>5. GenerationsOK' /\ RegistrationsAgree'
  BY DEF IInv, GenerationsOK, RegistrationsAgree, Keyed, Wait, treeVars, sourceVars, bookVars
<1> QED
  BY <1>3, <1>4, <1>5 DEF IInv

\* What a sync keeps and adds: paths whose key is current stay, the others of the
\* watched paths get the key of their watch.
LEMMA SyncBooks ==
    ASSUME IInv
    PROVE  /\ KeptPaths = {p \in Paths : keys[p] # 0 /\ keys[p] = watches[p].gen}
           /\ KeptKeys = [p \in Paths |-> IF p \in KeptPaths THEN watches[p].gen ELSE 0]
           /\ KeptTokens = {<<watches[p].gen, p>> : p \in KeptPaths}
           /\ KeptPaths \cup ToRegister = Watched(watches)
           /\ KeptPaths \cap ToRegister = {}
           /\ KeptPaths \subseteq Keyed
<1>1. prioPaths = Keyed /\ tokens = {<<keys[p], p>> : p \in Keyed} /\ keys \in [Paths -> Nat]
  BY DEF IInv, RegistrationsAgree, TypeOK
<1>2. KeptPaths = {p \in Paths : keys[p] # 0 /\ keys[p] = watches[p].gen}
  BY <1>1 DEF KeptPaths, Outdated, Keyed
<1>3. KeptKeys = [p \in Paths |-> IF p \in KeptPaths THEN watches[p].gen ELSE 0]
  BY <1>1, <1>2 DEF KeptKeys, Outdated, Keyed
<1>4. KeptTokens = {<<watches[p].gen, p>> : p \in KeptPaths}
  BY <1>1, <1>2 DEF KeptTokens, Outdated, Keyed
<1>5. /\ KeptPaths \cup ToRegister = Watched(watches)
      /\ KeptPaths \cap ToRegister = {}
      /\ KeptPaths \subseteq Keyed
  BY <1>2 DEF ToRegister, Watched, Keyed
<1> QED
  BY <1>2, <1>3, <1>4, <1>5

\* The books of registrations, as far as the invariant speaks of them.
BooksOK ==
    /\ keys \in [Paths -> Nat]
    /\ prioPaths \subseteq Paths
    /\ tokens \subseteq Nat \X Paths
    /\ epoll \subseteq Watched(watches)
    /\ regFailed \in BOOLEAN
    /\ RegistrationsAgree
    /\ GenerationsOK

\* A step registers exactly the paths in S, each under the generation of its watch.
RegistersOnly(S) ==
    /\ S \subseteq Watched(watches)
    /\ prioPaths' = S
    /\ keys' = [p \in Paths |-> IF p \in S THEN watches[p].gen ELSE 0]
    /\ tokens' = {<<watches[p].gen, p>> : p \in S}

LEMMA RegisteredBooks ==
    ASSUME IInv, NEW S, RegistersOnly(S), UNCHANGED <<watches, nextGen, inc>>,
           epoll' \subseteq epoll \cup Watched(watches), regFailed' \in BOOLEAN
    PROVE  BooksOK'
<1>1. watches \in [Paths -> Watch] /\ \A p \in Paths : watches[p].gen \in Nat
  BY DEF IInv, TypeOK, SourceTypeOK, Watch
<1>2. /\ S \subseteq Paths
      /\ \A p \in S : watches[p].gen # 0
      /\ prioPaths' = S
      /\ keys' = [p \in Paths |-> IF p \in S THEN watches[p].gen ELSE 0]
      /\ tokens' = {<<watches[p].gen, p>> : p \in S}
  BY DEF RegistersOnly, Watched
<1>3. Keyed' = S
  BY <1>2 DEF Keyed
<1>4. keys' \in [Paths -> Nat] /\ tokens' \subseteq Nat \X Paths
  BY <1>1, <1>2
<1>5. RegistrationsAgree'
  BY <1>2, <1>3 DEF RegistrationsAgree
<1>6. GenerationsOK'
  BY <1>2, <1>3 DEF IInv, GenerationsOK
<1>7. (epoll \subseteq Watched(watches))'
  BY DEF IInv, TypeOK, Watched
<1> QED
  BY <1>2, <1>4, <1>5, <1>6, <1>7 DEF BooksOK

LEMMA SyncOkBooks ==
    ASSUME IInv, SyncPriorityOk, UNCHANGED <<watches, nextGen, inc>>
    PROVE  /\ BooksOK'
           /\ RegistersOnly(Watched(watches))
<1>1. /\ KeptKeys = [p \in Paths |-> IF p \in KeptPaths THEN watches[p].gen ELSE 0]
      /\ KeptTokens = {<<watches[p].gen, p>> : p \in KeptPaths}
      /\ KeptPaths \cup ToRegister = Watched(watches)
  BY SyncBooks
<1>2. RegistersOnly(Watched(watches))
  BY <1>1 DEF SyncPriorityOk, RegistersOnly, Watched
<1>3. epoll' \subseteq epoll \cup Watched(watches) /\ regFailed' \in BOOLEAN
  BY <1>1 DEF SyncPriorityOk, IInv, TypeOK
<1> QED
  BY <1>2, <1>3, RegisteredBooks

LEMMA SyncErrBooks ==
    ASSUME IInv, NEW f \in ToRegister, SyncPriorityErr(f), UNCHANGED <<watches, nextGen, inc>>
    PROVE  BooksOK'
<1>1. /\ KeptKeys = [p \in Paths |-> IF p \in KeptPaths THEN watches[p].gen ELSE 0]
      /\ KeptTokens = {<<watches[p].gen, p>> : p \in KeptPaths}
      /\ KeptPaths \cup ToRegister = Watched(watches)
  BY SyncBooks
<1>2. RegistersOnly(KeptPaths)
  BY <1>1 DEF SyncPriorityErr, RegistersOnly
<1>3. epoll' \subseteq epoll \cup Watched(watches) /\ regFailed' \in BOOLEAN
  BY <1>1 DEF SyncPriorityErr
<1> QED
  BY <1>2, <1>3, RegisteredBooks

LEMMA SyncPathsType ==
    ASSUME IInv, SyncForegroundWatchPaths
    PROVE  wd' \subseteq up /\ fgPaths' \subseteq Roots
BY DEF SyncForegroundWatchPaths, IInv, TypeOK, TreeTypeOK

LEMMA SyncKeepsIInv ==
    ASSUME IInv, SettingKept, Sync \/ SyncFails \/ New
    PROVE  IInv'
<1>1. /\ SyncForegroundWatchPaths
      /\ SyncPriorityOk \/ \E f \in ToRegister : SyncPriorityErr(f)
      /\ UNCHANGED <<up, alive, inc, populated, unread, queue, sourceVars>>
  BY DEF Sync, SyncFails, New
<1>2. BooksOK'
  BY <1>1, SyncOkBooks, SyncErrBooks DEF sourceVars
<1>3. wd' \subseteq up /\ fgPaths' \subseteq Roots
  BY <1>1, SyncPathsType
<1>4. TreeTypeOK' /\ SourceTypeOK'
  BY <1>1, <1>3 DEF IInv, TypeOK, TreeTypeOK, SourceTypeOK, SettingKept, sourceVars
<1>5. /\ pc' \in {"idle", "batch", "inotify"}
      /\ ready' \subseteq ready
      /\ inq' \in Seq(Event)
      /\ attempt' \in 1..Attempts
      /\ cur' \in Paths \cup {NoPath}
      /\ ReportsTyped'
      /\ missed' \subseteq alive
      /\ pc' = "inotify" => inq' # <<>>
      /\ pc' \in {"idle", "batch"} => inq' = <<>>
  <2>1. inq \in Seq(Event) /\ Rest \in Seq(Event)
    BY DEF Rest, IInv, TypeOK
  <2>2. CASE Sync
    BY <2>1, <2>2 DEF Sync, Continue, ReportsTyped, IInv, TypeOK, Attempts, reportVars
  <2>3. CASE SyncFails
    <3>1. ReportsTyped'
      BY <2>3, LoseType DEF SyncFails
    <3> QED
      BY <2>1, <2>3, <3>1 DEF SyncFails, Miss, IInv, TypeOK, Attempts
  <2>4. CASE New
    BY <2>1, <2>4 DEF New, ReportsTyped, IInv, TypeOK, ControlOK, reportVars
  <2> QED
    BY <2>2, <2>3, <2>4, <1>1 DEF Sync, SyncFails, New
<1>6. unsynced' \in BOOLEAN /\ admitted' \subseteq Nat
  BY <1>1 DEF SyncPriorityOk, SyncPriorityErr, SettingKept, IInv, TypeOK
<1>7. TypeOK'
  BY <1>1, <1>2, <1>3, <1>4, <1>5, <1>6 DEF ReportsTyped, IInv, TypeOK, BooksOK
<1>8. ControlOK'
  BY <1>1, <1>5 DEF IInv, ControlOK
<1> QED
  BY <1>2, <1>7, <1>8 DEF BooksOK, IInv

LEMMA LoopKeepsIInv ==
    ASSUME IInv, SettingKept,
           \/ Receive \/ EndPoll
           \/ HandleCreateKnown
           \/ \E event \in ready : \/ SkipToken(event)
                                   \/ ReadInotify(event)
                                   \/ \E p \in Paths : CheckPriorityEvent(event, p)
    PROVE  IInv'
<1>1. ASSUME UNCHANGED <<watches, nextGen, inc, keys, prioPaths, tokens>>
      PROVE  GenerationsOK' /\ RegistrationsAgree'
  BY <1>1 DEF IInv, GenerationsOK, RegistrationsAgree, Keyed
<1>2. CASE EndPoll
  <2>1. TypeOK'
    BY <1>2 DEF IInv, TypeOK, TreeTypeOK, SourceTypeOK, Watched, SettingKept, EndPoll,
                treeVars, sourceVars, bookVars, reportVars
  <2>2. ControlOK'
    BY <1>2 DEF IInv, ControlOK, EndPoll, treeVars
  <2> QED
    BY <1>1, <1>2, <2>1, <2>2 DEF IInv, EndPoll, treeVars, sourceVars, bookVars
<1>3. CASE HandleCreateKnown
  <2>1. /\ pc' \in {"inotify", "sync"}
        /\ attempt' \in 1..Attempts
        /\ UNCHANGED <<ready, inq, cur, reportVars>>
        /\ ControlOK'
    BY <1>3, NextAttemptType DEF HandleCreateKnown, InHand, treeVars
  <2>2. missed' \subseteq alive
    BY <1>3 DEF HandleCreateKnown, Miss, Unopened, IInv, TypeOK
  <2>3. TypeOK'
    BY <1>3, <2>1, <2>2 DEF IInv, TypeOK, TreeTypeOK, SourceTypeOK, Watched, SettingKept,
                            HandleCreateKnown, treeVars, sourceVars, bookVars, reportVars
  <2> QED
    BY <1>1, <1>3, <2>1, <2>3 DEF IInv, HandleCreateKnown, treeVars, sourceVars, bookVars
<1>4. ASSUME NEW event \in ready, SkipToken(event)
      PROVE  IInv'
  <2>1. TypeOK'
    BY <1>4 DEF IInv, TypeOK, TreeTypeOK, SourceTypeOK, Watched, SettingKept, SkipToken, Take,
                treeVars, sourceVars, bookVars, reportVars
  <2>2. ControlOK'
    BY <1>4 DEF IInv, ControlOK, SkipToken, Take, treeVars
  <2> QED
    BY <1>1, <1>4, <2>1, <2>2 DEF IInv, SkipToken, treeVars, sourceVars, bookVars
<1>5. ASSUME NEW event \in ready, ReadInotify(event)
      PROVE  IInv'
  <2>1. TypeOK'
    BY <1>5 DEF IInv, TypeOK, TreeTypeOK, SourceTypeOK, Watched, SettingKept, ReadInotify, Take,
                sourceVars, bookVars, reportVars
  <2>2. event \in ReadyEvent /\ event.token = InotifyToken /\ ~event.error /\ queue # <<>>
    BY <1>5 DEF IInv, TypeOK, ControlOK, ReadInotify
  <2>3. \A other \in ready : other.token = InotifyToken => other = event
    BY <2>2 DEF IInv, TypeOK, ControlOK, ReadyEvent
  <2>4. ControlOK'
    BY <1>5, <2>2, <2>3 DEF ControlOK, ReadInotify, Take
  <2> QED
    BY <1>1, <1>5, <2>1, <2>4 DEF IInv, ReadInotify, sourceVars, bookVars
<1>6. ASSUME NEW event \in ready, NEW p \in Paths, CheckPriorityEvent(event, p)
      PROVE  IInv'
  <2>1. TypeOK'
    BY <1>6 DEF IInv, TypeOK, TreeTypeOK, SourceTypeOK, Watched, SettingKept, CheckPriorityEvent, Take,
                treeVars, sourceVars, bookVars, reportVars
  <2>2. ControlOK'
    BY <1>6 DEF IInv, ControlOK, CheckPriorityEvent, Take, treeVars
  <2> QED
    BY <1>1, <1>6, <2>1, <2>2 DEF IInv, CheckPriorityEvent, treeVars, sourceVars, bookVars
<1>7. CASE Receive
  <2>1. emitted \in Seq(Candidates) /\ emitted # <<>> /\ emitted' = Tail(emitted)
    BY <1>7 DEF Receive, IInv, TypeOK
  <2>2. emitted' \in Seq(Candidates) /\ Head(emitted) \in Candidates
    BY <2>1
  <2>3. TypeOK'
    BY <1>7, <2>2 DEF IInv, TypeOK, TreeTypeOK, SourceTypeOK, Watched, SettingKept, Receive,
                      treeVars, sourceVars, bookVars
  <2>4. ControlOK'
    BY <1>7 DEF IInv, ControlOK, Receive, treeVars
  <2> QED
    BY <1>1, <1>7, <2>3, <2>4 DEF IInv, Receive, treeVars, sourceVars, bookVars
<1> QED
  BY <1>2, <1>3, <1>4, <1>5, <1>6, <1>7

LEMMA StutterKeepsIInv == IInv /\ UNCHANGED vars => IInv'
<1> SUFFICES ASSUME IInv, UNCHANGED vars PROVE IInv'
  OBVIOUS
<1>1. TypeOK'
  BY DEF IInv, TypeOK, TreeTypeOK, SourceTypeOK, Watched,
         vars, watchVars, treeVars, sourceVars, bookVars, reportVars
<1>2. GenerationsOK' /\ RegistrationsAgree' /\ ControlOK'
  BY DEF IInv, GenerationsOK, RegistrationsAgree, ControlOK, Keyed,
         vars, watchVars, treeVars, sourceVars, bookVars
<1> QED
  BY <1>1, <1>2 DEF IInv

LEMMA NextKeepsIInv == IInv /\ [Next]_vars => IInv'
<1> SUFFICES ASSUME IInv, [Next]_vars PROVE IInv'
  OBVIOUS
<1>1. CASE Tree
  BY <1>1, TreeKeepsIInv
<1>2. CASE Configure \/ Deny
  BY <1>2, OutsideKeepsIInv
<1>3. CASE New
  BY <1>3, SyncKeepsIInv DEF New, SettingKept
<1>4. CASE Wait
  BY <1>4, WaitKeepsIInv
<1>5. CASE PollCurrent
  BY <1>5, PollCurrentKeepsIInv
<1>6. CASE PollStep
  <2>1. SettingKept
    BY <1>6 DEF PollStep, SettingKept
  <2>2. CASE HandlePriority
    BY <2>1, <2>2, StaleKeepsIInv, LoopKeepsIInv DEF HandlePriority
  <2>3. CASE HandleInotify
    BY <2>1, <2>3, FsEventsKeepIInv, CreateNewKeepsIInv, LoopKeepsIInv DEF HandleInotify
  <2>4. CASE ReadPriorityEvent \/ ReadNewWatch
    BY <2>1, <2>4, ReadPriorityKeepsIInv, ReadNewKeepsIInv
  <2>5. CASE ReadPriorityEventFails \/ ReadNewWatchFails
    BY <2>1, <2>5, AbortKeepsIInv
  <2>6. CASE Sync \/ SyncFails
    BY <2>1, <2>6, SyncKeepsIInv
  <2>7. CASE Receive \/ EndPoll
    BY <2>1, <2>7, LoopKeepsIInv
  <2> QED
    BY <1>6, <2>2, <2>3, <2>4, <2>5, <2>6, <2>7 DEF PollStep
<1>7. CASE UNCHANGED vars
  BY <1>7, StutterKeepsIInv
<1> QED
  BY <1>1, <1>2, <1>3, <1>4, <1>5, <1>6, <1>7 DEF Next

LEMMA Invariance == Spec => []IInv
BY InitHolds, NextKeepsIInv, PTL DEF Spec

\* Every variable keeps its type, epoll holds only descriptors of open watches, and
\* the history of missed directories names directories that exist.
THEOREM TypeCorrect == Spec => []TypeOK
<1>1. IInv => TypeOK
  BY DEF IInv
<1> QED
  BY <1>1, Invariance, PTL

\* The three books of priority registrations in watch.rs never disagree, whatever was
\* replaced, dropped or refused.
THEOREM BooksAgree == Spec => []RegistrationsAgree
<1>1. IInv => RegistrationsAgree
  BY DEF IInv
<1> QED
  BY <1>1, Invariance, PTL

-----------------------------------------------------------------------------
(* Readiness events reach the watch they were raised for.                  *)

LEMMA SyncIsCurrent ==
    ASSUME IInv, SyncPriorityOk, UNCHANGED <<watches, nextGen, inc>>
    PROVE  \A token : \A p \in Paths : p \in PathsOf(token)' => watches[p].gen = token
<1>1. tokens' = {<<watches[p].gen, p>> : p \in Watched(watches)}
  BY SyncOkBooks DEF RegistersOnly
<1> QED
  BY <1>1 DEF PathsOf, Watched

LEMMA NextKeepsNoMisdirected ==
    IInv /\ NoMisdirectedEvent /\ [Next]_vars => NoMisdirectedEvent'
<1> SUFFICES ASSUME IInv, NoMisdirectedEvent, [Next]_vars, pc' = "batch",
                    NEW event \in ready', NEW p \in Paths, p \in PathsOf(event.token)'
             PROVE  watches'[p].gen = event.token
  BY DEF NoMisdirectedEvent
<1>1. CASE Wait
  <2>1. event \in ReadySet /\ UNCHANGED <<watches, tokens>>
    BY <1>1 DEF Wait, Batches, sourceVars, bookVars
  <2>2. p \in PathsOf(event.token)
    BY <2>1 DEF PathsOf
  <2> QED
    BY <2>1, <2>2, ReadySetType
<1>2. CASE Sync
  BY <1>2, SyncIsCurrent DEF Sync, sourceVars
<1>3. CASE \E other \in ready : SkipToken(other)
  <2>1. pc = "batch" /\ event \in ready /\ UNCHANGED <<watches, tokens>>
    BY <1>3 DEF SkipToken, Take, sourceVars, bookVars
  <2> QED
    BY <2>1 DEF NoMisdirectedEvent, PathsOf
<1>4. CASE Tree \/ Deny \/ UNCHANGED vars
  <2>1. pc = "batch" /\ event \in ready /\ UNCHANGED <<watches, tokens>>
    BY <1>4 DEF Tree, Deny, vars, watchVars, sourceVars, bookVars
  <2> QED
    BY <2>1 DEF NoMisdirectedEvent, PathsOf
<1>5. ~(New \/ Configure \/ SyncFails \/ PollCurrent \/ Receive \/ EndPoll)
  BY DEF New, Configure, SyncFails, PollCurrent, PollCurrentForeground,
         PollCurrentForegroundFails, Receive, EndPoll
<1>6. ~(ReadPriorityEvent \/ ReadPriorityEventFails \/ ReadNewWatch \/ ReadNewWatchFails)
  BY DEF ReadPriorityEvent, ReadPriorityEventFails, ReadNewWatch, ReadNewWatchFails,
         Abort, NextAttempt
<1>7. ~HandleInotify
  BY DEF HandleInotify, ReadInotify, HandleOverflow, HandleRootGone, HandleDelete,
         HandleCreateKnown, HandleCreateNew, NextAttempt
<1>8. HandlePriority => \E other \in ready : SkipToken(other)
  BY DEF HandlePriority, HandleStalePriorityEvent, HandlePriorityEventGone, CheckPriorityEvent
<1> QED
  BY <1>1, <1>2, <1>3, <1>4, <1>5, <1>6, <1>7, <1>8 DEF Next, PollStep

\* For every tree, filter and batch size: no readiness event is handled against a
\* watch that replaced the one whose descriptor was ready.
THEOREM EventsReachTheirWatch == Spec => []NoMisdirectedEvent
<1>1. Init => NoMisdirectedEvent
  BY DEF Init, NoMisdirectedEvent
<1> QED
  BY <1>1, Invariance, NextKeepsNoMisdirected, PTL DEF Spec

-----------------------------------------------------------------------------
(* No watch is deaf.                                                       *)

Heard(p) == p \in epoll /\ keys[p] = watches[p].gen

\* NoDeafWatch is not inductive: an abort between two reads returns to "idle" past the
\* sync.  What makes it hold is that only a CREATE in hand can abort, that it touches
\* no watch but its own path's, and that it aborts because that path is gone, or else
\* owes the sync (unsynced) that the next event brings.
HearingInv ==
    ~regFailed =>
        /\ ~unsynced /\ (pc \in {"idle", "batch", "checked"} \/ (pc = "inotify" /\ attempt = 1))
           => \A p \in Paths : Live(watches, p) => Heard(p)
        /\ ~unsynced /\ pc \in {"inotify", "opened"} /\ Head(inq).kind \in {"create", "delete"}
           => \A p \in Paths \ {Head(inq).at} : Live(watches, p) => Heard(p)
        /\ \A p \in Keyed : keys[p] = watches[p].gen => p \in epoll

\* A step of the tree makes no watch live: a directory made again is another one.
LEMMA TreeRevivesNothing ==
    ASSUME IInv, Tree, NEW p \in Paths, Live(watches, p)'
    PROVE  Live(watches, p)
<1>1. /\ UNCHANGED watches
      /\ watches[p].inc \in Nat /\ watches[p].inc <= inc[p] /\ inc \in [Paths -> Nat]
  BY DEF IInv, TypeOK, TreeTypeOK, SourceTypeOK, GenerationsOK, Watch, Tree, sourceVars
<1>2. p \in alive' /\ watches[p].gen # 0 /\ watches[p].inc = inc'[p]
  BY <1>1 DEF Live
<1>3. CASE \E q \in Paths : MakeDir(q)
  <2>1. PICK q \in Paths : MakeDir(q)
    BY <1>3
  <2>2. p # q
    BY <1>1, <1>2, <2>1 DEF MakeDir
  <2> QED
    BY <1>1, <1>2, <2>1, <2>2 DEF MakeDir, Live
<1>4. CASE ~\E q \in Paths : MakeDir(q)
  <2>1. alive' \subseteq alive /\ inc' = inc
    BY <1>4 DEF Tree, TreeNext, RemoveDir, TogglePopulated, MakeRoot, RemoveRoot
  <2> QED
    BY <1>2, <2>1 DEF Live
<1> QED
  BY <1>3, <1>4

\* Registrations survive a replacement of other watches.
LEMMA ReplaceKeepsHearing ==
    ASSUME NEW ws, IInv, WellNumbered(ws), Replace(ws), UNCHANGED keys,
           \A p \in Keyed : keys[p] = watches[p].gen => p \in epoll
    PROVE  /\ \A p \in Keyed' : keys'[p] = watches'[p].gen => p \in epoll'
           /\ \A p \in Paths : watches'[p].gen = watches[p].gen /\ Heard(p) => Heard(p)'
<1>1. watches' = ws /\ epoll' = {p \in epoll : ws[p].gen = watches[p].gen}
  BY DEF Replace, Install
<1>2. \A p \in Keyed : keys[p] # 0 /\ keys[p] < nextGen
  BY DEF IInv, GenerationsOK, Keyed
<1>3. \A p \in Paths : ws[p].gen < nextGen => ws[p].gen \in {0, watches[p].gen}
  BY DEF WellNumbered
<1> QED
  BY <1>1, <1>2, <1>3 DEF Heard, Keyed

LEMMA UnchangedHearing ==
    ASSUME UNCHANGED <<watches, epoll, keys>>
    PROVE  /\ \A p \in Paths : Heard(p)' <=> Heard(p)
           /\ Keyed' = Keyed
BY DEF Heard, Keyed

LEMMA SyncIsHeard ==
    ASSUME IInv, SyncPriorityOk, UNCHANGED <<watches, nextGen, inc>>,
           \A p \in Keyed : keys[p] = watches[p].gen => p \in epoll
    PROVE  \A p \in Watched(watches) : Heard(p)'
<1>1. /\ \A p \in Watched(watches) : keys'[p] = watches[p].gen
      /\ KeptPaths \cup ToRegister = Watched(watches)
      /\ \A p \in KeptPaths : p \in Keyed /\ keys[p] = watches[p].gen
  BY SyncOkBooks, SyncBooks DEF RegistersOnly, Watched
<1>2. epoll' = epoll \cup ToRegister
  BY DEF SyncPriorityOk
<1> QED
  BY <1>1, <1>2 DEF Heard

\* Steps that leave watches and registrations alone, and do not newly owe anything.
LEMMA QuietKeepsHearing ==
    ASSUME HearingInv, UNCHANGED <<watches, epoll, keys>>, regFailed' = regFailed,
           \A p \in Paths : Live(watches, p)' => Live(watches, p),
           /\ ~regFailed /\ ~unsynced'
           /\ pc' \in {"idle", "batch", "checked"} \/ (pc' = "inotify" /\ attempt' = 1)
           => \A p \in Paths : Live(watches, p) => Heard(p),
           /\ ~regFailed /\ ~unsynced'
           /\ pc' \in {"inotify", "opened"} /\ Head(inq').kind \in {"create", "delete"}
           => \A p \in Paths \ {Head(inq').at} : Live(watches, p) => Heard(p)
    PROVE  HearingInv'
<1>1. /\ \A p \in Paths : Heard(p)' <=> Heard(p)
      /\ Keyed' = Keyed
  BY UnchangedHearing
<1> QED
  BY <1>1 DEF HearingInv

\* Replacements after which nothing is owed before the next sync, but for the paths
\* that a DELETE or a CREATE does not touch.
LEMMA ReplacementKeepsHearing ==
    ASSUME NEW ws, IInv, HearingInv, WellNumbered(ws), Replace(ws),
           UNCHANGED <<keys, alive, inc>>, regFailed' = regFailed, unsynced' = unsynced,
           \/ pc' = "sync"
           \/ /\ pc' = "opened" \/ (pc' = "inotify" /\ attempt' # 1)
              /\ pc = "inotify" /\ inq' = inq
              /\ Head(inq).kind \in {"create", "delete"} =>
                    \A p \in Paths \ {Head(inq).at} : ws[p] = watches[p]
    PROVE  HearingInv'
<1> SUFFICES ASSUME ~regFailed PROVE HearingInv'
  BY DEF HearingInv
<1>1. /\ \A p \in Keyed' : keys'[p] = watches'[p].gen => p \in epoll'
      /\ \A p \in Paths : watches'[p].gen = watches[p].gen /\ Heard(p) => Heard(p)'
  BY ReplaceKeepsHearing DEF HearingInv
<1>2. watches' = ws
  BY DEF Replace, Install
<1>3. ASSUME NEW p \in Paths, ws[p] = watches[p], Live(watches, p)'
      PROVE  Live(watches, p)
  BY <1>2, <1>3 DEF Live
<1>4. CASE pc' = "sync"
  BY <1>1, <1>4 DEF HearingInv
<1>5. CASE pc' # "sync"
  <2>1. ~unsynced /\ Head(inq').kind \in {"create", "delete"} =>
          \A p \in Paths \ {Head(inq').at} : Live(watches, p)' => Heard(p)'
    BY <1>1, <1>2, <1>3, <1>5 DEF HearingInv
  <2> QED
    BY <1>1, <1>5, <2>1 DEF HearingInv
<1> QED
  BY <1>4, <1>5

LEMMA AttemptMovesOn ==
    ASSUME IInv, NextAttempt
    PROVE  (pc' = "sync" \/ (pc' = "inotify" /\ attempt' # 1)) /\ inq' = inq
BY DEF NextAttempt, IInv, TypeOK, Attempts

\* What poll_current leaves of a watch it did not open is the watch itself, or nothing.
LEMMA PollKeepsTheRest ==
    ASSUME IInv, NEW p \in Paths, PollCurrentWatches(watches)[p].gen # 0,
           p \notin Opened(PollCurrentWatches(watches))
    PROVE  /\ PollCurrentWatches(watches)[p].gen = watches[p].gen
           /\ PollCurrentWatches(watches)[p].inc = watches[p].inc
<1> DEFINE read == [q \in Paths |->
                      IF q \in (Visited(watches) \ denied) \cap alive
                      THEN [watches[q] EXCEPT !.populated = ReadPopulated(q)]
                      ELSE watches[q]]
           kept == [q \in Paths |-> IF q \in alive THEN read[q] ELSE NoWatch]
           S == Unwatched(kept)
<1>1. watches \in [Paths -> Watch] /\ nextGen \in Nat /\ inc \in [Paths -> Nat]
  BY DEF IInv, TypeOK, SourceTypeOK, TreeTypeOK
<1>2. read[p].gen = watches[p].gen /\ read[p].inc = watches[p].inc
  BY <1>1 DEF Watch
<1>3. PollCurrentWatches(watches)[p] \in {read[p], RescanRoots(read)[p]}
  BY DEF PollCurrentWatches
<1>4. RescanRoots(read)[p] = IF p \in S THEN NewWatch(nextGen + Rank(p, S), inc[p]) ELSE kept[p]
  BY DEF RescanRoots, ScanRoots
<1>5. kept[p] \in {read[p], NoWatch} /\ NoWatch.gen = 0
  BY DEF NoWatch
<1>6. S \subseteq Paths
  BY DEF Unwatched, Admitted, IInv, TypeOK, TreeTypeOK
<1> HIDE DEF read, kept, S
<1>7. CASE p \in S
  <2>1. Rank(p, S) \in Nat
    BY <1>6, <1>7, RankFacts
  <2>2. RescanRoots(read)[p].gen >= nextGen
    BY <1>1, <1>4, <1>7, <2>1 DEF NewWatch
  <2>3. PollCurrentWatches(watches)[p] # RescanRoots(read)[p]
    BY <2>2 DEF Opened
  <2> QED
    BY <1>2, <1>3, <2>3
<1>8. CASE p \notin S
  BY <1>2, <1>3, <1>4, <1>5, <1>8
<1> QED
  BY <1>7, <1>8

LEMMA PollFailureKeepsHearing == IInv /\ HearingInv /\ PollCurrentForegroundFails => HearingInv'
<1> SUFFICES ASSUME IInv, HearingInv, PollCurrentForegroundFails, ~regFailed
             PROVE  HearingInv'
  BY DEF PollCurrentForegroundFails, HearingInv
<1> DEFINE ws == PollCurrentWatches(watches)
<1>1. /\ pc = "idle" /\ pc' = "idle"
      /\ Replace(ws)
      /\ watches' = ws
      /\ unsynced' = (unsynced \/ Opened(ws) # {})
      /\ UNCHANGED <<keys, alive, inc>>
  BY DEF PollCurrentForegroundFails, Replace, Install
<1>2. WellNumbered(ws)
  BY PollIsWellNumbered DEF IInv, TypeOK, SourceOK
<1>3. /\ \A p \in Keyed' : keys'[p] = watches'[p].gen => p \in epoll'
      /\ \A p \in Paths : watches'[p].gen = watches[p].gen /\ Heard(p) => Heard(p)'
  BY <1>1, <1>2, ReplaceKeepsHearing DEF HearingInv
<1>4. ASSUME ~unsynced', NEW p \in Paths, Live(watches, p)'
      PROVE  Heard(p)'
  <2>1. ~unsynced /\ p \notin Opened(ws) /\ ws[p].gen # 0
    BY <1>1, <1>4 DEF Live
  <2>2. ws[p].gen = watches[p].gen /\ ws[p].inc = watches[p].inc
    BY <2>1, PollKeepsTheRest
  <2>3. Live(watches, p)
    BY <1>1, <1>4, <2>2 DEF Live
  <2> QED
    BY <1>1, <1>3, <2>1, <2>2, <2>3 DEF HearingInv
<1> QED
  BY <1>1, <1>3, <1>4 DEF HearingInv

LEMMA NextKeepsHearing == IInv /\ HearingInv /\ [Next]_vars => HearingInv'
<1> SUFFICES ASSUME IInv, HearingInv, [Next]_vars PROVE HearingInv'
  OBVIOUS
<1>1. SourceOK /\ inq \in Seq(Event) /\ (pc \in {"inotify", "opened"} => inq # <<>>)
  BY DEF IInv, TypeOK, SourceOK, ControlOK
<1>2. CASE Tree
  <2>1. /\ UNCHANGED <<watches, epoll, keys, pc, attempt, inq>>
        /\ regFailed' = regFailed /\ unsynced' = unsynced
    BY <1>2 DEF Tree, sourceVars, bookVars
  <2>2. \A p \in Paths : Live(watches, p)' => Live(watches, p)
    BY <1>2, TreeRevivesNothing
  <2> QED
    BY <2>1, <2>2, QuietKeepsHearing DEF HearingInv
<1>3. CASE New \/ Sync
  <2>1. /\ SyncPriorityOk
        /\ UNCHANGED <<watches, nextGen, inc, alive>>
        /\ regFailed' = regFailed
    BY <1>3 DEF New, Sync, SyncPriorityOk, sourceVars
  <2> SUFFICES ASSUME ~regFailed PROVE HearingInv'
    BY <2>1 DEF HearingInv
  <2>2. \A p \in Watched(watches) : Heard(p)'
    BY <2>1, SyncIsHeard DEF HearingInv
  <2>3. \A p \in Paths : Live(watches, p)' => Heard(p)'
    BY <2>1, <2>2 DEF Live, Watched
  <2>4. \A p \in Keyed' : keys'[p] = watches'[p].gen => p \in epoll'
    BY <2>1, <2>2 DEF Keyed, Watched, Heard
  <2> QED
    BY <2>3, <2>4 DEF HearingInv
<1>4. CASE SyncFails
  BY <1>4 DEF SyncFails, SyncPriorityErr, HearingInv
<1>5. CASE PollCurrentForeground
  BY <1>1, <1>5, PollIsWellNumbered, ReplacementKeepsHearing DEF PollCurrentForeground
<1>6. CASE PollCurrentForegroundFails
  BY <1>6, PollFailureKeepsHearing
<1>7. CASE HandleOverflow \/ HandleRootGone
  <2>1. WellNumbered(RescanRoots(watches))
    BY <1>1, WatchesAreOlder, RescanIsWellNumbered
  <2>2. Head(inq).kind \notin {"create", "delete"}
    BY <1>7 DEF HandleOverflow, HandleRootGone, InHand
  <2> QED
    BY <1>7, <2>1, <2>2, AttemptMovesOn, ReplacementKeepsHearing
       DEF HandleOverflow, HandleRootGone, InHand
<1>8. CASE HandleDelete
  <2>1. pc = "inotify" /\ Head(inq) \in Event
    BY <1>1, <1>8 DEF HandleDelete, InHand
  <2>2. Head(inq).at \in Paths
    BY <1>8, <2>1 DEF HandleDelete, InHand, Event
  <2>3. WellNumbered(Drop(watches, Head(inq).at))
    BY <1>1, <2>2, WatchesAreOlder, OlderIsWellNumbered
  <2>4. \A p \in Paths \ {Head(inq).at} : Drop(watches, Head(inq).at)[p] = watches[p]
    BY <1>1 DEF Drop, SourceOK, SourceTypeOK
  <2> QED
    BY <1>8, <2>1, <2>3, <2>4, AttemptMovesOn, ReplacementKeepsHearing DEF HandleDelete
<1>9. CASE HandleCreateNew
  <2>1. WellNumbered(AddUidWatch(watches, Head(inq).at))
    BY <1>1, <1>9, AddIsWellNumbered DEF HandleCreateNew
  <2>2. \A p \in Paths \ {Head(inq).at} : AddUidWatch(watches, Head(inq).at)[p] = watches[p]
    BY <1>1 DEF AddUidWatch, SourceOK, SourceTypeOK
  <2> QED
    BY <1>9, <2>1, <2>2, ReplacementKeepsHearing DEF HandleCreateNew, InHand
<1>10. ASSUME NEW event \in ready, NEW p \in Paths,
             HandleStalePriorityEvent(event, p) \/ HandlePriorityEventGone(event, p)
      PROVE  HearingInv'
  <2>1. WellNumbered(HandleStaleEventsPath(watches, p))
    BY <1>1, WatchesAreOlder, RescanIsWellNumbered DEF HandleStaleEventsPath
  <2> QED
    BY <1>10, <2>1, ReplacementKeepsHearing DEF HandleStalePriorityEvent, HandlePriorityEventGone
<1>11. CASE ReadPriorityEvent \/ ReadNewWatch
  <2> DEFINE q == IF pc = "checked" THEN cur ELSE Head(inq).at
  <2>1. /\ watches' = SetPopulated(watches, q, ReadPopulated(q))
        /\ UNCHANGED <<alive, inc, epoll, keys>>
        /\ regFailed' = regFailed /\ unsynced' = unsynced
    BY <1>11 DEF ReadPriorityEvent, ReadNewWatch, treeVars, bookVars
  <2>2. \A p \in Paths : watches'[p].gen = watches[p].gen /\ watches'[p].inc = watches[p].inc
    BY <1>1, <2>1 DEF SetPopulated, SourceOK, SourceTypeOK, Watch
  <2>3. \A p \in Paths : /\ Heard(p)' <=> Heard(p)
                         /\ Live(watches, p)' => Live(watches, p)
    BY <2>1, <2>2 DEF Heard, Live
  <2>4. \A p \in Keyed' : p \in Keyed /\ keys'[p] = keys[p]
    BY <2>1 DEF Keyed
  <2>5. pc' = "sync" \/ (pc' = "inotify" /\ attempt' # 1 /\ inq' = inq /\ pc = "opened")
    BY <1>11, AttemptMovesOn DEF ReadPriorityEvent, ReadNewWatch
  <2> HIDE DEF q
  <2> SUFFICES ASSUME ~regFailed PROVE HearingInv'
    BY <2>1 DEF HearingInv
  <2>6. \A p \in Keyed' : keys'[p] = watches'[p].gen => p \in epoll'
    BY <2>1, <2>2, <2>4 DEF HearingInv, Keyed
  <2>7. ~unsynced /\ pc' = "inotify" /\ Head(inq').kind \in {"create", "delete"}
          => \A p \in Paths \ {Head(inq').at} : Live(watches, p)' => Heard(p)'
    BY <2>3, <2>5 DEF HearingInv
  <2> QED
    BY <2>1, <2>5, <2>6, <2>7 DEF HearingInv
<1>12. CASE ReadPriorityEventFails
  <2>1. /\ pc = "checked" /\ pc' = "idle"
        /\ UNCHANGED <<watches, epoll, keys, alive, inc>>
        /\ regFailed' = regFailed /\ unsynced' = unsynced
    BY <1>12 DEF ReadPriorityEventFails, Abort, treeVars, sourceVars, bookVars
  <2> QED
    BY <2>1, QuietKeepsHearing DEF HearingInv, Live
<1>13. CASE ReadNewWatchFails
  <2>1. /\ pc = "opened" /\ pc' = "idle"
        /\ unsynced' = (unsynced \/ Head(inq).at \in alive)
        /\ UNCHANGED <<watches, epoll, keys, alive, inc>> /\ regFailed' = regFailed
    BY <1>13 DEF ReadNewWatchFails, Abort, treeVars, sourceVars
  <2>2. Head(inq).kind = "create"
    BY <2>1 DEF IInv, ControlOK
  <2>3. ~unsynced' => ~unsynced /\ \A p \in Paths : Live(watches, p) => p # Head(inq).at
    BY <2>1 DEF Live
  <2>4. ~regFailed /\ ~unsynced' => \A p \in Paths : Live(watches, p) => Heard(p)
    BY <2>1, <2>2, <2>3 DEF HearingInv
  <2> QED
    BY <2>1, <2>4, QuietKeepsHearing DEF Live
<1>14. CASE \/ Wait \/ Receive \/ EndPoll
             \/ \E event \in ready : \/ SkipToken(event)
                                     \/ ReadInotify(event)
                                     \/ \E p \in Paths : CheckPriorityEvent(event, p)
  <2>1. /\ pc \in {"idle", "batch"}
        /\ UNCHANGED <<watches, epoll, keys, alive, inc>>
        /\ regFailed' = regFailed /\ unsynced' = unsynced
    BY <1>14 DEF Wait, Receive, EndPoll, SkipToken, ReadInotify, CheckPriorityEvent, Take,
                 treeVars, sourceVars, bookVars
  <2> QED
    BY <2>1, QuietKeepsHearing DEF HearingInv, Live
<1>15. CASE HandleCreateKnown
  <2>1. /\ pc = "inotify"
        /\ UNCHANGED <<watches, epoll, keys, alive, inc>>
        /\ regFailed' = regFailed /\ unsynced' = unsynced
        /\ (pc' = "sync" \/ (pc' = "inotify" /\ attempt' # 1)) /\ inq' = inq
    BY <1>15, AttemptMovesOn DEF HandleCreateKnown, InHand, treeVars, sourceVars, bookVars
  <2> QED
    BY <2>1, QuietKeepsHearing DEF HearingInv, Live
<1>16. CASE Configure \/ Deny \/ UNCHANGED vars
  <2>1. UNCHANGED <<watches, epoll, keys, alive, inc, pc, attempt, inq, regFailed, unsynced>>
    BY <1>16 DEF Configure, Deny, vars, watchVars, treeVars, sourceVars, bookVars
  <2> QED
    BY <2>1, QuietKeepsHearing DEF HearingInv, Live
<1> QED
  BY <1>2, <1>3, <1>4, <1>5, <1>6, <1>7, <1>8, <1>9, <1>10, <1>11, <1>12, <1>13, <1>14, <1>15,
     <1>16 DEF Next, PollStep, PollCurrent, HandlePriority, HandleInotify

\* As long as epoll refuses nothing and no error returned past the sync of a new watch,
\* every watch on an existing directory is registered under its current generation
\* whenever the loop is between two events.
THEOREM NothingIsDeaf == Spec => []NoDeafWatch
<1>1. Init => HearingInv
  BY DEF Init, HearingInv, Keyed
<1>2. HearingInv => NoDeafWatch
  BY DEF HearingInv, NoDeafWatch, Heard
<1> QED
  BY <1>1, <1>2, Invariance, NextKeepsHearing, PTL DEF Spec

-----------------------------------------------------------------------------
(* No directory is lost.                                                   *)

IsDelete(event, p) == event.kind = "delete" /\ event.at = p

ToldBy(seq, p) == \E i \in DOMAIN seq : Tells(seq[i], p)

ToldAfter(seq, i, p) == \E j \in DOMAIN seq : j > i /\ Tells(seq[j], p)

\* Behind every event of a removal of p, an event that leads to p again: in the same
\* sequence, or among the events told since the sequence was read.
Followed(told, read, p) ==
    /\ \A i \in DOMAIN told : IsDelete(told[i], p) => ToldAfter(told, i, p)
    /\ \A i \in DOMAIN read : IsDelete(read[i], p) => ToldAfter(read, i, p) \/ ToldBy(told, p)

\* A queue that dropped an event ends in the overflow, and the removal of a directory
\* that exists again, or whose root nobody watches, is not the last word on it.
QueueInv ==
    /\ Len(queue) > QueueMax => queue[Len(queue)] = Overflow
    /\ \A p \in Paths : p \in alive \/ RootOf[p] \notin wd => Followed(queue, inq, p)

Extends(new, old) ==
    /\ Len(old) <= Len(new)
    /\ \A i \in DOMAIN old : new[i] = old[i]

\* What the queue holds once an event was offered to it.
LEMMA EnqueueFacts ==
    ASSUME NEW event \in Event, TreeTypeOK,
           Len(queue) > QueueMax => queue[Len(queue)] = Overflow
    PROVE  /\ Enqueue(event) \in Seq(Event)
           /\ Extends(Enqueue(event), queue)
           /\ \A i \in DOMAIN Enqueue(event) \ DOMAIN queue :
                 Enqueue(event)[i] \in {event, Overflow}
           /\ Enqueue(event)[Len(Enqueue(event))] \in {event, Overflow}
           /\ Enqueue(event) # <<>>
           /\ Len(Enqueue(event)) > QueueMax =>
                 Enqueue(event)[Len(Enqueue(event))] = Overflow
<1>1. Overflow \in Event
  BY DEF Overflow, Event
<1>2. queue \in Seq(Event) /\ QueueMax \in Nat \ {0} /\ Len(queue) \in Nat
  BY BoundsAssumption DEF TreeTypeOK
<1>3. ASSUME NEW new, NEW e \in {event, Overflow}, new = Append(queue, e)
      PROVE  /\ new \in Seq(Event)
             /\ Len(new) = Len(queue) + 1
             /\ Extends(new, queue)
             /\ \A i \in DOMAIN new \ DOMAIN queue : new[i] = e
             /\ new[Len(new)] = e
             /\ new # <<>>
  <2>1. /\ new \in Seq(Event)
        /\ new # <<>>
        /\ Len(new) = Len(queue) + 1
        /\ \A i \in 1..Len(queue) : new[i] = queue[i]
        /\ new[Len(queue) + 1] = e
    BY <1>1, <1>2, <1>3, AppendProperties
  <2>2. DOMAIN new = 1..(Len(queue) + 1) /\ DOMAIN queue = 1..Len(queue)
    BY <1>2, <2>1
  <2> QED
    BY <1>2, <2>1, <2>2 DEF Extends
<1>4. CASE Len(queue) < QueueMax
  <2>1. Enqueue(event) = Append(queue, event)
    BY <1>4 DEF Enqueue
  <2>2. Len(Enqueue(event)) = Len(queue) + 1
    BY <1>3, <2>1
  <2>3. ~(Len(Enqueue(event)) > QueueMax)
    BY <1>2, <1>4, <2>2
  <2> QED
    BY <1>3, <2>1, <2>3
<1>5. CASE Len(queue) = QueueMax
  <2>1. Enqueue(event) = Append(queue, Overflow)
    BY <1>2, <1>5 DEF Enqueue
  <2> QED
    BY <1>2, <1>3, <1>5, <2>1
<1>6. CASE Len(queue) > QueueMax
  <2>1. Enqueue(event) = queue
    BY <1>2, <1>6 DEF Enqueue
  <2>2. queue # <<>> /\ queue[Len(queue)] = Overflow
    BY <1>2, <1>6, EmptySeq
  <2>3. Extends(queue, queue)
    BY <1>2 DEF Extends
  <2> QED
    BY <1>2, <2>1, <2>2, <2>3
<1> QED
  BY <1>2, <1>4, <1>5, <1>6

\* What was told stays told when the queue grows, and what was followed stays followed
\* as long as no removal of p is added.
LEMMA GrowthKeepsFollowed ==
    ASSUME NEW old \in Seq(Event), NEW new \in Seq(Event), NEW read, NEW p, Extends(new, old)
    PROVE  /\ ToldBy(old, p) => ToldBy(new, p)
           /\ /\ Followed(old, read, p)
              /\ \A i \in DOMAIN new \ DOMAIN old : ~IsDelete(new[i], p)
              => Followed(new, read, p)
<1>1. DOMAIN old \subseteq DOMAIN new
  BY DEF Extends
<1>2. ToldBy(old, p) => ToldBy(new, p)
  BY <1>1 DEF ToldBy, Extends
<1>3. \A i \in DOMAIN old : ToldAfter(old, i, p) => ToldAfter(new, i, p)
  BY <1>1 DEF ToldAfter, Extends
<1>4. ASSUME Followed(old, read, p), \A i \in DOMAIN new \ DOMAIN old : ~IsDelete(new[i], p)
      PROVE  Followed(new, read, p)
  <2>1. \A i \in DOMAIN new : IsDelete(new[i], p) => ToldAfter(new, i, p)
    BY <1>1, <1>3, <1>4 DEF Followed, Extends
  <2>2. \A i \in DOMAIN read : IsDelete(read[i], p) => ToldAfter(read, i, p) \/ ToldBy(new, p)
    BY <1>2, <1>4 DEF Followed
  <2> QED
    BY <2>1, <2>2 DEF Followed
<1> QED
  BY <1>2, <1>4

\* A queue whose last event leads to p follows all removals.
LEMMA LastTells ==
    ASSUME NEW told \in Seq(Event), NEW read, NEW p, told # <<>>, Tells(told[Len(told)], p)
    PROVE  ToldBy(told, p) /\ Followed(told, read, p)
<1>1. Len(told) \in DOMAIN told /\ \A i \in DOMAIN told : i < Len(told) \/ i = Len(told)
  BY EmptySeq
<1>2. ~IsDelete(told[Len(told)], p)
  BY DEF Tells, IsDelete
<1>3. ToldBy(told, p)
  BY <1>1 DEF ToldBy
<1>4. \A i \in DOMAIN told : IsDelete(told[i], p) => ToldAfter(told, i, p)
  BY <1>1, <1>2 DEF ToldAfter
<1> QED
  BY <1>3, <1>4 DEF Followed

\* A sequence less its first event.
LEMMA TailFollows ==
    ASSUME NEW read \in Seq(Event), read # <<>>, NEW told, NEW p
    PROVE  /\ ToldBy(read, p) => Tells(Head(read), p) \/ ToldBy(Tail(read), p)
           /\ ToldBy(Tail(read), p) => ToldBy(read, p)
           /\ Followed(told, read, p) => Followed(told, Tail(read), p)
           /\ Followed(told, read, p) /\ IsDelete(Head(read), p)
              => ToldBy(told, p) \/ ToldBy(Tail(read), p)
<1>1. /\ Tail(read) \in Seq(Event)
      /\ Len(Tail(read)) = Len(read) - 1
      /\ Len(read) \in Nat \ {0}
      /\ Head(read) = read[1]
      /\ \A i \in 1..Len(Tail(read)) : Tail(read)[i] = read[i + 1]
  BY HeadTailProperties
<1>2. /\ DOMAIN read = 1..Len(read)
      /\ DOMAIN Tail(read) = 1..(Len(read) - 1)
  BY <1>1
<1>3. \A i \in DOMAIN Tail(read) : i + 1 \in DOMAIN read /\ Tail(read)[i] = read[i + 1]
  BY <1>1, <1>2
<1>4. \A j \in DOMAIN read : j > 1 => j - 1 \in DOMAIN Tail(read) /\ Tail(read)[j - 1] = read[j]
  <2> TAKE j \in DOMAIN read
  <2>1. CASE j > 1
    <3>1. j - 1 \in DOMAIN Tail(read)
      BY <1>1, <1>2, <2>1
    <3>2. (j - 1) + 1 = j
      BY <1>2
    <3> QED
      BY <1>3, <3>1, <3>2
  <2> QED
    BY <2>1
<1>5. ToldBy(read, p) => Tells(Head(read), p) \/ ToldBy(Tail(read), p)
  BY <1>1, <1>2, <1>4 DEF ToldBy
<1>6. ToldBy(Tail(read), p) => ToldBy(read, p)
  BY <1>3 DEF ToldBy
<1>7. \A i \in DOMAIN Tail(read) : ToldAfter(read, i + 1, p) => ToldAfter(Tail(read), i, p)
  <2> SUFFICES ASSUME NEW i \in DOMAIN Tail(read), NEW j \in DOMAIN read, j > i + 1,
                      Tells(read[j], p)
               PROVE  ToldAfter(Tail(read), i, p)
    BY DEF ToldAfter
  <2>1. j > 1 /\ j - 1 > i
    BY <1>2
  <2> QED
    BY <1>4, <2>1 DEF ToldAfter
<1>8. ASSUME Followed(told, read, p) PROVE Followed(told, Tail(read), p)
  BY <1>3, <1>7, <1>8 DEF Followed
<1>9. ASSUME Followed(told, read, p), IsDelete(Head(read), p)
      PROVE  ToldBy(told, p) \/ ToldBy(Tail(read), p)
  <2>1. ToldAfter(read, 1, p) \/ ToldBy(told, p)
    BY <1>1, <1>2, <1>9 DEF Followed
  <2> QED
    BY <1>4, <2>1 DEF ToldAfter, ToldBy
<1> QED
  BY <1>5, <1>6, <1>8, <1>9

\* A step of the tree that queues an event, or none.
LEMMA TreeKeepsQueueInv == IInv /\ QueueInv /\ Tree => QueueInv'
<1> SUFFICES ASSUME IInv, QueueInv, Tree PROVE QueueInv'
  OBVIOUS
<1>1. TreeTypeOK /\ queue \in Seq(Event) /\ UNCHANGED inq
  BY DEF IInv, TypeOK, TreeTypeOK, Tree
<1>2. ASSUME UNCHANGED queue,
             \A p \in Paths : p \in alive' \/ RootOf[p] \notin wd'
                              => p \in alive \/ RootOf[p] \notin wd
      PROVE  QueueInv'
  BY <1>1, <1>2 DEF QueueInv
<1>3. ASSUME NEW event \in Event, queue' = Enqueue(event),
             \A p \in Paths : p \in alive' \/ RootOf[p] \notin wd'
                              => \/ Tells(event, p)
                                 \/ /\ p \in alive \/ RootOf[p] \notin wd
                                    /\ ~IsDelete(event, p)
      PROVE  QueueInv'
  <2>1. /\ queue' \in Seq(Event) /\ queue' # <<>>
        /\ Extends(queue', queue)
        /\ \A i \in DOMAIN queue' \ DOMAIN queue : queue'[i] \in {event, Overflow}
        /\ queue'[Len(queue')] \in {event, Overflow}
        /\ Len(queue') > QueueMax => queue'[Len(queue')] = Overflow
    BY <1>1, <1>3, EnqueueFacts DEF QueueInv
  <2>2. ASSUME NEW p \in Paths, p \in alive' \/ RootOf[p] \notin wd'
        PROVE  Followed(queue', inq, p)
    <3>1. CASE Tells(event, p)
      <4>1. Tells(Overflow, p)
        BY DEF Tells, Overflow
      <4>2. Tells(queue'[Len(queue')], p)
        BY <2>1, <3>1, <4>1
      <4> QED
        BY <2>1, <4>2, LastTells
    <3>2. CASE ~Tells(event, p)
      <4>1. Followed(queue, inq, p) /\ ~IsDelete(event, p)
        BY <1>3, <2>2, <3>2 DEF QueueInv
      <4>2. ~IsDelete(Overflow, p)
        BY DEF IsDelete, Overflow
      <4>3. \A i \in DOMAIN queue' \ DOMAIN queue : ~IsDelete(queue'[i], p)
        BY <2>1, <4>1, <4>2
      <4> QED
        BY <1>1, <2>1, <4>1, <4>3, GrowthKeepsFollowed
    <3> QED
      BY <3>1, <3>2
  <2> QED
    BY <1>1, <2>1, <2>2 DEF QueueInv
<1>4. ASSUME NEW q \in Paths, MakeDir(q)
      PROVE  QueueInv'
  <2>1. alive' = alive \cup {q} /\ wd' = wd
    BY <1>4 DEF MakeDir
  <2>2. CASE RootOf[q] \in wd
    <3>1. queue' = Enqueue([kind |-> "create", at |-> q])
      BY <1>4, <2>2 DEF MakeDir, Announce
    <3>2. [kind |-> "create", at |-> q] \in Event
      BY DEF Event
    <3>3. \A p : ~IsDelete([kind |-> "create", at |-> q], p)
      BY DEF IsDelete
    <3>4. Tells([kind |-> "create", at |-> q], q)
      BY DEF Tells
    <3> QED
      BY <1>3, <2>1, <3>1, <3>2, <3>3, <3>4
  <2>3. CASE RootOf[q] \notin wd
    <3>1. queue' = queue
      BY <1>4, <2>3 DEF MakeDir, Announce
    <3> QED
      BY <1>2, <2>1, <2>3, <3>1
  <2> QED
    BY <2>2, <2>3
<1>5. ASSUME NEW q \in Paths, RemoveDir(q)
      PROVE  QueueInv'
  <2>1. q \in alive /\ alive' = alive \ {q} /\ wd' = wd
    BY <1>5 DEF RemoveDir
  <2>2. CASE RootOf[q] \in wd
    <3>1. queue' = Enqueue([kind |-> "delete", at |-> q])
      BY <1>5, <2>2 DEF RemoveDir, Announce
    <3>2. [kind |-> "delete", at |-> q] \in Event
      BY DEF Event
    <3>3. \A p \in Paths \ {q} : ~IsDelete([kind |-> "delete", at |-> q], p)
      BY DEF IsDelete
    <3> QED
      BY <1>3, <2>1, <2>2, <3>1, <3>2, <3>3
  <2>3. CASE RootOf[q] \notin wd
    <3>1. queue' = queue
      BY <1>5, <2>3 DEF RemoveDir, Announce
    <3> QED
      BY <1>2, <2>1, <3>1
  <2> QED
    BY <2>2, <2>3
<1>6. ASSUME NEW r \in Roots, RemoveRoot(r)
      PROVE  QueueInv'
  <2>1. CASE r \in wd
    <3>1. queue' = Enqueue([kind |-> "gone", at |-> r])
      BY <1>6, <2>1 DEF RemoveRoot
    <3>2. [kind |-> "gone", at |-> r] \in Event
      BY DEF Event
    <3>3. \A p : Tells([kind |-> "gone", at |-> r], p)
      BY DEF Tells
    <3> QED
      BY <1>3, <3>1, <3>2, <3>3
  <2>2. CASE r \notin wd
    <3>1. queue' = queue /\ alive' = alive /\ wd' = wd
      BY <1>6, <2>2 DEF RemoveRoot
    <3> QED
      BY <1>2, <3>1
  <2> QED
    BY <2>1, <2>2
<1>7. ASSUME NEW q \in Paths, TogglePopulated(q)
      PROVE  QueueInv'
  BY <1>2, <1>7 DEF TogglePopulated
<1>8. ASSUME NEW r \in Roots, MakeRoot(r)
      PROVE  QueueInv'
  BY <1>2, <1>8 DEF MakeRoot
<1> QED
  BY <1>4, <1>5, <1>6, <1>7, <1>8 DEF Tree, TreeNext

LEMMA NextKeepsQueueInv == IInv /\ QueueInv /\ [Next]_vars => QueueInv'
<1> SUFFICES ASSUME IInv, QueueInv, [Next]_vars PROVE QueueInv'
  OBVIOUS
<1>1. queue \in Seq(Event) /\ inq \in Seq(Event) /\ (pc = "batch" => inq = <<>>)
  BY DEF IInv, TypeOK, TreeTypeOK, ControlOK
<1>2. \A p \in Paths : Followed(queue, inq, p) => Followed(queue, <<>>, p)
  BY DEF Followed
<1>3. \A p \in Paths : Followed(queue, inq, p) => Followed(queue, Rest, p)
  BY <1>1, <1>2, TailFollows DEF Rest
<1>4. ASSUME UNCHANGED <<queue, alive>>, wd \subseteq wd', inq' \in {inq, Rest, <<>>}
      PROVE  QueueInv'
  BY <1>2, <1>3, <1>4 DEF QueueInv
<1>5. CASE Tree
  BY <1>5, TreeKeepsQueueInv
<1>6. CASE \E event \in ready : ReadInotify(event)
  <2>1. queue' = <<>> /\ inq' = queue /\ UNCHANGED <<alive, wd>>
    BY <1>6 DEF ReadInotify
  <2>2. \A p \in Paths : Followed(queue, inq, p) => Followed(<<>>, queue, p)
    BY DEF Followed
  <2>3. ~(Len(queue') > QueueMax)
    BY <2>1, BoundsAssumption, EmptySeq
  <2> QED
    BY <2>1, <2>2, <2>3 DEF QueueInv
<1>7. CASE Sync \/ SyncFails \/ New
  <2>1. wd \subseteq wd' /\ UNCHANGED <<queue, alive>> /\ inq' \in {inq, Rest, <<>>}
    BY <1>7 DEF Sync, SyncFails, New, SyncForegroundWatchPaths, Continue
  <2> QED
    BY <1>4, <2>1
<1>8. CASE ReadPriorityEventFails \/ ReadNewWatchFails
  <2>1. inq' = <<>> /\ UNCHANGED <<queue, alive, wd>>
    BY <1>8 DEF ReadPriorityEventFails, ReadNewWatchFails, Abort, treeVars
  <2> QED
    BY <1>4, <2>1
<1>9. CASE HandlePriority \/ Receive \/ EndPoll \/ ReadPriorityEvent \/ ReadNewWatch
            \/ HandleCreateNew \/ HandleOverflow \/ HandleRootGone \/ HandleDelete \/ HandleCreateKnown
  <2>1. UNCHANGED <<queue, alive, wd, inq>>
    BY <1>9 DEF HandlePriority, SkipToken, HandleStalePriorityEvent, HandlePriorityEventGone,
                 CheckPriorityEvent, Receive, EndPoll, ReadPriorityEvent, ReadNewWatch, HandleCreateNew,
                 HandleOverflow, HandleRootGone, HandleDelete, HandleCreateKnown, NextAttempt,
                 treeVars
  <2> QED
    BY <1>4, <2>1
<1>10. CASE Deny \/ Configure \/ Wait \/ PollCurrent \/ UNCHANGED vars
  <2>1. UNCHANGED <<queue, alive, wd, inq>>
    BY <1>10 DEF Deny, Configure, Wait, PollCurrent, PollCurrentForeground,
                 PollCurrentForegroundFails, vars, treeVars, watchVars
  <2> QED
    BY <1>4, <2>1
<1> QED
  BY <1>5, <1>6, <1>7, <1>8, <1>9, <1>10 DEF Next, PollStep, HandleInotify

-----------------------------------------------------------------------------
(* Every directory to be watched is known of.                              *)

Wanted == {p \in alive : UidOf[p] \in setting.valid}

\* The four ways of NoLostCgroup.
Known(p) == Live(watches, p) \/ Told(p) \/ p \in missed \/ p \in epoll

\* What the next sync, or an event still to be handled after it, makes of p.
Findable(p) ==
    \/ watches[p].gen # 0
    \/ ToldBy(queue, p)
    \/ ToldBy(Rest, p)
    \/ p \in missed

\* NoLostCgroup is not inductive: the event in hand is what leads to p only until its
\* handling ends.  A sync must then find that it was handled: p is watched, whatever
\* directory the watch was opened on, so that its descriptor goes into the epoll set.
LostInv ==
    ~regFailed => \A p \in Wanted : /\ Known(p)
                                    /\ pc \in {"opened", "sync"} => Findable(p)

LEMMA ToldIsToldBy ==
    ASSUME NEW p
    PROVE  Told(p) <=> ToldBy(queue, p) \/ ToldBy(inq, p)
BY DEF Told, ToldBy, InSeq

\* What is known of is found by the sync, unless the event in hand is all that tells it.
LEMMA KnownIsFindable ==
    ASSUME IInv, NEW p \in Paths, Known(p), inq # <<>> => ~Tells(Head(inq), p)
    PROVE  Findable(p)
<1>1. inq \in Seq(Event) /\ epoll \subseteq Watched(watches)
  BY DEF IInv, TypeOK
<1>2. ToldBy(inq, p) => ToldBy(Rest, p)
  BY <1>1, TailFollows DEF Rest, ToldBy
<1> QED
  BY <1>1, <1>2, ToldIsToldBy DEF Known, Findable, Live, Watched

\* A step that neither loses an announcement nor touches the tree, for a path whose
\* watch it leaves, if there is one, on the directory and with the descriptor it had.
LEMMA SameWatchKeepsKnown ==
    ASSUME NEW p \in Paths, UNCHANGED <<alive, inc>>, Told(p) => Told(p)',
           watches'[p].gen = watches[p].gen, watches'[p].inc = watches[p].inc,
           p \in epoll => p \in epoll', p \in missed => p \in missed' \/ Live(watches, p)',
           Known(p)
    PROVE  Known(p)'
BY DEF Known, Live

\* A map of watches made of the present ones, or fewer.
Thinned(ws) ==
    \A p \in Paths : ws[p].gen = 0 \/ (ws[p].gen = watches[p].gen /\ ws[p].inc = watches[p].inc)

\* A rescan leaves no wanted directory without a watch, but for those it cannot open, and
\* the watches it keeps stay known as they were.
LEMMA RescanFinds ==
    ASSUME IInv, NEW ws, Thinned(ws), Replace(RescanRoots(ws)), SettingKept,
           UNCHANGED <<alive, inc, queue, inq>>, NEW p \in Wanted
    PROVE  /\ p \in Paths
           /\ watches'[p].gen # 0 \/ p \in missed'
           /\ Known(p) => Known(p)'
<1> DEFINE kept == [q \in Paths |-> IF q \in alive THEN ws[q] ELSE NoWatch]
           S == Unwatched(kept)
           new == RescanRoots(ws)
<1>1. /\ alive \subseteq Paths /\ inc \in [Paths -> Nat]
      /\ nextGen \in Nat \ {0}
      /\ watches \in [Paths -> Watch]
  BY DEF IInv, TypeOK, TreeTypeOK, SourceTypeOK
<1>2. p \in alive /\ p \in Paths /\ UidOf[p] \in setting.valid
  BY <1>1 DEF Wanted
<1>3. new[p] = IF p \in S THEN NewWatch(nextGen + Rank(p, S), inc[p]) ELSE ws[p]
  BY <1>2 DEF RescanRoots, ScanRoots
<1>4. p \in S <=> p \notin denied /\ ws[p].gen = 0
  BY <1>2 DEF Unwatched, Admitted
<1>5. S \subseteq Paths
  BY <1>1 DEF Unwatched, Admitted
<1>6. /\ watches' = new
      /\ epoll' = {q \in epoll : new[q].gen = watches[q].gen}
      /\ missed' = {q \in missed \cup Unopened(new) : ~Live(new, q)}
  BY DEF Replace, Install, Miss
<1> HIDE DEF kept, S, new
<1>7. CASE p \in S
  <2>1. Rank(p, S) \in Nat
    BY <1>5, <1>7, RankFacts
  <2>2. new[p].gen # 0 /\ new[p].inc = inc[p]
    BY <1>1, <1>3, <1>7, <2>1 DEF NewWatch
  <2>3. Live(watches, p)'
    BY <1>2, <1>6, <2>2 DEF Live
  <2> QED
    BY <1>2, <1>6, <2>2, <2>3 DEF Known
<1>8. CASE p \notin S /\ ws[p].gen = 0
  <2>1. p \in denied /\ new[p].gen = 0
    BY <1>3, <1>4, <1>8
  <2>2. p \in Unopened(new) /\ ~Live(new, p)
    BY <1>2, <2>1 DEF Unopened, Live
  <2> QED
    BY <1>2, <1>6, <2>2 DEF Known
<1>9. CASE p \notin S /\ ws[p].gen # 0
  <2>1. new[p].gen = watches[p].gen /\ new[p].inc = watches[p].inc /\ new[p].gen # 0
    BY <1>2, <1>3, <1>9 DEF Thinned
  <2>2. Told(p)' = Told(p)
    BY DEF Told
  <2>3. p \in missed => p \in missed' \/ Live(new, p)
    BY <1>6
  <2>4. Live(new, p) => Live(watches, p)'
    BY <1>6 DEF Live
  <2> QED
    BY <1>2, <1>6, <2>1, <2>2, <2>3, <2>4, SameWatchKeepsKnown
<1> QED
  BY <1>7, <1>8, <1>9

LEMMA RescanLosesNothing ==
    ASSUME IInv, LostInv, NEW ws, Thinned(ws), Replace(RescanRoots(ws)), SettingKept,
           UNCHANGED <<alive, inc, queue, inq>>, regFailed' = regFailed
    PROVE  LostInv'
<1>1. Wanted' = Wanted
  BY DEF Wanted, SettingKept
<1>2. \A p \in Wanted : watches'[p].gen # 0 \/ p \in missed'
  BY RescanFinds
<1>3. \A p \in Wanted : Known(p) => Known(p)'
  BY RescanFinds
<1> QED
  BY <1>1, <1>2, <1>3 DEF LostInv, Findable

\* Steps that leave every watch on its directory, and come to a sync from one or with no
\* event in hand.
LEMMA KeepingLosesNothing ==
    ASSUME IInv, LostInv, UNCHANGED <<alive, inc, queue, inq, setting>>, regFailed' = regFailed,
           \A p \in Paths : watches'[p].gen = watches[p].gen /\ watches'[p].inc = watches[p].inc,
           epoll \subseteq epoll', \A p \in missed : p \in missed' \/ Live(watches, p)',
           pc' \in {"opened", "sync"} => pc \in {"opened", "sync"} \/ inq = <<>>
    PROVE  LostInv'
<1> SUFFICES ASSUME ~regFailed, NEW p \in Wanted
             PROVE  /\ Known(p)'
                    /\ pc' \in {"opened", "sync"} => Findable(p)'
  BY DEF LostInv, Wanted
<1>1. p \in Paths /\ Known(p) /\ (pc \in {"opened", "sync"} => Findable(p))
  BY DEF LostInv, Wanted, IInv, TypeOK, TreeTypeOK
<1>2. Told(p)' = Told(p) /\ Rest' = Rest
  BY DEF Told, Rest
<1>3. Known(p)'
  BY <1>1, <1>2, SameWatchKeepsKnown
<1>4. pc' \in {"opened", "sync"} => Findable(p)
  BY <1>1, KnownIsFindable
<1>5. Findable(p) => Findable(p)'
  BY <1>1, <1>2 DEF Findable, Live
<1> QED
  BY <1>3, <1>4, <1>5

LEMMA PollLosesNothing == IInv /\ LostInv /\ PollCurrent => LostInv'
<1> SUFFICES ASSUME IInv, LostInv, PollCurrent PROVE LostInv'
  OBVIOUS
<1> DEFINE read == [p \in Paths |->
                      IF p \in (Visited(watches) \ denied) \cap alive
                      THEN [watches[p] EXCEPT !.populated = ReadPopulated(p)]
                      ELSE watches[p]]
<1>1. watches \in [Paths -> Watch] /\ epoll \subseteq Paths /\ inq \in Seq(Event)
  BY DEF IInv, TypeOK, SourceTypeOK, Watched
<1>2. /\ pc = "idle" /\ inq = <<>>
      /\ Replace(PollCurrentWatches(watches))
      /\ SettingKept
      /\ UNCHANGED <<alive, inc, queue, inq>> /\ regFailed' = regFailed
  BY DEF PollCurrent, PollCurrentForeground, PollCurrentForegroundFails, SettingKept, IInv, ControlOK
<1>3. \A p \in Paths : read[p].gen = watches[p].gen /\ read[p].inc = watches[p].inc
  BY <1>1 DEF Watch
<1>4. PollCurrentWatches(watches) \in {read, RescanRoots(read)}
  BY DEF PollCurrentWatches
<1> HIDE DEF read
<1>5. CASE PollCurrentWatches(watches) = RescanRoots(read)
  <2>1. Thinned(read)
    BY <1>3 DEF Thinned
  <2> QED
    BY <1>2, <1>5, <2>1, RescanLosesNothing
<1>6. CASE PollCurrentWatches(watches) = read
  <2>1. /\ watches' = read
        /\ epoll' = {q \in epoll : read[q].gen = watches[q].gen}
        /\ missed' = {q \in missed \cup Unopened(read) : ~Live(read, q)}
    BY <1>2, <1>6 DEF Replace, Install, Miss
  <2>2. epoll \subseteq epoll' /\ \A p \in missed : p \in missed' \/ Live(watches, p)'
    BY <1>1, <1>2, <1>3, <2>1 DEF Live
  <2> QED
    BY <1>2, <1>3, <2>1, <2>2, KeepingLosesNothing DEF SettingKept
<1> QED
  BY <1>4, <1>5, <1>6

\* The removal in hand takes the watch of its path: if there is a directory again, an
\* event behind it will tell.
LEMMA DeleteLosesNothing ==
    ASSUME IInv, QueueInv, LostInv, SettingKept, HandleDelete
    PROVE  LostInv'
<1> DEFINE at == Head(inq).at
<1>1. /\ Replace(Drop(watches, at))
      /\ NextAttempt
      /\ UNCHANGED <<alive, inc, queue, setting>> /\ regFailed' = regFailed
      /\ pc = "inotify"
      /\ Head(inq).kind = "delete" \/ (Head(inq).kind = "create" /\ at \notin alive)
  BY DEF HandleDelete, InHand, SettingKept
<1>2. inq' = inq /\ inq \in Seq(Event) /\ inq # <<>> /\ watches \in [Paths -> Watch]
  BY <1>1 DEF NextAttempt, IInv, TypeOK, SourceTypeOK, ControlOK
<1>3. /\ watches' = Drop(watches, at)
      /\ epoll' = {q \in epoll : Drop(watches, at)[q].gen = watches[q].gen}
      /\ \A q \in missed : q \in missed' \/ Live(watches, q)'
  BY <1>1 DEF Replace, Install, Miss, Live
<1> SUFFICES ASSUME ~regFailed, NEW p \in Wanted
             PROVE  Known(p)' /\ Findable(p)'
  BY <1>1 DEF LostInv, Wanted
<1>4. p \in Paths /\ p \in alive /\ Known(p)
  BY DEF LostInv, Wanted, IInv, TypeOK, TreeTypeOK
<1>5. Told(p)' = Told(p) /\ Rest' = Rest
  BY <1>1, <1>2 DEF Told, Rest
<1>6. CASE p = at
  <2>1. IsDelete(Head(inq), p) /\ Followed(queue, inq, p)
    BY <1>1, <1>4, <1>6 DEF IsDelete, QueueInv
  <2>2. ToldBy(queue, p) \/ ToldBy(Tail(inq), p)
    BY <1>2, <2>1, TailFollows
  <2>3. Told(p)
    BY <1>2, <2>2, TailFollows, ToldIsToldBy
  <2> QED
    BY <1>1, <1>2, <1>5, <2>2, <2>3 DEF Known, Findable, Rest
<1>7. CASE p # at
  <2>1. watches'[p] = watches[p]
    BY <1>2, <1>3, <1>4, <1>7 DEF Drop
  <2>2. p \in epoll => p \in epoll'
    BY <1>3, <2>1
  <2>3. Known(p)'
    BY <1>1, <1>3, <1>4, <1>5, <2>1, <2>2, SameWatchKeepsKnown
  <2>4. ~Tells(Head(inq), p)
    BY <1>1, <1>7 DEF Tells
  <2>5. Findable(p)
    BY <1>4, <2>4, KnownIsFindable
  <2> QED
    BY <1>1, <1>3, <1>5, <2>1, <2>3, <2>5 DEF Findable, Live
<1> QED
  BY <1>6, <1>7

\* The CREATE in hand, on a directory that exists.
LEMMA CreateLosesNothing ==
    ASSUME IInv, LostInv, SettingKept, HandleCreateKnown \/ HandleCreateNew
    PROVE  LostInv'
<1> DEFINE at == Head(inq).at
<1>1. /\ UNCHANGED <<alive, inc, queue, inq, setting, denied>> /\ regFailed' = regFailed
      /\ pc = "inotify" /\ Head(inq).kind = "create" /\ at \in alive
  BY DEF HandleCreateKnown, HandleCreateNew, InHand, NextAttempt, SettingKept, treeVars, bookVars,
         Unwatched, Admitted
<1>2. inq \in Seq(Event) /\ inq # <<>> /\ watches \in [Paths -> Watch] /\ nextGen \in Nat \ {0}
  BY <1>1 DEF IInv, TypeOK, SourceTypeOK, ControlOK
<1>3. /\ \A q \in Paths : q # at \/ HandleCreateKnown => watches'[q] = watches[q]
      /\ HandleCreateNew => at \in Admitted /\ watches'[at] = NewWatch(nextGen, inc[at])
      /\ HandleCreateKnown => /\ UNCHANGED <<watches, epoll>>
                              /\ at \notin Unwatched(watches)
                              /\ Miss(watches, {at} \cap Unopened(watches))
      /\ \A q \in epoll : watches'[q].gen = watches[q].gen => q \in epoll'
      /\ \A q \in missed : q \in missed' \/ Live(watches, q)'
  <2>1. CASE HandleCreateKnown
    BY <1>1, <2>1 DEF HandleCreateKnown, Miss, Live, sourceVars, bookVars, HandleCreateNew
  <2>2. CASE HandleCreateNew
    <3>1. /\ watches' = AddUidWatch(watches, at)
          /\ epoll' = {q \in epoll : AddUidWatch(watches, at)[q].gen = watches[q].gen}
          /\ \A q \in missed : q \in missed' \/ Live(watches, q)'
          /\ at \in Admitted /\ at \in Unwatched(watches)
      BY <2>2 DEF HandleCreateNew, Replace, Install, Miss, Live, Unwatched
    <3>2. at \in Paths
      BY <1>1 DEF IInv, TypeOK, TreeTypeOK
    <3> QED
      BY <1>2, <2>2, <3>1, <3>2 DEF AddUidWatch, HandleCreateKnown
  <2> QED
    BY <2>1, <2>2
<1> SUFFICES ASSUME ~regFailed, NEW p \in Wanted
             PROVE  Known(p)' /\ Findable(p)'
  BY <1>1 DEF LostInv, Wanted
<1>4. p \in Paths /\ p \in alive /\ UidOf[p] \in setting.valid /\ Known(p)
  BY DEF LostInv, Wanted, IInv, TypeOK, TreeTypeOK
<1>5. Told(p)' = Told(p) /\ Rest' = Rest
  BY <1>1 DEF Told, Rest
<1>6. CASE p = at
  <2>1. Told(p)
    <3>1. 1 \in DOMAIN inq /\ inq[1] = Head(inq)
      BY <1>2, EmptySeq
    <3> QED
      BY <1>1, <1>6, <3>1, ToldIsToldBy DEF ToldBy, Tells
  <2>2. CASE HandleCreateNew
    BY <1>2, <1>3, <1>5, <1>6, <2>1, <2>2 DEF Known, Findable, NewWatch
  <2>3. CASE HandleCreateKnown
    <3>1. watches[p].gen # 0 \/ p \in denied
      BY <1>3, <1>4, <1>6, <2>3 DEF Unwatched, Admitted
    <3>2. watches[p].gen # 0 \/ p \in missed'
      BY <1>3, <1>4, <1>6, <2>3, <3>1 DEF Unopened, Miss, Live
    <3> QED
      BY <1>3, <1>4, <1>5, <2>1, <2>3, <3>2 DEF Known, Findable
  <2> QED
    BY <2>2, <2>3
<1>7. CASE p # at
  <2>1. watches'[p] = watches[p]
    BY <1>3, <1>4, <1>7
  <2>2. Known(p)'
    BY <1>1, <1>3, <1>4, <1>5, <2>1, SameWatchKeepsKnown
  <2>3. ~Tells(Head(inq), p)
    BY <1>1, <1>7 DEF Tells
  <2>4. Findable(p)
    BY <1>4, <2>3, KnownIsFindable
  <2> QED
    BY <1>1, <1>3, <1>5, <2>1, <2>2, <2>4 DEF Findable, Live
<1> QED
  BY <1>6, <1>7

\* A sync registers every path that has a watch, and reads on behind the event in hand.
LEMMA SyncLosesNothing ==
    ASSUME IInv, HearingInv, LostInv, Sync, SettingKept
    PROVE  LostInv'
<1>1. /\ SyncPriorityOk
      /\ UNCHANGED <<watches, nextGen, inc, alive, queue, setting, missed>>
      /\ regFailed' = regFailed
      /\ pc = "sync" /\ pc' \notin {"opened", "sync"} /\ inq' = Rest
  BY DEF Sync, SyncPriorityOk, Continue, sourceVars, SettingKept
<1> SUFFICES ASSUME ~regFailed, NEW p \in Wanted PROVE Known(p)'
  BY <1>1 DEF LostInv, Wanted
<1>2. p \in Paths /\ Findable(p)
  BY <1>1 DEF LostInv, Wanted, IInv, TypeOK, TreeTypeOK
<1>3. watches[p].gen # 0 => p \in epoll'
  BY <1>1, <1>2, SyncIsHeard DEF HearingInv, Heard, Watched
<1>4. ToldBy(queue, p) \/ ToldBy(Rest, p) => Told(p)'
  BY <1>1 DEF Told, ToldBy, InSeq
<1> QED
  BY <1>1, <1>2, <1>3, <1>4 DEF Known, Findable

\* A directory comes into being announced or missed, and otherwise nothing is lost.
LEMMA TreeLosesNothing == IInv /\ QueueInv /\ LostInv /\ Tree => LostInv'
<1> SUFFICES ASSUME IInv, QueueInv, LostInv, Tree, ~regFailed, NEW p \in Wanted'
             PROVE  /\ Known(p)'
                    /\ pc' \in {"opened", "sync"} => Findable(p)'
  BY DEF LostInv, Tree, bookVars
<1>1. /\ UNCHANGED <<watches, epoll, inq, pc, setting>>
      /\ missed' = {q \in missed \cap alive' : inc'[q] = inc[q]}
                   \cup {q \in alive' \ alive : RootOf[q] \notin wd}
      /\ TreeNext
      /\ TreeTypeOK /\ TreeTypeOK' /\ queue \in Seq(Event)
  BY TreeKeepsType DEF Tree, sourceVars, bookVars, IInv, TypeOK, TreeTypeOK
<1>2. p \in alive' /\ p \in Paths /\ UidOf[p] \in setting.valid
  BY <1>1 DEF Wanted, TreeTypeOK
<1>3. Extends(queue', queue) /\ queue' \in Seq(Event)
  <2>1. queue' = queue \/ \E event \in Event : queue' = Enqueue(event)
    BY <1>1 DEF TreeNext, MakeDir, RemoveDir, TogglePopulated, MakeRoot, RemoveRoot, Announce, Event
  <2>2. Extends(queue, queue)
    BY <1>1 DEF Extends
  <2> QED
    BY <1>1, <2>1, <2>2, EnqueueFacts DEF QueueInv
<1>4. ToldBy(queue, p) => ToldBy(queue', p)
  BY <1>1, <1>3, GrowthKeepsFollowed
<1>5. CASE p \in alive
  <2>1. inc'[p] = inc[p]
    BY <1>1, <1>2, <1>5 DEF TreeNext, MakeDir, RemoveDir, TogglePopulated, MakeRoot, RemoveRoot,
                            TreeTypeOK
  <2>2. Known(p) /\ (pc \in {"opened", "sync"} => Findable(p))
    BY <1>1, <1>2, <1>5 DEF LostInv, Wanted
  <2>3. Told(p) => Told(p)'
    BY <1>1, <1>4 DEF Told, ToldBy, InSeq
  <2>4. (p \in missed => p \in missed') /\ Rest' = Rest
    BY <1>1, <1>2, <2>1 DEF Rest
  <2>5. Known(p)'
    BY <1>1, <1>2, <1>5, <2>1, <2>2, <2>3, <2>4 DEF Known, Live
  <2> QED
    BY <1>1, <1>4, <2>2, <2>4, <2>5 DEF Findable
<1>6. CASE p \notin alive
  <2>1. MakeDir(p)
    BY <1>1, <1>2, <1>6 DEF TreeNext, MakeDir, RemoveDir, TogglePopulated, MakeRoot, RemoveRoot
  <2>2. CASE RootOf[p] \notin wd
    BY <1>1, <1>2, <1>6, <2>2 DEF Known, Findable
  <2>3. CASE RootOf[p] \in wd
    <3> DEFINE event == [kind |-> "create", at |-> p]
    <3>1. queue' = Enqueue(event) /\ event \in Event
      BY <1>2, <2>1, <2>3 DEF MakeDir, Announce, Event
    <3>2. queue' # <<>> /\ queue'[Len(queue')] \in {event, Overflow}
      BY <1>1, <3>1, EnqueueFacts DEF QueueInv
    <3>3. Tells(event, p) /\ Tells(Overflow, p)
      BY DEF Tells, Overflow
    <3>4. ToldBy(queue', p)
      BY <1>3, <3>2, <3>3, LastTells
    <3>5. Told(p)'
      BY <3>4 DEF Told, ToldBy, InSeq
    <3> QED
      BY <3>4, <3>5 DEF Known, Findable
  <2> QED
    BY <2>2, <2>3
<1> QED
  BY <1>5, <1>6

LEMMA NextKeepsLost ==
    IInv /\ HearingInv /\ QueueInv /\ LostInv /\ [Next]_vars => LostInv'
<1> SUFFICES ASSUME IInv, HearingInv, QueueInv, LostInv, [Next]_vars PROVE LostInv'
  OBVIOUS
<1>1. /\ watches \in [Paths -> Watch] /\ epoll \subseteq Paths /\ missed \subseteq alive
      /\ alive \subseteq Paths /\ inq \in Seq(Event)
      /\ pc \in {"new", "idle", "batch", "checked"} => inq = <<>>
  BY DEF IInv, TypeOK, TreeTypeOK, SourceTypeOK, Watched, ControlOK
<1>2. PollStep => SettingKept
  BY DEF PollStep, SettingKept
<1>3. CASE Tree
  BY <1>3, TreeLosesNothing
<1>4. CASE PollCurrent
  BY <1>4, PollLosesNothing
<1>5. CASE Configure
  <2>1. /\ UNCHANGED <<watches, epoll, queue, inq, alive, inc>> /\ regFailed' = regFailed
        /\ pc' \notin {"opened", "sync"}
        /\ Miss(watches, {p \in alive : UidOf[p] \in setting'.valid \ setting.valid})
    BY <1>5 DEF Configure, treeVars, sourceVars, bookVars
  <2> SUFFICES ASSUME ~regFailed, NEW p \in Wanted' PROVE Known(p)'
    BY <2>1 DEF LostInv
  <2>2. p \in alive /\ UidOf[p] \in setting'.valid
    BY <2>1 DEF Wanted
  <2>3. CASE UidOf[p] \in setting.valid
    <3>1. Known(p)
      BY <2>2, <2>3 DEF LostInv, Wanted
    <3> QED
      BY <2>1, <3>1 DEF Known, Told, Live, Miss
  <2>4. CASE UidOf[p] \notin setting.valid
    BY <2>1, <2>2, <2>4 DEF Known, Live, Miss
  <2> QED
    BY <2>3, <2>4
<1>6. ASSUME NEW event \in ready, NEW p \in Paths, PollStep,
             HandleStalePriorityEvent(event, p) \/ HandlePriorityEventGone(event, p)
      PROVE  LostInv'
  <2>1. Thinned(Drop(watches, p))
    BY <1>1 DEF Thinned, Drop, NoWatch
  <2>2. /\ Replace(RescanRoots(Drop(watches, p)))
        /\ UNCHANGED <<alive, inc, queue, inq>> /\ regFailed' = regFailed
    BY <1>6 DEF HandleStalePriorityEvent, HandlePriorityEventGone, HandleStaleEventsPath
  <2> QED
    BY <1>2, <1>6, <2>1, <2>2, RescanLosesNothing
<1>7. CASE PollStep /\ (HandleOverflow \/ HandleRootGone)
  <2>1. Thinned(watches)
    BY DEF Thinned
  <2>2. /\ Replace(RescanRoots(watches))
        /\ UNCHANGED <<alive, inc, queue, inq>> /\ regFailed' = regFailed
    BY <1>7 DEF HandleOverflow, HandleRootGone, NextAttempt
  <2> QED
    BY <1>2, <1>7, <2>1, <2>2, RescanLosesNothing
<1>8. CASE PollStep /\ HandleDelete
  BY <1>2, <1>8, DeleteLosesNothing
<1>9. CASE PollStep /\ (HandleCreateKnown \/ HandleCreateNew)
  BY <1>2, <1>9, CreateLosesNothing
<1>10. CASE PollStep /\ (ReadPriorityEvent \/ ReadNewWatch)
  <2> DEFINE q == IF pc = "checked" THEN cur ELSE Head(inq).at
  <2>1. /\ watches' = SetPopulated(watches, q, ReadPopulated(q))
        /\ UNCHANGED <<alive, inc, epoll, queue, inq, missed>> /\ regFailed' = regFailed
        /\ pc = "opened" \/ pc = "checked"
    BY <1>10 DEF ReadPriorityEvent, ReadNewWatch, NextAttempt, treeVars, bookVars
  <2>2. \A p \in Paths : watches'[p].gen = watches[p].gen /\ watches'[p].inc = watches[p].inc
    BY <1>1, <2>1 DEF SetPopulated, Watch
  <2> QED
    BY <1>1, <1>2, <1>10, <2>1, <2>2, KeepingLosesNothing DEF SettingKept
<1>11. CASE PollStep /\ Sync
  BY <1>2, <1>11, SyncLosesNothing
<1>12. CASE SyncFails
  BY <1>12 DEF SyncFails, SyncPriorityErr, LostInv
<1>13. CASE PollStep /\ (ReadPriorityEventFails \/ ReadNewWatchFails)
  <2>1. /\ Abort
        /\ UNCHANGED <<watches, epoll, queue, alive, inc, setting>> /\ regFailed' = regFailed
    BY <1>2, <1>13 DEF ReadPriorityEventFails, ReadNewWatchFails, treeVars, sourceVars, bookVars,
                       SettingKept
  <2>2. /\ pc' = "idle"
        /\ missed' = {q \in missed \cup {r \in alive : \E e \in InSeq(inq) : Tells(e, r)} :
                        ~Live(watches, q)}
    BY <2>1 DEF Abort, Miss
  <2> SUFFICES ASSUME ~regFailed, NEW p \in Wanted PROVE Known(p)'
    BY <2>1, <2>2 DEF LostInv, Wanted
  <2>3. p \in alive /\ Known(p)
    BY DEF LostInv, Wanted
  <2> QED
    BY <2>1, <2>2, <2>3 DEF Known, Told, Live
<1>14. CASE New
  <2>1. /\ UNCHANGED <<watches, queue, inq, alive, inc, setting, missed>>
        /\ epoll \subseteq epoll' /\ regFailed' = regFailed /\ pc' = "idle"
    BY <1>14 DEF New, SyncPriorityOk, sourceVars
  <2> QED
    BY <2>1, KeepingLosesNothing
<1>15. CASE PollStep /\ \E event \in ready : ReadInotify(event)
  <2>1. /\ UNCHANGED <<watches, epoll, alive, inc, setting, missed>> /\ regFailed' = regFailed
        /\ inq = <<>> /\ inq' = queue /\ pc' = "inotify"
    BY <1>1, <1>2, <1>15 DEF ReadInotify, Take, sourceVars, bookVars, SettingKept
  <2> SUFFICES ASSUME ~regFailed, NEW p \in Wanted PROVE Known(p)'
    BY <2>1 DEF LostInv, Wanted
  <2>2. Known(p)
    BY DEF LostInv
  <2>3. Told(p) => Told(p)'
    BY <2>1 DEF Told, InSeq
  <2> QED
    BY <2>1, <2>2, <2>3 DEF Known, Live
<1>16. CASE \/ Wait \/ Deny \/ UNCHANGED vars
            \/ PollStep /\ \/ Receive \/ EndPoll
                           \/ \E event \in ready : \/ SkipToken(event)
                                                   \/ \E p \in Paths : CheckPriorityEvent(event, p)
  <2>1. /\ UNCHANGED <<watches, epoll, queue, inq, alive, inc, setting, missed>>
        /\ regFailed' = regFailed
        /\ pc' \notin {"opened", "sync"} \/ pc' = pc
    BY <1>2, <1>16 DEF Wait, Deny, Receive, EndPoll, SkipToken, CheckPriorityEvent, Take, SettingKept,
                       vars, treeVars, watchVars, sourceVars, bookVars
  <2> QED
    BY <2>1, KeepingLosesNothing
<1> QED
  BY <1>3, <1>4, <1>5, <1>6, <1>7, <1>8, <1>9, <1>10, <1>11, <1>12, <1>13, <1>14, <1>15, <1>16
     DEF Next, PollStep, HandlePriority, HandleInotify

\* For every tree, filter, queue length and order of events: as long as epoll refuses
\* nothing, an admitted directory that exists is watched, or on its way to it, or known to
\* be missed.
THEOREM NothingIsLost == Spec => []NoLostCgroup
<1>1. Init => HearingInv
  BY DEF Init, HearingInv, Keyed
<1>2. Init => QueueInv
  <2> SUFFICES ASSUME Init PROVE QueueInv
    OBVIOUS
  <2>1. queue = <<>> /\ inq = <<>> /\ Len(queue) = 0
    BY EmptySeq DEF Init, TreeInit
  <2> QED
    BY <2>1, BoundsAssumption DEF QueueInv, Followed
<1>3. Init => LostInv
  <2> SUFFICES ASSUME Init, NEW p \in Wanted PROVE Known(p) /\ pc \notin {"opened", "sync"}
    BY DEF LostInv
  <2>1. pc = "new" /\ p \in alive /\ p \in Paths /\ UidOf[p] \in setting.valid
    BY DEF Init, Wanted, TreeInit
  <2>2. CASE p \in denied
    BY <2>1, <2>2 DEF Init, Known
  <2>3. CASE p \notin denied
    <3>1. Admitted \subseteq Paths /\ p \in Admitted
      BY <2>1, <2>3 DEF Admitted, Init, TreeInit
    <3>2. Rank(p, Admitted) \in Nat
      BY <3>1, RankFacts
    <3>3. watches[p] = NewWatch(1 + Rank(p, Admitted), inc[p])
      BY <2>1, <3>1 DEF Init, SourceInit
    <3> QED
      BY <2>1, <3>2, <3>3 DEF Known, Live, NewWatch
  <2> QED
    BY <2>2, <2>3
<1>4. LostInv => NoLostCgroup
  BY DEF LostInv, Wanted, Known, NoLostCgroup
<1> QED
  BY <1>1, <1>2, <1>3, <1>4, Invariance, NextKeepsHearing, NextKeepsQueueInv, NextKeepsLost, PTL
     DEF Spec

-----------------------------------------------------------------------------
(* No wakeup is lost.                                                      *)

\* Whatever happened since a watch was read has left its descriptor unread.
ReadOK ==
    \A p \in Paths :
        Live(watches, p) /\ p \notin unread => watches[p].populated = ReadPopulated(p)

\* New descriptors, old watches, and watches read just now.
Truthful(ws) ==
    \A p \in Paths : Live(ws, p) =>
        \/ ws[p].gen >= nextGen
        \/ ws[p] = watches[p]
        \/ ws[p].populated = ReadPopulated(p)

\* What a scan opens has read nothing, and what it keeps is as it was.
LEMMA RescanIsTruthful ==
    ASSUME IInv, NEW ws, Truthful(ws)
    PROVE  Truthful(RescanRoots(ws))
<1> DEFINE kept == [p \in Paths |-> IF p \in alive THEN ws[p] ELSE NoWatch]
           S == Unwatched(kept)
           new == ScanRoots(kept)
<1>1. S \subseteq Paths /\ nextGen \in Nat
  BY DEF IInv, TypeOK, TreeTypeOK, SourceTypeOK, Unwatched, Admitted
<1>2. \A p \in S : Rank(p, S) \in Nat
  BY <1>1, RankFacts
<1>3. new = [p \in Paths |-> IF p \in S THEN NewWatch(nextGen + Rank(p, S), inc[p]) ELSE kept[p]]
  BY DEF ScanRoots
<1> HIDE DEF new, S
<1>4. ASSUME NEW p \in Paths, p \in S
      PROVE  new[p].gen >= nextGen
  <2>1. new[p].gen = nextGen + Rank(p, S)
    BY <1>3, <1>4 DEF NewWatch
  <2> QED
    BY <1>1, <1>2, <1>4, <2>1
<1>5. ASSUME NEW p \in Paths, p \notin S, Live(new, p)
      PROVE  Live(ws, p) /\ new[p] = ws[p]
  <2>1. p \in alive
    BY <1>5 DEF Live
  <2>2. new[p] = ws[p]
    BY <1>3, <1>5, <2>1
  <2> QED
    BY <1>5, <2>2 DEF Live
<1>6. Truthful(new)
  BY <1>4, <1>5 DEF Truthful
<1> QED
  BY <1>6 DEF RescanRoots, new

LEMMA DropIsTruthful ==
    ASSUME IInv, NEW p \in Paths
    PROVE  Truthful(watches) /\ Truthful(Drop(watches, p))
<1>1. watches \in [Paths -> Watch]
  BY DEF IInv, TypeOK, SourceTypeOK
<1>2. \A q \in Paths : Drop(watches, p)[q] = IF q = p THEN NoWatch ELSE watches[q]
  BY <1>1 DEF Drop
<1> QED
  BY <1>2 DEF Truthful, Live, NoWatch

LEMMA AddIsTruthful ==
    ASSUME IInv, NEW p \in Paths
    PROVE  Truthful(AddUidWatch(watches, p))
<1>1. watches \in [Paths -> Watch] /\ nextGen \in Nat
  BY DEF IInv, TypeOK, SourceTypeOK
<1>2. \A q \in Paths : AddUidWatch(watches, p)[q] =
                         IF q = p THEN NewWatch(nextGen, inc[p]) ELSE watches[q]
  BY <1>1 DEF AddUidWatch
<1>3. NewWatch(nextGen, inc[p]).gen >= nextGen
  BY <1>1 DEF NewWatch
<1> QED
  BY <1>2, <1>3 DEF Truthful

LEMMA PollIsTruthful ==
    ASSUME IInv
    PROVE  Truthful(PollCurrentWatches(watches))
<1> DEFINE R == (Visited(watches) \ denied) \cap alive
           read == [p \in Paths |-> IF p \in R
                                    THEN [watches[p] EXCEPT !.populated = ReadPopulated(p)]
                                    ELSE watches[p]]
<1>1. watches \in [Paths -> Watch]
  BY DEF IInv, TypeOK, SourceTypeOK
<1>2. \A p \in Paths : read[p] = watches[p] \/ read[p].populated = ReadPopulated(p)
  BY <1>1 DEF Watch
<1>3. Truthful(read)
  BY <1>2 DEF Truthful
<1>4. Truthful(RescanRoots(read))
  BY <1>3, RescanIsTruthful
<1> QED
  BY <1>3, <1>4 DEF PollCurrentWatches

LEMMA ReplaceKeepsRead ==
    ASSUME IInv, ReadOK, NEW ws, Truthful(ws), Replace(ws), UNCHANGED <<alive, inc, populated>>
    PROVE  ReadOK'
<1>1. watches' = ws /\ unread' = unread \cup Opened(ws)
  BY DEF Replace, Install
<1> SUFFICES ASSUME NEW p \in Paths, Live(watches, p)', p \notin unread'
             PROVE  watches'[p].populated = ReadPopulated(p)'
  BY DEF ReadOK
<1>2. Live(ws, p) /\ ReadPopulated(p)' = ReadPopulated(p)
  BY <1>1 DEF Live, ReadPopulated
<1>3. p \notin unread /\ ~(ws[p].gen >= nextGen)
  BY <1>1 DEF Opened
<1>4. CASE ws[p].populated = ReadPopulated(p)
  BY <1>1, <1>2, <1>4
<1>5. CASE ws[p] = watches[p]
  <2>1. Live(watches, p)
    BY <1>2, <1>5 DEF Live
  <2> QED
    BY <1>1, <1>2, <1>3, <1>5, <2>1 DEF ReadOK
<1> QED
  BY <1>2, <1>3, <1>4, <1>5 DEF Truthful

LEMMA TreeKeepsRead == IInv /\ ReadOK /\ Tree => ReadOK'
<1> SUFFICES ASSUME IInv, ReadOK, Tree, NEW p \in Paths, Live(watches, p)', p \notin unread'
             PROVE  watches'[p].populated = ReadPopulated(p)'
  BY DEF ReadOK
<1>1. Live(watches, p) /\ UNCHANGED watches
  BY TreeRevivesNothing DEF Tree, sourceVars
<1>2. p \notin unread /\ (p \in populated' <=> p \in populated)
  <2>1. CASE \E q \in Paths : TogglePopulated(q)
    BY <2>1 DEF TogglePopulated
  <2>2. CASE ~\E q \in Paths : TogglePopulated(q)
    BY <2>2 DEF Tree, TreeNext, MakeDir, RemoveDir, MakeRoot, RemoveRoot
  <2> QED
    BY <2>1, <2>2
<1> QED
  BY <1>1, <1>2 DEF ReadOK, ReadPopulated

LEMMA NextKeepsRead == IInv /\ ReadOK /\ [Next]_vars => ReadOK'
<1> SUFFICES ASSUME IInv, ReadOK, [Next]_vars PROVE ReadOK'
  OBVIOUS
<1>1. /\ watches \in [Paths -> Watch] /\ unread \subseteq Paths
      /\ pc \in {"inotify", "opened"} => inq # <<>> /\ inq \in Seq(Event)
      /\ pc = "opened" => Head(inq).kind = "create"
      /\ pc = "checked" => cur \in Paths
  BY DEF IInv, TypeOK, TreeTypeOK, SourceTypeOK, ControlOK
<1>2. ASSUME pc \in {"inotify", "opened"}, Head(inq).kind \in {"create", "delete"}
      PROVE  Head(inq).at \in Paths
  <2>1. Head(inq) \in Event
    BY <1>1, <1>2
  <2> QED
    BY <1>2, <2>1 DEF Event
<1>3. CASE Tree
  BY <1>3, TreeKeepsRead
<1>4. CASE PollCurrent
  <2>1. /\ Replace(PollCurrentWatches(watches))
        /\ UNCHANGED <<alive, inc, populated>>
    BY <1>4 DEF PollCurrent, PollCurrentForeground, PollCurrentForegroundFails
  <2> QED
    BY <2>1, PollIsTruthful, ReplaceKeepsRead
<1>5. ASSUME NEW event \in ready, NEW p \in Paths,
             HandleStalePriorityEvent(event, p) \/ HandlePriorityEventGone(event, p)
      PROVE  ReadOK'
  <2>1. /\ Replace(RescanRoots(Drop(watches, p)))
        /\ UNCHANGED <<alive, inc, populated>>
    BY <1>5 DEF HandleStalePriorityEvent, HandlePriorityEventGone, HandleStaleEventsPath
  <2> QED
    BY <2>1, DropIsTruthful, RescanIsTruthful, ReplaceKeepsRead
<1>6. CASE HandleOverflow \/ HandleRootGone
  <2>1. /\ Replace(RescanRoots(watches))
        /\ UNCHANGED <<alive, inc, populated>>
    BY <1>6 DEF HandleOverflow, HandleRootGone
  <2>2. Truthful(watches)
    BY DEF Truthful
  <2> QED
    BY <2>1, <2>2, RescanIsTruthful, ReplaceKeepsRead
<1>7. CASE HandleDelete
  <2>1. /\ Replace(Drop(watches, Head(inq).at))
        /\ UNCHANGED <<alive, inc, populated>>
        /\ Head(inq).at \in Paths
    BY <1>2, <1>7 DEF HandleDelete, InHand
  <2> QED
    BY <2>1, DropIsTruthful, ReplaceKeepsRead
<1>8. CASE HandleCreateNew
  <2>1. /\ Replace(AddUidWatch(watches, Head(inq).at))
        /\ UNCHANGED <<alive, inc, populated>>
        /\ Head(inq).at \in Paths
    BY <1>2, <1>8 DEF HandleCreateNew, InHand
  <2> QED
    BY <2>1, AddIsTruthful, ReplaceKeepsRead
<1>9. CASE ReadPriorityEvent \/ ReadNewWatch
  <2> DEFINE q == IF pc = "checked" THEN cur ELSE Head(inq).at
  <2>1. /\ watches' = SetPopulated(watches, q, ReadPopulated(q))
        /\ UNCHANGED <<alive, inc, populated>>
        /\ q \in Paths /\ unread \ {q} \subseteq unread'
    BY <1>1, <1>2, <1>9 DEF ReadPriorityEvent, ReadNewWatch, treeVars
  <2> HIDE DEF q
  <2>2. \A p \in Paths : /\ watches'[p].gen = watches[p].gen
                         /\ watches'[p].inc = watches[p].inc
                         /\ watches'[p].populated = IF p = q THEN ReadPopulated(q)
                                                    ELSE watches[p].populated
    BY <1>1, <2>1 DEF SetPopulated, Watch
  <2> QED
    BY <2>1, <2>2 DEF ReadOK, Live, ReadPopulated
<1>10. CASE \/ New \/ Wait \/ Deny \/ Configure \/ UNCHANGED vars
            \/ Receive \/ EndPoll \/ HandleCreateKnown \/ ReadNewWatchFails \/ ReadPriorityEventFails
            \/ Sync \/ SyncFails
            \/ \E event \in ready : \/ SkipToken(event) \/ ReadInotify(event)
                                    \/ \E p \in Paths : CheckPriorityEvent(event, p)
  <2>1. UNCHANGED <<watches, alive, inc, populated, unread>>
    BY <1>10 DEF New, Wait, Deny, Configure, Receive, EndPoll, HandleCreateKnown, ReadNewWatchFails,
                 ReadPriorityEventFails, Sync, SyncFails, SkipToken, ReadInotify,
                 CheckPriorityEvent, vars, treeVars, sourceVars
  <2> QED
    BY <2>1 DEF ReadOK, Live, ReadPopulated
<1> QED
  BY <1>3, <1>4, <1>5, <1>6, <1>7, <1>8, <1>9, <1>10
     DEF Next, PollStep, HandlePriority, HandleInotify

\* With nothing ready there is no event queued, no registered descriptor of a directory that
\* is gone, and none with news.
LEMMA NothingReady ==
    ASSUME ReadySet = {}
    PROVE  /\ 1 \notin DOMAIN queue
           /\ \A p \in epoll : Live(watches, p)
           /\ ErrorOnChange # {} => \A p \in epoll : p \notin unread
<1> DEFINE Queued == [token |-> InotifyToken, error |-> FALSE]
           Ready(p, e) == [token |-> watches[p].gen, error |-> e]
<1>1. ASSUME 1 \in DOMAIN queue
      PROVE  Queued \in ReadySet
  BY <1>1 DEF ReadySet
<1>2. ASSUME NEW p \in epoll, ~Live(watches, p)
      PROVE  Ready(p, TRUE) \in ReadySet
  <2>1. PICK event : event = Ready(p, TRUE)
    BY Zenon
  <2>2. event \in {[token |-> watches[q].gen, error |-> TRUE] :
                     q \in {r \in epoll : ~Live(watches, r)}}
    BY <1>2, <2>1
  <2>3. event \in ReadySet
    BY <2>2 DEF ReadySet
  <2> QED
    BY <2>1, <2>3
<1>3. ASSUME NEW p \in epoll, NEW e \in ErrorOnChange, Live(watches, p), p \in unread
      PROVE  Ready(p, e) \in ReadySet
  <2>1. PICK event : event = Ready(p, e)
    BY Zenon
  <2>2. event \in {[token |-> watches[q].gen, error |-> d] :
                     q \in {r \in epoll : Live(watches, r) /\ r \in unread},
                     d \in ErrorOnChange}
    BY <1>3, <2>1
  <2>3. event \in ReadySet
    BY <2>2 DEF ReadySet
  <2> QED
    BY <2>1, <2>3
<1> QED
  BY <1>1, <1>2, <1>3

\* For every tree, filter, limit and order of events: a watcher that finds nothing to wait
\* for has seen all there is to see of the directories that it is not known to miss, and
\* will be told of what comes.  The events are handled (NothingIsLost), no stale descriptor
\* is left in the epoll set, and what is registered (NothingIsDeaf) has been read.
THEOREM NoWakeupIsLost == Spec => []QuietIsCurrent
<1>1. Init => ReadOK
  <2> SUFFICES ASSUME Init, NEW p \in Paths, Live(watches, p) PROVE p \in unread
    BY DEF ReadOK
  <2> QED
    BY DEF Init, TreeInit, Live
<1>2. IInv /\ ReadOK /\ NoLostCgroup /\ NoDeafWatch => QuietIsCurrent
  <2> SUFFICES ASSUME IInv, ReadOK, NoLostCgroup, NoDeafWatch, Quiet,
                      NEW p \in alive \ missed, UidOf[p] \in setting.valid
               PROVE  /\ Live(watches, p)
                      /\ p \in epoll
                      /\ keys[p] = watches[p].gen
                      /\ ErrorOnChange # {} => watches[p].populated = ReadPopulated(p)
    BY DEF QuietIsCurrent
  <2>1. /\ 1 \notin DOMAIN queue
        /\ \A q \in epoll : Live(watches, q)
        /\ ErrorOnChange # {} => \A q \in epoll : q \notin unread
    BY NothingReady DEF Quiet
  <2>2. p \in Paths /\ inq = <<>> /\ queue \in Seq(Event)
    BY DEF IInv, TypeOK, TreeTypeOK, ControlOK, Quiet
  <2>3. queue = <<>>
    BY <2>1, <2>2
  <2>4. ~Told(p)
    BY <2>2, <2>3 DEF Told, InSeq
  <2>5. Live(watches, p) \/ p \in epoll
    BY <2>4 DEF NoLostCgroup, Quiet
  <2>6. Live(watches, p)
    BY <2>1, <2>5
  <2>7. p \in epoll /\ keys[p] = watches[p].gen
    BY <2>2, <2>6 DEF NoDeafWatch, Quiet
  <2>8. ErrorOnChange # {} => watches[p].populated = ReadPopulated(p)
    BY <2>1, <2>2, <2>6, <2>7 DEF ReadOK
  <2> QED
    BY <2>6, <2>7, <2>8
<1> QED
  BY <1>1, <1>2, Invariance, NextKeepsRead, NothingIsLost, NothingIsDeaf, PTL DEF Spec

-----------------------------------------------------------------------------
(* What is reported.                                                       *)

\* Only directories that the filter admits, or once admitted, are watched or are about
\* to be read.
Admits(ws) == \A p \in Paths : ws[p].gen # 0 => UidOf[p] \in admitted

AdmittedOK ==
    /\ setting.valid \subseteq admitted
    /\ Admits(watches)
    /\ pc = "opened" => UidOf[Head(inq).at] \in admitted

LEMMA RescanAdmits ==
    ASSUME setting.valid \subseteq admitted, NEW ws, Admits(ws)
    PROVE  Admits(RescanRoots(ws))
<1> DEFINE kept == [p \in Paths |-> IF p \in alive THEN ws[p] ELSE NoWatch]
<1>1. Admits(kept)
  BY DEF Admits, NoWatch
<1>2. ASSUME NEW old, Admits(old)
      PROVE  Admits(ScanRoots(old))
  BY <1>2 DEF Admits, ScanRoots, Unwatched, Admitted
<1> QED
  BY <1>1, <1>2 DEF RescanRoots

LEMMA DropAdmits ==
    ASSUME IInv, Admits(watches), NEW p \in Paths
    PROVE  Admits(Drop(watches, p))
BY DEF IInv, TypeOK, SourceTypeOK, Admits, Drop, NoWatch

LEMMA AddAdmits ==
    ASSUME IInv, AdmittedOK, NEW p \in Unwatched(watches)
    PROVE  Admits(AddUidWatch(watches, p))
<1>1. p \in Paths /\ UidOf[p] \in admitted
  BY DEF IInv, TypeOK, TreeTypeOK, Unwatched, Admitted, AdmittedOK
<1> QED
  BY <1>1 DEF IInv, TypeOK, SourceTypeOK, Admits, AdmittedOK, AddUidWatch, NewWatch

LEMMA ReadAdmits ==
    ASSUME IInv, AdmittedOK
    PROVE  /\ Admits(PollCurrentWatches(watches))
           /\ \A p \in Paths : Admits(SetPopulated(watches, p, ReadPopulated(p)))
<1> DEFINE read == [p \in Paths |->
                      IF p \in (Visited(watches) \ denied) \cap alive
                      THEN [watches[p] EXCEPT !.populated = ReadPopulated(p)]
                      ELSE watches[p]]
<1>1. watches \in [Paths -> Watch] /\ Admits(watches) /\ setting.valid \subseteq admitted
  BY DEF IInv, TypeOK, SourceTypeOK, AdmittedOK
<1>2. Admits(read)
  BY <1>1 DEF Admits, Watch
<1>3. Admits(RescanRoots(read))
  BY <1>1, <1>2, RescanAdmits
<1>4. Admits(PollCurrentWatches(watches))
  BY <1>2, <1>3 DEF PollCurrentWatches
<1>5. \A p \in Paths : Admits(SetPopulated(watches, p, ReadPopulated(p)))
  BY <1>1 DEF Admits, SetPopulated, Watch
<1> QED
  BY <1>4, <1>5

\* The steps of one poll.
LEMMA PollStepKeepsAdmitted == IInv /\ AdmittedOK /\ PollStep => AdmittedOK'
<1> SUFFICES ASSUME IInv, AdmittedOK, PollStep PROVE AdmittedOK'
  OBVIOUS
<1>1. /\ setting.valid \subseteq admitted
      /\ Admits(watches)
      /\ pc = "opened" => UidOf[Head(inq).at] \in admitted
      /\ UNCHANGED <<setting, admitted>>
  BY DEF AdmittedOK, PollStep
<1>2. ASSUME UNCHANGED watches, pc' # "opened"
      PROVE  AdmittedOK'
  BY <1>1, <1>2 DEF AdmittedOK, Admits
<1>3. ASSUME Admits(watches'), pc' # "opened"
      PROVE  AdmittedOK'
  BY <1>1, <1>3 DEF AdmittedOK, Admits
<1>4. ASSUME NEW p \in Paths PROVE Admits(HandleStaleEventsPath(watches, p))
  BY <1>1, DropAdmits, RescanAdmits DEF HandleStaleEventsPath
<1>5. ASSUME NEW event \in ready, NEW p \in Paths,
             HandleStalePriorityEvent(event, p) \/ HandlePriorityEventGone(event, p)
      PROVE  AdmittedOK'
  BY <1>3, <1>4, <1>5
     DEF HandleStalePriorityEvent, HandlePriorityEventGone, Replace, Install
<1>6. CASE HandleOverflow \/ HandleRootGone
  BY <1>1, <1>3, <1>6, RescanAdmits
     DEF HandleOverflow, HandleRootGone, Replace, Install, NextAttempt
<1>7. CASE HandleDelete
  <2>1. Head(inq) \in Event /\ Head(inq).kind \in {"create", "delete"}
    BY <1>7 DEF HandleDelete, InHand, IInv, TypeOK, ControlOK
  <2>2. Head(inq).at \in Paths
    BY <2>1 DEF Event
  <2> QED
    BY <1>1, <1>3, <1>7, <2>2, DropAdmits DEF HandleDelete, Replace, Install, NextAttempt
<1>8. CASE HandleCreateNew
  <2>1. Head(inq).at \in Unwatched(watches)
    BY <1>8 DEF HandleCreateNew
  <2>2. Admits(AddUidWatch(watches, Head(inq).at))
    BY <2>1, AddAdmits
  <2>3. UidOf[Head(inq).at] \in admitted
    BY <1>1, <2>1 DEF Unwatched, Admitted
  <2> QED
    BY <1>1, <1>8, <2>2, <2>3 DEF HandleCreateNew, Replace, Install, AdmittedOK, Admits
<1>9. CASE ReadPriorityEvent
  <2>1. cur \in Paths
    BY <1>9 DEF ReadPriorityEvent, IInv, ControlOK
  <2> QED
    BY <1>3, <1>9, <2>1, ReadAdmits DEF ReadPriorityEvent
<1>10. CASE ReadNewWatch
  <2>1. Head(inq).at \in Paths
    BY <1>10 DEF ReadNewWatch, IInv, TypeOK, TreeTypeOK
  <2> QED
    BY <1>3, <1>10, <2>1, ReadAdmits DEF ReadNewWatch, NextAttempt
<1>11. CASE \/ Receive \/ EndPoll \/ Sync \/ SyncFails \/ HandleCreateKnown
            \/ ReadPriorityEventFails \/ ReadNewWatchFails
            \/ \E event \in ready : \/ SkipToken(event)
                                    \/ ReadInotify(event)
                                    \/ \E p \in Paths : CheckPriorityEvent(event, p)
  <2>1. UNCHANGED watches
    BY <1>11 DEF Receive, EndPoll, Sync, SyncFails, HandleCreateKnown, ReadPriorityEventFails,
                 ReadNewWatchFails, SkipToken, ReadInotify, CheckPriorityEvent, sourceVars
  <2>2. pc' # "opened"
    BY <1>11 DEF Receive, EndPoll, Sync, SyncFails, HandleCreateKnown, InHand, NextAttempt, Continue,
                 Abort, ReadPriorityEventFails, ReadNewWatchFails, SkipToken, ReadInotify,
                 CheckPriorityEvent, Take
  <2> QED
    BY <1>2, <2>1, <2>2
<1> QED
  BY <1>5, <1>6, <1>7, <1>8, <1>9, <1>10, <1>11 DEF PollStep, HandlePriority, HandleInotify

LEMMA NextKeepsAdmitted == IInv /\ AdmittedOK /\ [Next]_vars => AdmittedOK'
<1> SUFFICES ASSUME IInv, AdmittedOK, [Next]_vars PROVE AdmittedOK'
  OBVIOUS
<1>1. CASE PollStep
  BY <1>1, PollStepKeepsAdmitted
<1>2. CASE Configure
  <2>1. setting'.valid \subseteq admitted' /\ admitted \subseteq admitted'
    BY <1>2 DEF Configure
  <2>2. UNCHANGED watches /\ pc' # "opened"
    BY <1>2 DEF Configure, sourceVars
  <2> QED
    BY <2>1, <2>2 DEF AdmittedOK, Admits
<1>3. CASE PollCurrent
  <2>1. /\ UNCHANGED <<setting, admitted>>
        /\ watches' = PollCurrentWatches(watches)
        /\ pc' # "opened"
    BY <1>3 DEF PollCurrent, PollCurrentForeground, PollCurrentForegroundFails, Replace, Install
  <2>2. Admits(watches')
    BY <2>1, ReadAdmits
  <2> QED
    BY <2>1, <2>2 DEF AdmittedOK, Admits
<1>4. CASE Tree \/ Deny \/ New \/ Wait \/ UNCHANGED vars
  <2>1. UNCHANGED <<setting, admitted, watches, inq>>
    BY <1>4 DEF Tree, Deny, New, Wait, vars, watchVars, sourceVars
  <2>2. pc' # "opened" \/ pc' = pc
    BY <1>4 DEF Tree, Deny, New, Wait, vars, watchVars
  <2> QED
    BY <2>1, <2>2 DEF AdmittedOK, Admits
<1> QED
  BY <1>1, <1>2, <1>3, <1>4 DEF Next

\* A candidate that is read of an admitted directory is in the foreground.
LEMMA ReadIsReported ==
    ASSUME NEW p \in Paths, UidOf[p] \in admitted, Report(CandidateAt(p)),
           UNCHANGED populated, SettingKept
    PROVE  [Reports!DeliveryNext]_(Reports!deliveryVars)
<1>1. Active' = Active
  BY DEF Active, SettingKept
<1>2. CASE UNCHANGED reportVars
  BY <1>1, <1>2 DEF reportVars, Reports!deliveryVars, Reports!vars
<1>3. CASE ~ UNCHANGED reportVars
  <2>1. /\ CandidateAt(p) \notin {NoCandidate, lastPayload}
        /\ lastPayload' = CandidateAt(p)
        /\ emitted' = Append(emitted, CandidateAt(p))
        /\ UNCHANGED delivered
    BY <1>3 DEF Report
  <2>2. p \in populated /\ CandidateAt(p) = UidOf[p] /\ UidOf[p] \in setting.named
    BY <2>1 DEF CandidateAt, CandidateForUid
  <2>3. UidOf[p] \in Active
    BY <2>2 DEF Active
  <2>4. Reports!Collect(UidOf[p])
    BY <1>1, <2>1, <2>2, <2>3 DEF Reports!Collect, Reports!Report
  <2> QED
    BY <2>4 DEF Reports!DeliveryNext
<1> QED
  BY <1>2, <1>3

\* An error loses what the poll had collected.
LEMMA LossIsLoss ==
    ASSUME Lose, UNCHANGED populated, SettingKept
    PROVE  [Reports!DeliveryNext]_(Reports!deliveryVars)
<1>1. Active' = Active
  BY DEF Active, SettingKept
<1> QED
  BY <1>1 DEF Lose, Reports!DeliveryNext, Reports!Lose, Reports!deliveryVars, Reports!vars

LEMMA PollStepImplements ==
    IInv /\ AdmittedOK /\ PollStep => [Reports!DeliveryNext]_(Reports!deliveryVars)
<1> SUFFICES ASSUME IInv, AdmittedOK, PollStep PROVE [Reports!DeliveryNext]_(Reports!deliveryVars)
  OBVIOUS
<1>1. SettingKept
  BY DEF PollStep, SettingKept
<1>2. ASSUME UNCHANGED <<populated, reportVars>> PROVE [Reports!DeliveryNext]_(Reports!deliveryVars)
  BY <1>1, <1>2 DEF Active, SettingKept, reportVars, Reports!deliveryVars, Reports!vars
<1>3. CASE ReadPriorityEvent
  <2>1. cur \in Paths /\ UidOf[cur] \in admitted
    BY <1>3 DEF ReadPriorityEvent, Live, IInv, ControlOK, AdmittedOK, Admits
  <2> QED
    BY <1>1, <1>3, <2>1, ReadIsReported DEF ReadPriorityEvent
<1>4. CASE ReadNewWatch
  <2>1. Head(inq).at \in Paths /\ UidOf[Head(inq).at] \in admitted /\ UNCHANGED populated
    BY <1>4 DEF ReadNewWatch, AdmittedOK, treeVars, IInv, TypeOK, TreeTypeOK
  <2>2. UNCHANGED reportVars \/ Report(CandidateAt(Head(inq).at))
    BY <1>4 DEF ReadNewWatch, NextAttempt
  <2> QED
    BY <1>1, <1>2, <2>1, <2>2, ReadIsReported
<1>5. CASE Receive
  <2>1. Active' = Active
    BY <1>1, <1>5 DEF Receive, Active, SettingKept, treeVars
  <2> QED
    BY <1>5, <2>1 DEF Receive, Reports!DeliveryNext, Reports!Deliver, Reports!vars
<1>6. CASE SyncFails \/ ReadPriorityEventFails \/ ReadNewWatchFails
  BY <1>1, <1>6, LossIsLoss
     DEF SyncFails, ReadPriorityEventFails, ReadNewWatchFails, Abort, treeVars
<1>7. CASE Sync \/ EndPoll
  BY <1>2, <1>7 DEF Sync, EndPoll, treeVars
<1>8. CASE HandlePriority \/ \E event \in ready : ReadInotify(event)
  BY <1>2, <1>8 DEF HandlePriority, SkipToken, HandleStalePriorityEvent, HandlePriorityEventGone,
                    CheckPriorityEvent, ReadInotify, treeVars
<1>9. CASE HandleOverflow \/ HandleRootGone \/ HandleDelete \/ HandleCreateKnown \/ HandleCreateNew
  BY <1>2, <1>9 DEF HandleOverflow, HandleRootGone, HandleDelete, HandleCreateKnown,
                    HandleCreateNew, NextAttempt, treeVars
<1> QED
  BY <1>3, <1>4, <1>5, <1>6, <1>7, <1>8, <1>9 DEF PollStep, HandleInotify

LEMMA StepImplements ==
    IInv /\ AdmittedOK /\ [Next]_vars => [Reports!DeliveryNext]_(Reports!deliveryVars)
<1> SUFFICES ASSUME IInv, AdmittedOK, [Next]_vars PROVE [Reports!DeliveryNext]_(Reports!deliveryVars)
  OBVIOUS
<1>1. CASE PollStep
  BY <1>1, PollStepImplements
<1>2. CASE Tree \/ Configure
  <2>1. populated' \subseteq Paths
    BY NextKeepsIInv DEF IInv, TypeOK, TreeTypeOK
  <2>2. Active' \in SUBSET {UidOf[p] : p \in Paths}
    BY <2>1 DEF Active
  <2> QED
    BY <1>2, <2>2 DEF Tree, Configure, reportVars, Reports!DeliveryNext, Reports!Unreported, Reports!Change
<1>3. CASE Deny \/ New \/ Wait \/ PollCurrent \/ UNCHANGED vars
  <2>1. UNCHANGED <<setting, admitted, populated, lastPayload, emitted, delivered>>
    BY <1>3 DEF Deny, New, Wait, PollCurrent, PollCurrentForeground, PollCurrentForegroundFails,
                vars, treeVars, watchVars, reportVars
  <2> QED
    BY <2>1 DEF Active, Reports!deliveryVars, Reports!vars
<1> QED
  BY <1>1, <1>2, <1>3 DEF Next

\* The watcher implements what ForegroundDelivery promises: whatever the tree does
\* between two reads and whatever filters and package caches the caller sets, a candidate
\* counts as reported only while it is in the foreground, and the caller receives nothing
\* else.
THEOREM ReportsAreTrue == Spec => ImplementsReports
<1>1. Init => Reports!DeliveryInit /\ AdmittedOK
  <2> SUFFICES ASSUME Init PROVE Reports!DeliveryInit /\ AdmittedOK
    OBVIOUS
  <2>1. Reports!DeliveryInit
    BY DEF Init, TreeInit, Reports!DeliveryInit, Reports!Init, Active
  <2>2. AdmittedOK
    BY DEF Init, SourceInit, Admitted, AdmittedOK, Admits, NoWatch
  <2> QED
    BY <2>1, <2>2
<1> QED
  BY <1>1, Invariance, NextKeepsAdmitted, StepImplements, PTL
     DEF Spec, ImplementsReports, Reports!DeliverySpec

=============================================================================
