------------------------------- MODULE CgroupV2 -------------------------------
(***************************************************************************)
(* CgroupV2EventsSource (services/foreground/cgroup_v2.rs): the source     *)
(* keeps one watch, an open cgroup.events descriptor, for each uid         *)
(* directory that its filter admits.                                       *)
(*                                                                         *)
(* A watch is a record of the generation the source gave it, of the        *)
(* incarnation of the directory its descriptor was opened on (a descriptor *)
(* outlives its directory and then reads ENODEV), and of the populated     *)
(* state last read.  The map from path to watch is a total function where  *)
(* NoWatch stands for an absent key.                                       *)
(*                                                                         *)
(* The operators give the map an operation leaves behind; Install makes it *)
(* the new state and numbers the descriptors that were opened.  A scan of  *)
(* the tree is one step: what happens to a directory during the scan is as *)
(* if it happened before or after.                                         *)
(***************************************************************************)
EXTENDS CgroupTree

CONSTANTS
    UidOf,          \* the uid a directory name carries
    Settings,       \* what its filter and its package cache may be (see Setting)
    Denials         \* the sets of paths that may be impossible to open (EMFILE, EACCES)

\* The uids that the filter admits, and those with exactly one package that it does not block.
Setting == [valid : SUBSET Nat, named : SUBSET Nat]

ASSUME UidsAssumption == /\ UidOf \in [Paths -> Nat \ {0}]
                         /\ Settings \subseteq Setting
                         /\ Denials \subseteq SUBSET Paths

VARIABLES
    watches,        \* events path -> its watch
    nextGen,        \* next_watch_generation
    staleRoots,     \* stale_roots
    setting,        \* filter and package_cache
    denied          \* the paths whose cgroup.events cannot be opened now

sourceVars == <<watches, nextGen, staleRoots>>

-----------------------------------------------------------------------------
Populated == {"active", "inactive", "unknown"}

Watch == [gen : Nat, inc : Nat, populated : Populated]

NoWatch == [gen |-> 0, inc |-> 0, populated |-> "unknown"]

NewWatch(gen, incarnation) ==
    [gen |-> gen, inc |-> incarnation, populated |-> "unknown"]

Watched(ws) == {p \in Paths : ws[p].gen # 0}

\* The descriptor of p's watch is open on the directory that exists now.
Live(ws, p) == p \in alive /\ ws[p].gen # 0 /\ ws[p].inc = inc[p]

ReadPopulated(p) == IF p \in populated THEN "active" ELSE "inactive"

NoCandidate == 0

CandidateForUid(uid) == IF uid \in setting.named THEN uid ELSE NoCandidate

\* Mutant: only a change from inactive counts, a first reading does not.
CandidateOnTransition(p) ==
    IF p \in populated /\ watches[p].populated = "inactive"
    THEN CandidateForUid(UidOf[p]) ELSE NoCandidate

\* Mutant: the state read before is taken, not the one just read.
CandidateRemembered(p) ==
    IF watches[p].populated = "active" THEN CandidateForUid(UidOf[p]) ELSE NoCandidate

CandidateAt(p) ==
    IF p \in populated THEN CandidateForUid(UidOf[p]) ELSE NoCandidate

Candidates == {NoCandidate} \cup {UidOf[p] : p \in Paths}

-----------------------------------------------------------------------------
Drop(ws, p) == [ws EXCEPT ![p] = NoWatch]

\* The directories on which add_uid_watch opens a watch, if it has none.
Admitted == {p \in alive \ denied : UidOf[p] \in setting.valid}

\* What a scan of the roots opens: directory entries come in any order, the
\* generations only have to differ.
Unwatched(ws) == {p \in Admitted : ws[p].gen = 0}

Rank(p, S) == Cardinality({q \in S : q < p})

AddUidWatch(ws, p) == [ws EXCEPT ![p] = NewWatch(nextGen, inc[p])]

\* Mutant: the scan returns at a root it cannot read instead of going on.
ScanRootsUntilMissing(ws) ==
    IF up # Roots THEN ws
    ELSE [p \in Paths |->
            IF p \in Unwatched(ws)
            THEN NewWatch(nextGen + Rank(p, Unwatched(ws)), inc[p])
            ELSE ws[p]]

ScanRoots(ws) ==
    [p \in Paths |->
        IF p \in Unwatched(ws)
        THEN NewWatch(nextGen + Rank(p, Unwatched(ws)), inc[p])
        ELSE ws[p]]

\* Mutant: a rescan only drops.
DropGone(ws) == [p \in Paths |-> IF p \in alive THEN ws[p] ELSE NoWatch]

\* Watches of paths that are gone are dropped; a path that was removed and
\* made again keeps its watch on the directory that is no more.
RescanRoots(ws) ==
    ScanRoots([p \in Paths |-> IF p \in alive THEN ws[p] ELSE NoWatch])

HandleStaleEventsPath(ws, p) == RescanRoots(Drop(ws, p))

\* Mutant: what was read once is kept.
SetPopulatedOnce(ws, p, state) ==
    IF ws[p].populated = "unknown" THEN [ws EXCEPT ![p].populated = state] ELSE ws

SetPopulated(ws, p, state) == [ws EXCEPT ![p].populated = state]

-----------------------------------------------------------------------------
\* poll_current reads the watched paths in order, by name, and stops at a candidate or
\* at a path that cannot be opened, which is an error.
ActiveCandidates(ws) == {p \in Watched(ws) \cap alive : CandidateAt(p) # NoCandidate}

Stops(ws) == ActiveCandidates(ws) \cup (Watched(ws) \cap denied)

Visited(ws) ==
    {p \in Watched(ws) : \A q \in Stops(ws) : p <= q}

PollCurrentFails(ws) == Visited(ws) \cap denied # {}

\* A path that is gone is dropped, and what a rescan finds instead is not read.
PollCurrentWatches(ws) ==
    LET readable == Visited(ws) \ denied
        read == [p \in Paths |-> IF p \in readable \cap alive
                                 THEN [ws[p] EXCEPT !.populated = ReadPopulated(p)]
                                 ELSE ws[p]]
    IN IF readable \subseteq alive THEN read ELSE RescanRoots(read)

-----------------------------------------------------------------------------
\* Generations from nextGen on belong to descriptors opened in this step, which
\* have read nothing yet.
Opened(ws) == {p \in Paths : ws[p].gen >= nextGen}

Install(ws) ==
    /\ watches' = ws
    /\ nextGen' = nextGen + Cardinality(Opened(ws))
    /\ unread' = unread \cup Opened(ws)

SourceTypeOK ==
    /\ watches \in [Paths -> Watch]
    /\ nextGen \in Nat \ {0}
    /\ staleRoots \subseteq Roots
    /\ setting \in Setting
    /\ denied \subseteq Paths

\* CgroupV2EventsSource::new scans the roots.
SourceInit ==
    /\ setting \in Settings
    /\ denied \in Denials
    /\ nextGen = 1 + Cardinality(Admitted)
    /\ watches = [p \in Paths |->
                    IF p \in Admitted THEN NewWatch(1 + Rank(p, Admitted), inc[p])
                    ELSE NoWatch]
    /\ staleRoots = {}
=============================================================================
