---------------------------- MODULE AutoForeground ----------------------------
(***************************************************************************)
(* AutoForegroundSource (services/foreground/auto.rs) under EngineWatch:   *)
(* cgroup v1's list of processes is the source as long as it can be read,  *)
(* cgroup v2 is when it cannot, and an ActivityManager query is when       *)
(* cgroup v2 fails.  The source decides anew at every event and every poll, *)
(* and its choice moves the loop's ears: with v1, only v1's list has an     *)
(* inotify watch; without it, the v2 roots have one too and the v2 watches *)
(* are registered with epoll.                                              *)
(*                                                                         *)
(* The loop is told in less detail than in EngineWatch, which has the same *)
(* wait, registrations and reports over the v2 source alone: a wait hands  *)
(* over one descriptor at a time, epoll refuses nothing, and the root      *)
(* directories stay.  The choice among the processes of v1's list is the   *)
(* subject of CgroupV1.                                                    *)
(***************************************************************************)
EXTENDS CgroupV2

CONSTANTS
    TopApps,        \* what v1's list may resolve to: uids, or NoCandidate
    ActivityApps,   \* what an ActivityManager query may answer, likewise
    ActivityFails   \* may the query fail?

ASSUME AppsAssumption == /\ TopApps \subseteq Nat
                         /\ ActivityApps \subseteq Nat
                         /\ ActivityFails \in BOOLEAN

VARIABLES
    readable,       \* v1's cgroup.procs can be read
    top,            \* the application it resolves to
    v1wd,           \* it has an inotify watch
    v1Available,    \* AutoForegroundSource::v1_available
    hints,          \* the roots in AutoForegroundSource::watch_hint_paths
    keys,           \* foreground_priority_keys, 0 for an absent key
    pc,             \* where the call in progress stands
    inq,            \* inotify events read by this call, the first one in hand
    attempt,        \* which attempt at the event in hand
    cur,            \* the path of the priority event in hand, or NoPath
    lastPayload,    \* ForegroundManager::last_payload
    unsynced,       \* history: the last sync that was due did not come, or failed
    overlooked      \* history: directories that nothing will tell v2 of

v1Vars == <<readable, top, v1wd>>
autoVars == <<v1Available, hints>>
callVars == <<pc, inq, attempt, cur>>
vars == <<treeVars, v1Vars, sourceVars, setting, denied, autoVars, keys, callVars,
          lastPayload, unsynced, overlooked>>

-----------------------------------------------------------------------------
Attempts == 3       \* EVENT_RETRY_ATTEMPTS

V1Modified == [kind |-> "modify", at |-> NoPath]

Candidate == [source : {"v1", "v2", "activity"}, app : Nat]

From(source, app) == [source |-> source, app |-> app]

Nobody == [source |-> "v1", app |-> NoCandidate]

InSeq(seq) == {seq[i] : i \in DOMAIN seq}

Rest == IF inq = <<>> THEN <<>> ELSE Tail(inq)

\* The first active path answers poll_current of the v2 source.
V2Current ==
    IF ActiveCandidates(watches) = {}
    THEN NoCandidate
    ELSE CandidateAt(CHOOSE p \in ActiveCandidates(watches) :
                        \A q \in ActiveCandidates(watches) : p <= q)

\* Mutant: the paths to watch are worked out once, by the constructor.
SetV1AvailableOnly(available) ==
    /\ v1Available' = available
    /\ UNCHANGED hints

SetV1Available(available) ==
    /\ v1Available' = available
    /\ hints' = IF available THEN {} ELSE Roots

Replace(ws) == Install(ws) /\ UNCHANGED staleRoots

KeepV2 == UNCHANGED <<watches, nextGen, staleRoots, unread>>

\* Mutant: the application alone is compared, whichever source told of it.
ChangedApp(candidate) == candidate.app # lastPayload.app

Changed(candidate) == candidate # lastPayload

\* filter_changed: an unchanged candidate is not reported.
Report(candidate) ==
    lastPayload' = IF candidate.app # NoCandidate /\ Changed(candidate) THEN candidate
                                                                      ELSE lastPayload

\* What a handler hands back.  An inotify event whose attempt found nobody is tried
\* again; everything else ends in a sync.
Return(candidate) ==
    LET again == inq # <<>> /\ candidate.app = NoCandidate /\ attempt < Attempts
    IN /\ Report(candidate)
       /\ pc' = IF again THEN "event" ELSE "sync"
       /\ attempt' = IF again THEN attempt + 1 ELSE attempt

\* recover_v1_if_available answers instead of v2: with nobody while v1 is believed to
\* work, with v1's candidate if it works again.
RecoverV1 ==
    IF v1Available
    THEN Return(Nobody) /\ UNCHANGED autoVars
    ELSE readable /\ SetV1Available(TRUE) /\ Return(From("v1", top))

\* Mutant: v2 is asked without a look at v1.
V2InChargeBlindly == UNCHANGED autoVars

V2InCharge == ~v1Available /\ ~readable /\ UNCHANGED autoVars

-----------------------------------------------------------------------------
(* Handlers that ask v1 first.                                             *)

InHand(kinds) == pc = "event" /\ Head(inq).kind \in kinds

KeepTree == UNCHANGED <<up, alive, inc, populated, wd, queue>>

\* poll_current: v1, or else v2, which here does not fail.
PollSources ==
    \/ /\ readable
       /\ SetV1Available(TRUE)
       /\ KeepV2
    \/ /\ ~readable
       /\ SetV1Available(FALSE)
       /\ Replace(PollCurrentWatches(watches))

Polled == IF readable THEN From("v1", top) ELSE From("v2", V2Current)

\* A change of v1's list, and an overflow, whose empty path is nobody's.
HandlePolling ==
    /\ InHand({"modify", "overflow"})
    /\ PollSources
    /\ Return(Polled)
    /\ KeepTree
    /\ UNCHANGED <<v1Vars, keys, inq, cur, unsynced>>

\* An event of a v2 root that v1 answers.
HandleWithV1 ==
    /\ InHand({"create", "delete"})
    /\ RecoverV1
    /\ KeepV2
    /\ KeepTree
    /\ UNCHANGED <<v1Vars, keys, inq, cur, unsynced>>

-----------------------------------------------------------------------------
(* Events of a v2 root that v2 answers.                                    *)

HandleDelete ==
    /\ \/ InHand({"delete"})
       \/ InHand({"create"}) /\ Head(inq).at \notin alive
    /\ V2InCharge
    /\ Replace(Drop(watches, Head(inq).at))
    /\ Return(Nobody)
    /\ KeepTree
    /\ UNCHANGED <<v1Vars, keys, inq, cur, unsynced>>

HandleCreateKnown ==
    /\ InHand({"create"})
    /\ Head(inq).at \in alive \ Unwatched(watches)
    /\ V2InCharge
    /\ Return(Nobody)
    /\ KeepV2
    /\ KeepTree
    /\ UNCHANGED <<v1Vars, keys, inq, cur, unsynced>>

HandleCreateNew ==
    /\ InHand({"create"})
    /\ Head(inq).at \in Unwatched(watches)
    /\ V2InCharge
    /\ Replace(AddUidWatch(watches, Head(inq).at))
    /\ pc' = "reading"
    /\ KeepTree
    /\ UNCHANGED <<v1Vars, keys, inq, attempt, cur, lastPayload, unsynced>>

-----------------------------------------------------------------------------
(* Priority events.                                                        *)

\* A registered descriptor is ready: with an error if its directory is gone.
Ready(p) == pc = "idle" /\ keys[p] # 0 /\ keys[p] = watches[p].gen
Broken(p) == Ready(p) /\ ~Live(watches, p)
News(p) == Ready(p) /\ Live(watches, p) /\ p \in unread

HandlePriorityWithV1(p) ==
    /\ Broken(p) \/ News(p)
    /\ RecoverV1
    /\ cur' = p
    /\ KeepV2
    /\ KeepTree
    /\ UNCHANGED <<v1Vars, keys, inq, unsynced>>

HandleStalePriorityEvent(p) ==
    /\ Broken(p)
    /\ V2InCharge
    /\ Replace(HandleStaleEventsPath(watches, p))
    /\ pc' = "sync"
    /\ cur' = p
    /\ KeepTree
    /\ UNCHANGED <<v1Vars, keys, inq, attempt, lastPayload, unsynced>>

\* The path exists: what its descriptor reads is yet to be seen.
CheckPriorityEvent(p) ==
    /\ News(p)
    /\ V2InCharge
    /\ pc' = "reading"
    /\ cur' = p
    /\ KeepV2
    /\ KeepTree
    /\ UNCHANGED <<v1Vars, keys, inq, attempt, lastPayload, unsynced>>

-----------------------------------------------------------------------------
(* What v2 reads after it has looked whether the path exists.              *)

Target == IF cur = NoPath THEN Head(inq).at ELSE cur

\* A new watch is read by path, a ready descriptor by itself.
CanRead == IF cur = NoPath THEN Target \in alive ELSE Live(watches, Target)

ReadV2 ==
    /\ pc = "reading"
    /\ CanRead
    /\ watches' = SetPopulated(watches, Target, ReadPopulated(Target))
    /\ unread' = IF cur = NoPath THEN unread ELSE unread \ {cur}
    /\ Return(From("v2", CandidateAt(Target)))
    /\ KeepTree
    /\ UNCHANGED <<v1Vars, nextGen, staleRoots, autoVars, keys, inq, cur, unsynced>>

\* The directory is gone since: v2 fails, and an ActivityManager query answers.
AskActivity ==
    /\ pc = "reading"
    /\ ~CanRead
    /\ \E app \in ActivityApps : Return(From("activity", app))
    /\ KeepV2
    /\ KeepTree
    /\ UNCHANGED <<v1Vars, autoVars, keys, inq, cur, unsynced>>

\* The query fails too: the call returns the error and drops what it had in hand.
ActivityError ==
    /\ ActivityFails
    /\ pc = "reading"
    /\ ~CanRead
    /\ pc' = "idle"
    /\ inq' = <<>>
    /\ attempt' = 1
    /\ cur' = NoPath
    /\ unsynced' = TRUE
    /\ KeepV2
    /\ KeepTree
    /\ UNCHANGED <<v1Vars, autoVars, keys, lastPayload>>

-----------------------------------------------------------------------------
(* The loop.                                                               *)

\* Mutant: what is left of the queue is forgotten after a sync.
OfV1(e) == e.at = NoPath

\* Events of a watch that was removed find no path in EngineWatch::watches.
OfLiveWatch(e) == e.at = NoPath \/ hints # {}

Heard(seq) ==
    LET heard[n \in 0..Len(seq)] ==
            IF n = 0 THEN <<>>
            ELSE IF OfLiveWatch(seq[n]) THEN Append(heard[n - 1], seq[n])
            ELSE heard[n - 1]
    IN heard[Len(seq)]

\* A priority event is not followed by a sync of the inotify watches.
SyncForegroundWatchPaths ==
    IF cur = NoPath
    THEN /\ wd' = hints
         /\ v1wd' = (v1wd \/ readable)
         /\ queue' = Heard(queue)
    ELSE UNCHANGED <<wd, v1wd, queue>>

\* With v1 back, each registration is to be undone.  epoll refuses that for a watch it
\* does not know, one that has replaced the registered one since the last sync.
Refused == {p \in Paths : v1Available /\ keys[p] # 0 /\ watches[p].gen \notin {0, keys[p]}}

\* Mutant: the registrations of v2 stay when v1 is back.
KeysOfV2 == [p \in Paths |-> watches[p].gen]

PriorityHintKeys == [p \in Paths |-> IF v1Available THEN 0 ELSE watches[p].gen]

Sync ==
    /\ pc \in {"new", "sync"}
    /\ Refused = {}
    /\ SyncForegroundWatchPaths
    /\ inq' = IF cur = NoPath THEN Heard(Rest) ELSE Rest
    /\ keys' = PriorityHintKeys
    /\ pc' = IF inq' = <<>> THEN "idle" ELSE "event"
    /\ attempt' = 1
    /\ cur' = NoPath
    /\ unsynced' = FALSE
    /\ UNCHANGED <<up, alive, inc, populated, unread, readable, top, sourceVars, autoVars,
                   lastPayload>>

\* unregister_priority_fd fails: the registrations before it are undone, it and those
\* behind it are not, and the call returns the error.
SyncFails ==
    /\ pc = "sync"
    /\ \E p \in Refused :
        /\ \A q \in Refused : p <= q
        /\ keys' = [q \in Paths |-> IF q < p THEN 0 ELSE keys[q]]
    /\ SyncForegroundWatchPaths
    /\ pc' = "idle"
    /\ inq' = <<>>
    /\ attempt' = 1
    /\ cur' = NoPath
    /\ unsynced' = TRUE
    /\ UNCHANGED <<up, alive, inc, populated, unread, readable, top, sourceVars, autoVars,
                   lastPayload>>

ReadInotify ==
    /\ pc = "idle"
    /\ queue # <<>>
    /\ inq' = queue
    /\ queue' = <<>>
    /\ pc' = "event"
    /\ UNCHANGED <<up, alive, inc, populated, unread, wd, v1Vars, sourceVars, autoVars, keys,
                   attempt, cur, lastPayload, unsynced>>

\* The caller takes the answer past last_payload.
PollCurrentForeground ==
    /\ pc = "idle"
    /\ PollSources
    /\ pc' = "sync"
    /\ KeepTree
    /\ UNCHANGED <<v1Vars, keys, inq, attempt, cur, lastPayload, unsynced>>

\* AutoForegroundSource::new over two sources just made.
Init ==
    /\ TreeInit
    /\ up = Roots
    /\ SourceInit
    /\ denied = {}
    /\ readable \in BOOLEAN
    /\ top \in TopApps
    /\ v1wd = FALSE
    /\ v1Available = readable
    /\ hints = IF readable THEN {} ELSE Roots
    /\ keys = [p \in Paths |-> 0]
    /\ pc = "new"
    /\ inq = <<>>
    /\ attempt = 1
    /\ cur = NoPath
    /\ lastPayload = Nobody
    /\ unsynced = FALSE
    /\ overlooked = {}

-----------------------------------------------------------------------------
(* The environment, and the whole.                                         *)

programVars == <<sourceVars, autoVars, keys, callVars, lastPayload, unsynced>>

Tree == /\ \E p \in Paths : MakeDir(p) \/ RemoveDir(p) \/ TogglePopulated(p)
        /\ UNCHANGED <<v1Vars, programVars>>

\* v1's list is rewritten; inotify merges an event with an equal one before it.
ChangeTop(app) ==
    /\ app # top
    /\ top' = app
    /\ queue' = IF v1wd /\ (queue = <<>> \/ queue[Len(queue)] # V1Modified)
                THEN Enqueue(V1Modified) ELSE queue
    /\ UNCHANGED <<up, alive, inc, populated, unread, wd, readable, v1wd, programVars>>

\* Permission to read it goes or comes, of which inotify tells nothing.
ToggleReadable ==
    /\ readable' = ~readable
    /\ UNCHANGED <<treeVars, top, v1wd, programVars>>

Announces(seq, p) == [kind |-> "create", at |-> p] \in InSeq(seq)

\* The history variable: directories that stand unwatched while v1 is in charge, and
\* directories whose announcement was dropped, or lost to an error.  (The settings of v2
\* stay as they are, and descriptors do not run out: EngineWatch has both.)
Overlook ==
    /\ UNCHANGED <<setting, denied>>
    /\ overlooked' = {p \in alive' :
        \/ p \in overlooked
        \/ v1Available' /\ ~Live(watches, p)'
        \/ p \notin alive /\ queue' # Append(queue, [kind |-> "create", at |-> p])
        \/ inq' = <<>> /\ Announces(Rest, p)}

HandleInotify == \/ HandlePolling
                 \/ HandleWithV1
                 \/ HandleDelete
                 \/ HandleCreateKnown
                 \/ HandleCreateNew

HandlePriority(p) == \/ HandlePriorityWithV1(p)
                     \/ HandleStalePriorityEvent(p)
                     \/ CheckPriorityEvent(p)

\* What follows of a poll_once that found something ready.
Proceed == HandleInotify \/ ReadV2 \/ AskActivity \/ ActivityError \/ Sync \/ SyncFails

Next ==
    /\ \/ Tree
       \/ \E app \in TopApps : ChangeTop(app)
       \/ ToggleReadable
       \/ ReadInotify
       \/ \E p \in Paths : HandlePriority(p)
       \/ PollCurrentForeground
       \/ Proceed
    /\ Overlook

Spec == Init /\ [][Next]_vars

\* A call runs on to its end.  The caller keeps calling poll_once, whose wait passes
\* over no descriptor for ever; whether it calls poll_current_foreground is its own affair.
\* (Each of these steps moves callVars, and Overlook stops none.)
Fairness ==
    /\ WF_callVars(Proceed)
    /\ SF_callVars(ReadInotify)
    /\ \A p \in Paths : SF_callVars(HandlePriority(p))

FairSpec == Spec /\ Fairness

-----------------------------------------------------------------------------
(* Properties.                                                             *)

TypeOK ==
    /\ alive \subseteq Paths
    /\ populated \subseteq alive
    /\ unread \subseteq Paths
    /\ wd \subseteq Roots
    /\ {queue, inq} \subseteq Seq(Event \cup {V1Modified})
    /\ SourceTypeOK
    /\ {readable, v1wd, v1Available, unsynced} \subseteq BOOLEAN
    /\ hints = IF v1Available THEN {} ELSE Roots
    /\ keys \in [Paths -> Nat]
    /\ pc \in {"new", "idle", "event", "reading", "sync"}
    /\ pc = "event" => inq # <<>>
    /\ attempt \in 1..Attempts
    /\ cur \in Paths \cup {NoPath}
    /\ lastPayload \in Candidate
    /\ overlooked \subseteq alive

\* Between two calls the loop listens to the source in charge: without v1, every v2
\* root has its inotify watch; and unless the last sync did not come or failed, exactly the
\* watches of v2 are registered without v1, none with it, after any number of changes
\* of mind between two syncs.
Listening ==
    pc = "idle" =>
        /\ ~v1Available => wd = Roots
        /\ ~unsynced =>
            \A p \in Paths : keys[p] = IF v1Available THEN 0 ELSE watches[p].gen

\* What each source would say now: v1 as long as its list can be read, v2 of the existing
\* directories of the uids it admits; the query may answer anything it can answer.
Active ==
    (IF readable THEN {From("v1", top)} ELSE {})
    \cup {From("v2", UidOf[p]) :
            p \in {q \in populated : UidOf[q] \in setting.valid \cap setting.named}}
    \cup {From("activity", app) : app \in ActivityApps}

Reportable ==
    {From("v1", app) : app \in TopApps}
    \cup {From("v2", UidOf[p]) : p \in Paths}
    \cup {From("activity", app) : app \in ActivityApps}

\* What is reported is what its source says at that moment, and differs from the report
\* before: a list that can no longer be read, a directory that was emptied, removed or
\* made again since its event, or a poll that a changed choice overtook, gives none.
Reports == INSTANCE ForegroundReports
               WITH Candidates <- Reportable,
                    active <- Active,
                    reported <- lastPayload

ImplementsReports == Reports!Spec

\* What is reported comes from v1 exactly when v1 is in charge after the report, also
\* when v1 comes back between the readiness of a v2 descriptor and its handling.
SourceOrder ==
    [][lastPayload' # lastPayload
        => (lastPayload'.source = "v1" <=> v1Available')]_vars

\* A directory made while v2 was listening is watched, or will be: only those that
\* stood unwatched when v1 was in charge, and those whose announcement was dropped,
\* may stay unknown.
NoLostCgroup ==
    \A p \in alive : UidOf[p] \in setting.valid =>
        \/ watches[p].gen # 0
        \/ Announces(queue, p)
        \/ Announces(inq, p)
        \/ p \in overlooked

\* Events still to be handled; the one in hand is handled when its sync is due.
Pending == InSeq(queue) \cup InSeq(IF pc = "sync" THEN Rest ELSE inq)

\* A change of v1's list that inotify has told of is reported, by a caller that does no
\* more than call poll_once: through a full queue (an overflow), events of v2's roots
\* that wait before it and syncs that move the watches, unless the list changes again,
\* cannot be read, or a sync fails (unsynced), after which each call fails alike.
V1Reports ==
    \A app \in TopApps \ {NoCandidate} :
        (/\ v1Available
         /\ readable
         /\ top = app
         /\ Pending \cap {V1Modified, Overflow} # {})
            ~> (lastPayload = From("v1", app) \/ top # app \/ ~readable \/ unsynced)

\* Once v1 is given up for good, an application that becomes active is reported by v2,
\* unless its directory was overlooked: the inotify watches, the watches of v2 and their
\* registrations are all moved by the syncs that follow the choice, over retries and
\* errors.
FailoverReports ==
    <>[]~v1Available =>
        \A p \in Paths :
            (p \in (populated \cap unread) \ overlooked /\ UidOf[p] \in setting.valid \cap setting.named)
                ~> (lastPayload = From("v2", UidOf[p]) \/ p \notin populated \ overlooked)

\* What the docs say: "Engine reports what happened" (docs/ARCHITECTURE.md).  A sync
\* that leaves v1 in charge and readable leaves it watched, or its changes would not
\* be heard of.  The code does not hold it: a priority event is followed by a sync of
\* the registrations only.
RecoveredV1IsWatched ==
    [][Sync /\ v1Available /\ readable => v1wd']_vars

=============================================================================
