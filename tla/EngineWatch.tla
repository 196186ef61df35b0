----------------------------- MODULE EngineWatch -----------------------------
(***************************************************************************)
(* EngineWatch (services/watch.rs) over a ForegroundPipeline whose source  *)
(* is CgroupV2EventsSource: the loop that turns inotify events and         *)
(* descriptor readiness into foreground candidates, and keeps the inotify  *)
(* watches and the epoll registrations in step with the source's watches.  *)
(*                                                                         *)
(* One call of poll_once is cut where the tree can change under it: after  *)
(* the wait, after reading the queue, between two events, between two      *)
(* attempts at one event, between a check of a path and the read that      *)
(* trusts it, and between a handler and the sync that follows it.          *)
(***************************************************************************)
EXTENDS CgroupV2

CONSTANTS
    MaxReady,           \* readiness events taken by one wait (16 in the code)
    ErrorOnChange,      \* may a descriptor with news be ready with "error" set?
    RegisterCanFail,    \* may epoll refuse a registration (ENOSPC, ENOMEM)?
    MaxGen              \* bound: a poll starts only while nextGen is below it

ASSUME ReactorAssumption == /\ MaxReady \in Nat \ {0}
                            /\ ErrorOnChange \subseteq BOOLEAN
                            /\ RegisterCanFail \in BOOLEAN
                            /\ MaxGen \in Nat

VARIABLES
    pc,             \* where the call in progress stands
    ready,          \* readiness events of this poll not yet handled
    inq,            \* inotify events read by this poll, the first one in hand
    attempt,        \* which attempt at the event in hand
    cur,            \* the path of the priority event in hand, or NoPath
    fgPaths,        \* foreground_paths: the roots with an inotify watch
    prioPaths,      \* foreground_priority_paths
    keys,           \* foreground_priority_keys, 0 for an absent key
    tokens,         \* foreground_priority_tokens, as pairs of token (see below) and path
    epoll,          \* paths whose current watch's descriptor is in the epoll set
    lastPayload,    \* ForegroundManager::last_payload
    emitted,        \* the candidates in this poll's events, in order
    delivered,      \* the last candidate the caller has received
    dropped,        \* history: what a failed poll took along, unless reported since
    regFailed,      \* history: a registration was refused
    unsynced,       \* history: an error returned past the sync of a new watch
    admitted,       \* history: the uids that a filter has admitted
    missed          \* history: directories whose creation no event will tell

bookVars == <<fgPaths, prioPaths, keys, tokens, epoll, regFailed, unsynced>>
reportVars == <<lastPayload, emitted, delivered, dropped>>
watchVars == <<pc, ready, inq, attempt, cur, bookVars, reportVars, missed>>
vars == <<treeVars, sourceVars, setting, denied, watchVars, admitted>>

-----------------------------------------------------------------------------
Attempts == 3       \* EVENT_RETRY_ATTEMPTS

\* A token is what reactor.add_priority returns.  Core's reactor, which is not in the
\* repository, is assumed never to give a token twice; a watch gets one at most once, for
\* epoll takes a descriptor once.  So the generation of the watch can stand for its token;
\* in the code the generation is the key alone.  NoMisdirectedEvent rests on this.
InotifyToken == 0

ReadyEvent == [token : Nat, error : BOOLEAN]

Keyed == {p \in Paths : keys[p] # 0}

PathsOf(token) == {p \in Paths : <<token, p>> \in tokens}

\* What a wait can report.  The kernel forgets a descriptor that was closed.
ReadySet ==
    {[token |-> InotifyToken, error |-> FALSE] : e \in {1} \cap DOMAIN queue}
    \cup {[token |-> watches[p].gen, error |-> TRUE] :
            p \in {q \in epoll : ~Live(watches, q)}}
    \cup {[token |-> watches[p].gen, error |-> e] :
            p \in {q \in epoll : Live(watches, q) /\ q \in unread}, e \in ErrorOnChange}

Tokens(events) == {e.token : e \in events}

\* As many readiness events as there are, up to the limit, one per descriptor.
Batches ==
    {b \in SUBSET ReadySet :
        /\ Cardinality(b) = Cardinality(Tokens(b))
        /\ \/ Tokens(b) = Tokens(ReadySet) /\ Cardinality(b) <= MaxReady
           \/ Tokens(b) # Tokens(ReadySet) /\ Cardinality(b) = MaxReady}

\* Whether an event still to be handled tells of directory p (see missed).
Tells(event, p) ==
    \/ event.kind \in {"overflow", "gone"}
    \/ event.kind = "create" /\ event.at = p

InSeq(seq) == {seq[i] : i \in DOMAIN seq}

\* Bookkeeping of the history variable: a directory is missed from the moment
\* its announcement is lost until a watch is opened on it.
Miss(ws, lost) == missed' = {p \in missed \cup lost : ~Live(ws, p)}

\* Mutant: the descriptor of a dropped watch is leaked, not closed.
ReplaceWithoutClosing(ws) ==
    /\ Install(ws)
    /\ UNCHANGED epoll
    /\ Miss(ws, {})

\* Directories that should have a watch and could not be opened.
Unopened(ws) == {p \in alive \cap denied : UidOf[p] \in setting.valid /\ ws[p].gen = 0}

\* Closing a descriptor takes it out of the epoll set.
Replace(ws) ==
    /\ Install(ws)
    /\ epoll' = {p \in epoll : ws[p].gen = watches[p].gen}
    /\ Miss(ws, Unopened(ws))

\* filter_changed and event_for_candidate: an unchanged candidate is not reported.
Report(candidate) ==
    IF candidate \in {NoCandidate, lastPayload}
    THEN UNCHANGED reportVars
    ELSE /\ lastPayload' = candidate
         /\ emitted' = Append(emitted, candidate)
         /\ dropped' = dropped \ {candidate}
         /\ UNCHANGED delivered

\* The events of a call that fails are dropped, and count as reported all the same.
Lose ==
    /\ emitted' = <<>>
    /\ dropped' = dropped \cup InSeq(emitted)
    /\ UNCHANGED <<lastPayload, delivered>>

\* An error returns from poll_once and drops what the call still had in hand.
Abort ==
    /\ pc' = "idle"
    /\ ready' = {}
    /\ inq' = <<>>
    /\ attempt' = 1
    /\ cur' = NoPath
    /\ Lose
    /\ Miss(watches, {p \in alive : \E e \in InSeq(inq) : Tells(e, p)})

-----------------------------------------------------------------------------
(* Handling of the event in hand ends in a sync.                           *)

\* A root that is not watched yet is, if it exists by now.
SyncForegroundWatchPaths ==
    IF cur = NoPath
    THEN /\ fgPaths' = fgPaths \cup up
         /\ wd' = wd \cup (up \ fgPaths)
    ELSE UNCHANGED <<fgPaths, wd>>

\* Mutant: only registrations whose watch is gone are dropped.
OutdatedByPath == {p \in Keyed : watches[p].gen = 0}

\* Registrations whose watch is gone or was replaced are dropped first.
Outdated == {p \in Keyed : keys[p] # watches[p].gen}

KeptPaths == prioPaths \ Outdated

\* Mutant: drop_priority_path forgets the key.
KeysUntouched == keys
KeptKeys == [p \in Paths |-> IF p \in Outdated THEN 0 ELSE keys[p]]

\* Mutant: drop_priority_path forgets the token.
TokensUntouched == tokens
KeptTokens == {t \in tokens : t[2] \notin Outdated}

\* Mutant: what was registered once is skipped, whatever became of its watch.
ToRegisterOnce == Watched(watches) \ Keyed
ToRegister == Watched(watches) \ KeptPaths

\* epoll refuses a descriptor that is in the set already.
Refused == ToRegister \cap epoll

\* The key is the generation, and so is what stands for the token the reactor returns.
SyncPriorityOk ==
    /\ Refused = {}
    /\ prioPaths' = KeptPaths \cup ToRegister
    /\ keys' = [p \in Paths |-> IF p \in ToRegister THEN watches[p].gen ELSE KeptKeys[p]]
    /\ tokens' = KeptTokens \cup {<<watches[p].gen, p>> : p \in ToRegister}
    /\ epoll' = epoll \cup ToRegister
    /\ unsynced' = FALSE
    /\ UNCHANGED regFailed

\* The registration of f fails: the ones made before it are in the epoll set but
\* their tokens are lost with the error.
SyncPriorityErr(f) ==
    /\ f \in ToRegister
    /\ f \in Refused \/ RegisterCanFail
    /\ \A p \in Refused : f <= p
    /\ prioPaths' = KeptPaths
    /\ keys' = KeptKeys
    /\ tokens' = KeptTokens
    /\ epoll' = epoll \cup {p \in ToRegister : p < f}
    /\ regFailed' = TRUE
    /\ UNCHANGED unsynced

\* The next event of the queue read, or the next readiness event.
Continue(rest) ==
    /\ inq' = rest
    /\ pc' = IF rest = <<>> THEN "batch" ELSE "inotify"
    /\ attempt' = 1
    /\ cur' = NoPath
    /\ UNCHANGED ready

Rest == IF inq = <<>> THEN <<>> ELSE Tail(inq)

Sync ==
    /\ pc = "sync"
    /\ SyncForegroundWatchPaths
    /\ SyncPriorityOk
    /\ Continue(Rest)
    /\ UNCHANGED <<up, alive, inc, populated, unread, queue, sourceVars, reportVars, missed>>

\* The event in hand was handled: only those behind it are lost.
SyncFails ==
    /\ pc = "sync"
    /\ SyncForegroundWatchPaths
    /\ \E f \in ToRegister : SyncPriorityErr(f)
    /\ pc' = "idle"
    /\ ready' = {}
    /\ inq' = <<>>
    /\ attempt' = 1
    /\ cur' = NoPath
    /\ Lose
    /\ Miss(watches, {p \in alive : \E e \in InSeq(Rest) : Tells(e, p)})
    /\ UNCHANGED <<up, alive, inc, populated, unread, queue, sourceVars>>

-----------------------------------------------------------------------------
(* poll_once: the wait and the readiness events.                           *)

Wait ==
    /\ UNCHANGED <<setting, denied, admitted>>
    /\ pc = "idle"
    /\ nextGen <= MaxGen
    /\ ReadySet # {}
    /\ ready' \in Batches
    /\ pc' = "batch"
    /\ UNCHANGED <<treeVars, sourceVars, inq, attempt, cur, bookVars, reportVars, missed>>

\* The call returns its events, which the caller goes through in order.
Receive ==
    /\ pc = "batch"
    /\ ready = {}
    /\ emitted # <<>>
    /\ delivered' = Head(emitted)
    /\ emitted' = Tail(emitted)
    /\ UNCHANGED <<treeVars, sourceVars, pc, ready, inq, attempt, cur, bookVars,
                   lastPayload, dropped, missed>>

EndPoll ==
    /\ pc = "batch"
    /\ ready = {}
    /\ emitted = <<>>
    /\ pc' = "idle"
    /\ UNCHANGED <<treeVars, sourceVars, ready, inq, attempt, cur, bookVars, reportVars, missed>>

Take(event) == /\ pc = "batch"
               /\ event \in ready
               /\ ready' = ready \ {event}

\* A token that was dropped after the wait is nobody's.
SkipToken(event) ==
    /\ Take(event)
    /\ event.token # InotifyToken
    /\ PathsOf(event.token) = {}
    /\ UNCHANGED <<treeVars, sourceVars, pc, inq, attempt, cur, bookVars, reportVars, missed>>

HandleStalePriorityEvent(event, p) ==
    /\ Take(event)
    /\ p \in PathsOf(event.token)
    /\ event.error
    /\ Replace(HandleStaleEventsPath(watches, p))
    /\ pc' = "sync"
    /\ cur' = p
    /\ UNCHANGED <<up, alive, inc, populated, wd, queue, staleRoots, inq, attempt,
                   fgPaths, prioPaths, keys, tokens, regFailed, unsynced, reportVars>>

\* handle_events_path with no watch, or with a path that is gone.
HandlePriorityEventGone(event, p) ==
    /\ Take(event)
    /\ p \in PathsOf(event.token)
    /\ ~event.error
    /\ p \notin Watched(watches) \cap alive
    /\ Replace(HandleStaleEventsPath(watches, p))
    /\ pc' = "sync"
    /\ cur' = p
    /\ UNCHANGED <<up, alive, inc, populated, wd, queue, staleRoots, inq, attempt,
                   fgPaths, prioPaths, keys, tokens, regFailed, unsynced, reportVars>>

\* The path exists: what its descriptor reads is yet to be seen.
CheckPriorityEvent(event, p) ==
    /\ Take(event)
    /\ p \in PathsOf(event.token)
    /\ ~event.error
    /\ p \in Watched(watches) \cap alive
    /\ pc' = "checked"
    /\ cur' = p
    /\ UNCHANGED <<treeVars, sourceVars, inq, attempt, bookVars, reportVars, missed>>

ReadPriorityEvent ==
    /\ pc = "checked"
    /\ Live(watches, cur)
    /\ watches' = SetPopulated(watches, cur, ReadPopulated(cur))
    /\ unread' = unread \ {cur}
    /\ Report(CandidateAt(cur))
    /\ pc' = "sync"
    /\ UNCHANGED <<up, alive, inc, populated, wd, queue, nextGen, staleRoots,
                   ready, inq, attempt, cur, bookVars, missed>>

\* The descriptor's directory is gone: ENODEV.
ReadPriorityEventFails ==
    /\ pc = "checked"
    /\ ~Live(watches, cur)
    /\ Abort
    /\ UNCHANGED <<treeVars, sourceVars, bookVars>>

ReadInotify(event) ==
    /\ Take(event)
    /\ event.token = InotifyToken
    /\ inq' = queue
    /\ queue' = <<>>
    /\ pc' = "inotify"
    /\ UNCHANGED <<up, alive, inc, populated, unread, wd, sourceVars,
                   attempt, cur, bookVars, reportVars, missed>>

-----------------------------------------------------------------------------
(* handle_fs_event_update: up to three attempts at the event in hand, each *)
(* one call of handle_root_path.                                           *)

\* No candidate came of this attempt.
NextAttempt ==
    /\ pc' = IF attempt < Attempts THEN "inotify" ELSE "sync"
    /\ attempt' = IF attempt < Attempts THEN attempt + 1 ELSE attempt
    /\ UNCHANGED <<ready, inq, cur, reportVars>>

InHand(kinds) == pc = "inotify" /\ Head(inq).kind \in kinds

HandleOverflow ==
    /\ InHand({"overflow"})
    /\ Replace(RescanRoots(watches))
    /\ NextAttempt
    /\ UNCHANGED <<up, alive, inc, populated, wd, queue, staleRoots,
                   fgPaths, prioPaths, keys, tokens, regFailed, unsynced>>

HandleRootGone ==
    /\ InHand({"gone"})
    /\ staleRoots' = staleRoots \cup {Head(inq).at}
    /\ Replace(RescanRoots(watches))
    /\ NextAttempt
    /\ UNCHANGED <<up, alive, inc, populated, wd, queue,
                   fgPaths, prioPaths, keys, tokens, regFailed, unsynced>>

HandleDelete ==
    /\ \/ InHand({"delete"})
       \/ InHand({"create"}) /\ Head(inq).at \notin alive
    /\ Replace(Drop(watches, Head(inq).at))
    /\ NextAttempt
    /\ UNCHANGED <<up, alive, inc, populated, wd, queue, staleRoots,
                   fgPaths, prioPaths, keys, tokens, regFailed, unsynced>>

\* add_uid_watch returns false: watched already, not admitted, or not to be opened now.
HandleCreateKnown ==
    /\ InHand({"create"})
    /\ Head(inq).at \in alive \ Unwatched(watches)
    /\ Miss(watches, {Head(inq).at} \cap Unopened(watches))
    /\ NextAttempt
    /\ UNCHANGED <<treeVars, sourceVars, bookVars>>

\* add_uid_watch opens the descriptor; the populated state is then read by path.
HandleCreateNew ==
    /\ InHand({"create"})
    /\ Head(inq).at \in Unwatched(watches)
    /\ Replace(AddUidWatch(watches, Head(inq).at))
    /\ pc' = "opened"
    /\ UNCHANGED <<up, alive, inc, populated, wd, queue, staleRoots, ready, inq, attempt, cur,
                   fgPaths, prioPaths, keys, tokens, regFailed, unsynced, reportVars>>

ReadNewWatch ==
    LET p == Head(inq).at IN
    /\ pc = "opened"
    /\ p \in alive \ denied
    /\ watches' = SetPopulated(watches, p, ReadPopulated(p))
    /\ IF CandidateAt(p) = NoCandidate
       THEN NextAttempt
       ELSE /\ Report(CandidateAt(p))
            /\ pc' = "sync"
            /\ UNCHANGED <<ready, inq, attempt, cur>>
    /\ UNCHANGED <<treeVars, nextGen, staleRoots, bookVars, missed>>

\* The path is gone, or the watch has taken the last descriptor there was: the new
\* watch stays, and is registered by the next sync.
ReadNewWatchFails ==
    /\ pc = "opened"
    /\ Head(inq).at \notin alive \ denied
    /\ Abort
    /\ unsynced' = (unsynced \/ Head(inq).at \in alive)
    /\ UNCHANGED <<treeVars, sourceVars, fgPaths, prioPaths, keys, tokens, epoll, regFailed>>

-----------------------------------------------------------------------------
(* The other operations, and the whole.                                    *)

\* EngineWatch::new, after the source has scanned the roots.  If it fails there
\* is no EngineWatch, so only its success is a step.
New ==
    /\ UNCHANGED <<setting, denied, admitted>>
    /\ pc = "new"
    /\ SyncForegroundWatchPaths
    /\ SyncPriorityOk
    /\ pc' = "idle"
    /\ UNCHANGED <<up, alive, inc, populated, unread, queue, sourceVars,
                   ready, inq, attempt, cur, reportVars, missed>>

\* poll_current_foreground hands its candidate to the caller past last_payload.
PollCurrentForeground ==
    /\ pc = "idle"
    /\ nextGen <= MaxGen
    /\ ~PollCurrentFails(watches)
    /\ Replace(PollCurrentWatches(watches))
    /\ pc' = "sync"
    /\ UNCHANGED <<up, alive, inc, populated, wd, queue, staleRoots, ready, inq, attempt, cur,
                   fgPaths, prioPaths, keys, tokens, regFailed, unsynced, reportVars>>

\* A path that cannot be opened is an error, which returns before the syncs.
PollCurrentForegroundFails ==
    /\ pc = "idle"
    /\ nextGen <= MaxGen
    /\ PollCurrentFails(watches)
    /\ Replace(PollCurrentWatches(watches))
    /\ unsynced' = (unsynced \/ Opened(PollCurrentWatches(watches)) # {})
    /\ UNCHANGED <<up, alive, inc, populated, wd, queue, staleRoots, pc, ready, inq, attempt, cur,
                   fgPaths, prioPaths, keys, tokens, regFailed, reportVars>>

\* set_filter and set_package_cache: between two calls the caller may give the source
\* another filter or another package cache.  Neither looks at the watches.
Configure ==
    /\ pc = "idle"
    /\ setting' \in Settings \ {setting}
    /\ admitted' = admitted \cup setting'.valid
    /\ Miss(watches, {p \in alive : UidOf[p] \in setting'.valid \ setting.valid})
    /\ UNCHANGED <<treeVars, sourceVars, denied, pc, ready, inq, attempt, cur, bookVars, reportVars>>

Init ==
    /\ TreeInit
    /\ SourceInit
    /\ pc = "new"
    /\ ready = {}
    /\ inq = <<>>
    /\ attempt = 1
    /\ cur = NoPath
    /\ fgPaths = {}
    /\ prioPaths = {}
    /\ keys = [p \in Paths |-> 0]
    /\ tokens = {}
    /\ epoll = {}
    /\ lastPayload = NoCandidate
    /\ emitted = <<>>
    /\ delivered = NoCandidate
    /\ dropped = {}
    /\ regFailed = FALSE
    /\ unsynced = FALSE
    /\ admitted = setting.valid
    /\ missed = {p \in alive \cap denied : UidOf[p] \in setting.valid}

HandlePriority ==
    \E event \in ready :
        \/ SkipToken(event)
        \/ \E p \in Paths : \/ HandleStalePriorityEvent(event, p)
                            \/ HandlePriorityEventGone(event, p)
                            \/ CheckPriorityEvent(event, p)

HandleInotify ==
    \/ \E event \in ready : ReadInotify(event)
    \/ HandleOverflow
    \/ HandleRootGone
    \/ HandleDelete
    \/ HandleCreateKnown
    \/ HandleCreateNew

\* What the program does once poll_once has returned from its wait.
PollStep ==
    /\ \/ HandlePriority
       \/ HandleInotify
       \/ ReadPriorityEvent
       \/ ReadPriorityEventFails
       \/ ReadNewWatch
       \/ ReadNewWatchFails
       \/ Sync
       \/ SyncFails
       \/ Receive
       \/ EndPoll
    /\ UNCHANGED <<setting, denied, admitted>>

\* A step of the tree; a directory made under an unwatched root is missed.
Tree ==
    /\ TreeNext
    /\ missed' = {p \in missed \cap alive' : inc'[p] = inc[p]}
                 \cup {p \in alive' \ alive : RootOf[p] \notin wd}
    /\ UNCHANGED <<sourceVars, setting, denied, admitted,
                   pc, ready, inq, attempt, cur, bookVars, reportVars>>

\* Descriptors run out, or come back.
Deny ==
    /\ denied' \in Denials \ {denied}
    /\ UNCHANGED <<treeVars, sourceVars, setting, admitted, watchVars>>

PollCurrent ==
    /\ PollCurrentForeground \/ PollCurrentForegroundFails
    /\ UNCHANGED <<setting, denied, admitted>>

Next == Tree \/ Deny \/ Configure \/ New \/ Wait \/ PollCurrent \/ PollStep

Spec == Init /\ [][Next]_vars

\* The caller starts the watcher, keeps calling poll_once, and each call runs on.
\* Wait needs strong fairness: the caller may call poll_current_foreground in
\* between, as often as it likes.
Fairness == WF_vars(New) /\ SF_vars(Wait) /\ WF_vars(PollStep)

FairSpec == Spec /\ Fairness

-----------------------------------------------------------------------------
(* Properties.                                                             *)

\* Types, and two facts a reader counts on: epoll holds only descriptors of watches
\* that are open (cgroup_v2.rs closes a descriptor with its watch), and a missed
\* directory exists.
TypeOK ==
    /\ TreeTypeOK
    /\ SourceTypeOK
    /\ pc \in {"new", "idle", "batch", "inotify", "opened", "checked", "sync"}
    /\ ready \subseteq ReadyEvent
    /\ inq \in Seq(Event)
    /\ attempt \in 1..Attempts
    /\ cur \in Paths \cup {NoPath}
    /\ fgPaths \subseteq Roots
    /\ prioPaths \subseteq Paths
    /\ keys \in [Paths -> Nat]
    /\ tokens \subseteq Nat \X Paths
    /\ epoll \subseteq Watched(watches)
    /\ {lastPayload, delivered} \cup dropped \subseteq Candidates
    /\ emitted \in Seq(Candidates)
    /\ {regFailed, unsynced} \subseteq BOOLEAN
    /\ admitted \subseteq Nat
    /\ missed \subseteq alive

\* foreground_priority_paths, _keys and _tokens describe one set of registrations,
\* after every interleaving and every refused registration: each registered path has
\* exactly one token, the one of the watch generation that its key names.
RegistrationsAgree ==
    /\ prioPaths = Keyed
    /\ tokens = {<<keys[p], p>> : p \in Keyed}

\* Between two events, as long as epoll refused nothing and no error returned past the
\* sync of a new watch (unsynced, until the next sync), every watch whose directory
\* still exists is registered under its current generation: no directory that the
\* source thinks it watches is out of the loop's hearing, whatever was replaced,
\* rescanned, refused by a filter or aborted before.
NoDeafWatch ==
    /\ ~regFailed
    /\ ~unsynced
    /\ pc \in {"idle", "batch"} \/ (pc = "inotify" /\ attempt = 1)
    => \A p \in Paths : Live(watches, p) => p \in epoll /\ keys[p] = watches[p].gen

\* A readiness event collected by the wait is never handled against a watch other
\* than the one whose descriptor was ready, although the events handled before it in
\* the same batch may have replaced the watch of its path.  (If the reactor gave a token
\* twice, the code could not tell the two: that it does not is assumed, see InotifyToken.)
NoMisdirectedEvent ==
    pc = "batch" =>
        \A event \in ready, p \in Paths :
            p \in PathsOf(event.token) => watches[p].gen = event.token

Told(p) == \E e \in InSeq(queue) \cup InSeq(inq) : Tells(e, p)

\* Every admitted directory that exists is watched, or an event that leads to it is
\* still to be handled, or a stale watch of its path is registered and will be found
\* out by its error, unless its creation was never announced or the announcement was
\* dropped by an aborted poll, or it could not be opened when it was told of or scanned,
\* or a filter has refused it before (missed).  A DELETE handled late, a lost DELETE, an
\* overflow and a rescan between CREATE and its handling all have to leave it so.
NoLostCgroup ==
    ~regFailed =>
      \A p \in alive : UidOf[p] \in setting.valid =>
        \/ Live(watches, p)
        \/ Told(p)
        \/ p \in missed
        \/ p \in epoll

\* No call is about to find anything to wait for, and none is owed a sync.
Quiet == pc = "idle" /\ ReadySet = {} /\ ~regFailed /\ ~unsynced

\* No lost wakeup.  When the watcher is quiet, its picture of the tree is the tree: every
\* admitted directory that exists and is not missed is watched, what its watch holds is
\* what its cgroup.events says now, and its descriptor is registered under its own key and
\* will tell of the next change.  No order of removals, rescans, aborts and reads by path
\* (poll_current, handle_root_path) leaves the loop asleep on something it has not seen.
QuietIsCurrent ==
    Quiet =>
      \A p \in alive \ missed : UidOf[p] \in setting.valid =>
        /\ Live(watches, p)
        /\ p \in epoll
        /\ keys[p] = watches[p].gen
        /\ ErrorOnChange # {} => watches[p].populated = ReadPopulated(p)

\* What the caller learns: an application that becomes active in one of several named
\* directories is delivered, as often as it takes turns with the others, unless it is
\* the one delivered last anyway, empties again or is missed.  No order of events,
\* retry, abort or sync makes the loop forget it, but for an application that a failed
\* poll took along (dropped): that one counts as reported (see ReportsWhatHappened).
EventuallyReported ==
    \A p \in Paths :
        (p \in (populated \cap unread) \ missed /\ UidOf[p] \in setting.valid \cap setting.named)
            ~> \/ delivered = UidOf[p]
               \/ p \notin populated \ missed
               \/ UidOf[p] \in dropped
               \/ UidOf[p] \notin setting.valid \cap setting.named

\* The applications in the foreground, by the uid that is reported of them.  A watch
\* that an earlier filter admitted goes on.
Active == {UidOf[p] : p \in {q \in populated : UidOf[q] \in admitted \cap setting.named}}

\* A candidate is reported only while its directory is populated, it has a package that
\* is not blocked, and its uid is or was admitted, and only if it differs from the one
\* before, although it is read by path in one handler and from a descriptor in another,
\* in up to three attempts; and the caller receives nothing else.
Reports == INSTANCE ForegroundDelivery
               WITH Candidates <- {UidOf[p] : p \in Paths},
                    Nobody <- NoCandidate,
                    active <- Active,
                    reported <- lastPayload,
                    collected <- emitted

ImplementsReports == Reports!DeliverySpec

\* What the docs say: "Engine reports what happened" (docs/ARCHITECTURE.md).  Between
\* two calls the caller has received the candidate that the deduplication takes for
\* reported.  The code does not hold it: an error drops the events of its poll.
ReportsWhatHappened == pc = "idle" => delivered = lastPayload

\* What a test says: a priority event on a deleted events path does not error
\* (cgroup_v2_deleted_priority_event_does_not_error_and_removes_stale_watch).  The
\* code does not hold it when the path is deleted, or deleted and made again, at the
\* wrong moment.
DeletedPathDoesNotError == [][~ReadPriorityEventFails]_vars

=============================================================================
