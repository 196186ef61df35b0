------------------------------ MODULE CgroupTree ------------------------------
(***************************************************************************)
(* The environment of the foreground watcher: the cgroup v2 directories    *)
(* that Android creates and removes, one per application uid, under a few  *)
(* root directories, and the kernel's two ways to report a change of them: *)
(* an inotify queue (creation and removal of directories) and, for each    *)
(* open cgroup.events file, a "changed since last read" flag that makes    *)
(* the file's descriptor ready.                                            *)
(*                                                                         *)
(* None of this is code of the repository.  It is what the services under  *)
(* crates/engine/src/services rely on: cgroup_v2.rs reads the tree by      *)
(* path, watch.rs reads the queue and waits for the descriptors.           *)
(***************************************************************************)
EXTENDS Naturals, Sequences, FiniteSets

CONSTANTS
    Roots,      \* the configured root directories
    TransientRoots, \* those that may be absent, appear and be removed
    Paths,      \* the uid directories that may appear, numbered in path order
    RootOf,     \* the root that holds each of them
    MaxInc,     \* bound: how often each directory may be created
    QueueMax    \* how many events the inotify queue holds

ASSUME PathsAssumption == /\ Paths \subseteq Nat \ {0}
                          /\ IsFiniteSet(Paths)
ASSUME RootsAssumption == RootOf \in [Paths -> Roots] /\ TransientRoots \subseteq Roots
ASSUME BoundsAssumption == MaxInc \in [Paths -> Nat] /\ QueueMax \in Nat \ {0}

VARIABLES
    up,         \* roots that exist
    alive,      \* uid directories that exist
    inc,        \* how often each directory was created: which one a path names
    populated,  \* existing directories whose cgroup.events says "populated 1"
    unread,     \* directories whose open cgroup.events has news for its reader
    wd,         \* roots with a live inotify watch
    queue       \* the inotify events not yet read

treeVars == <<up, alive, inc, populated, unread, wd, queue>>

-----------------------------------------------------------------------------
NoPath == 0

\* An inotify event names a directory or a root; an overflow names nothing.
Event == [kind : {"create", "delete"}, at : Paths]
         \cup [kind : {"gone"}, at : Roots]
         \cup [kind : {"overflow"}, at : {NoPath}]

Overflow == [kind |-> "overflow", at |-> NoPath]

\* A full queue drops the event and holds one overflow marker in its place.
Enqueue(event) ==
    CASE Len(queue) < QueueMax -> Append(queue, event)
      [] Len(queue) = QueueMax -> Append(queue, Overflow)
      [] OTHER -> queue

\* Only a watched root reports what happens under it.
Announce(p, kind) ==
    queue' = IF RootOf[p] \in wd THEN Enqueue([kind |-> kind, at |-> p])
                                 ELSE queue

TreeTypeOK ==
    /\ up \subseteq Roots
    /\ alive \subseteq Paths
    /\ inc \in [Paths -> Nat]
    /\ populated \subseteq alive
    /\ unread \subseteq Paths
    /\ wd \subseteq up
    /\ queue \in Seq(Event)

\* The tree as the program may find it when it starts: nothing is watched.
TreeInit ==
    /\ up \in {u \in SUBSET Roots : Roots \ TransientRoots \subseteq u}
    /\ alive \in SUBSET {p \in Paths : RootOf[p] \in up}
    /\ inc = [p \in Paths |-> IF p \in alive THEN 1 ELSE 0]
    /\ populated \in SUBSET alive
    /\ unread = alive
    /\ wd = {}
    /\ queue = <<>>

-----------------------------------------------------------------------------
\* A new cgroup has no process; whoever opens its cgroup.events has not read it.
MakeDir(p) ==
    /\ p \notin alive
    /\ RootOf[p] \in up
    /\ inc[p] < MaxInc[p]
    /\ alive' = alive \cup {p}
    /\ inc' = [inc EXCEPT ![p] = @ + 1]
    /\ unread' = unread \cup {p}
    /\ Announce(p, "create")
    /\ UNCHANGED <<up, populated, wd>>

\* Only an empty cgroup can be removed.
RemoveDir(p) ==
    /\ p \in alive \ populated
    /\ alive' = alive \ {p}
    /\ Announce(p, "delete")
    /\ UNCHANGED <<up, inc, populated, unread, wd>>

\* The first process enters the cgroup, or the last one leaves it.
TogglePopulated(p) ==
    /\ p \in alive
    /\ populated' = IF p \in populated THEN populated \ {p}
                                       ELSE populated \cup {p}
    /\ unread' = unread \cup {p}
    /\ UNCHANGED <<up, alive, inc, wd, queue>>

\* A root that comes back is a new directory: the old inotify watch is not on it.
MakeRoot(r) ==
    /\ r \in TransientRoots \ up
    /\ up' = up \cup {r}
    /\ UNCHANGED <<alive, inc, populated, unread, wd, queue>>

\* Removing a watched root ends its watch.  "gone" stands for DELETE_SELF and
\* the IGNORED that follows it, which the code handles alike.
RemoveRoot(r) ==
    /\ r \in TransientRoots \cap up
    /\ \A p \in alive : RootOf[p] # r
    /\ up' = up \ {r}
    /\ wd' = wd \ {r}
    /\ queue' = IF r \in wd THEN Enqueue([kind |-> "gone", at |-> r]) ELSE queue
    /\ UNCHANGED <<alive, inc, populated, unread>>

TreeNext ==
    \/ \E p \in Paths : MakeDir(p) \/ RemoveDir(p) \/ TogglePopulated(p)
    \/ \E r \in Roots : MakeRoot(r) \/ RemoveRoot(r)
=============================================================================
