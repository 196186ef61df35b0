------------------------------- MODULE CgroupV1 -------------------------------
(***************************************************************************)
(* CgroupV1CpusetSource::resolve_payload (services/foreground/             *)
(* cgroup_v1.rs): the list of processes in the top-app group is read, and  *)
(* then, process by process from the last line to the first, /proc is      *)
(* asked for the uid and the command line.  Processes exit, change their   *)
(* command line and their uid, as one forked from the zygote does when it  *)
(* becomes an application, and pids are used again, between any two reads. *)
(***************************************************************************)
EXTENDS Naturals, Sequences, SequencesExt

CONSTANTS
    Pids,               \* the pids that may be listed
    Processes,          \* what a pid may stand for: its uid and its command line
    Packages,           \* the package names
    Termux,             \* one of them, com.termux
    Uids,               \* the uids of Processes
    PackagesOf,         \* the package cache: the packages of each uid
    ValidUids,          \* the uids the candidate filter admits
    BlockedPackages     \* the packages it does not

MinPid == 100           \* smaller pids are skipped
MinAppUid == 10000      \* the cache is not asked about smaller uids

\* Command lines that name no package: one with a process name that is not a package's
\* ("sh", "/system/bin/app_process"), and none at all (a kernel thread, a zombie).
Other == "other process"
Empty == "no command line"

Process == [uid : Uids, package : Packages \cup {Other, Empty}, ui : BOOLEAN]

ASSUME V1Assumption ==
    /\ Pids \subseteq Nat
    /\ Uids \subseteq Nat
    /\ Processes \subseteq Process
    /\ Termux \in Packages
    /\ {Other, Empty} \cap Packages = {}
    /\ PackagesOf \in [Uids -> SUBSET Packages]
    /\ ValidUids \subseteq Uids
    /\ BlockedPackages \subseteq Packages

VARIABLES
    group,      \* cgroup.procs: the pids in the top-app group, in some order
    proc,       \* running pids -> their process
    pc,         \* where resolve_payload stands
    lines,      \* the pids not yet looked at, the last line of the list first
    uid,        \* the uid read for the pid in hand, or 0
    best,       \* the best candidate so far
    result,     \* what the last call returned
    undisturbed \* history: nothing has changed since the list was read

envVars == <<group, proc>>
vars == <<group, proc, pc, lines, uid, best, result, undisturbed>>

-----------------------------------------------------------------------------
Candidate == [pid : Pids, uid : Uids, package : Packages, ui : BOOLEAN]

None == [pid |-> 0, uid |-> 0, package |-> Empty, ui |-> FALSE]

Running(pid) == pid \in DOMAIN proc

Pid == Head(lines)

\* cache.uid_state, for the states that a candidate may come of.
Exact(u, package) == PackagesOf[u] = {package}

\* Mutant: the cache is not asked.
CmdlineTrusted ==
    /\ uid \in ValidUids
    /\ Running(Pid)
    /\ proc[Pid].package \in Packages \ BlockedPackages

\* cmdline_info_for_pid: what the command line is now, for the uid read before.  The
\* cache is asked whether the two go together.
CmdlineInfo ==
    /\ uid \in ValidUids
    /\ Running(Pid)
    /\ proc[Pid].package \in Packages \ BlockedPackages
    /\ uid >= MinAppUid /\ PackagesOf[uid] # {} => proc[Pid].package \in PackagesOf[uid]

\* termux_process_has_non_package_cmdline.
TermuxShell ==
    /\ Termux \in PackagesOf[uid]
    /\ Running(Pid)
    /\ proc[Pid].package = Other

\* filter.candidate_for_uid, with an identity that is resolved.
ForUid(package) ==
    /\ uid \in ValidUids
    /\ Exact(uid, package)
    /\ package \notin BlockedPackages

StoodFor == {package \in Packages : ~TermuxShell /\ ForUid(package)}

\* Mutant: among equals the later line wins, whatever its pid.
IsLater(c) == best = None \/ c.ui \/ ~best.ui
IsBetter(c) ==
    \/ best = None
    \/ c.ui /\ ~best.ui
    \/ c.ui = best.ui /\ c.pid > best.pid

\* Mutant: what was read for one line is still there for the next.
NextLineUnreset ==
    /\ pc' = "line"
    /\ lines' = Tail(lines)
    /\ uid' = uid

NextLine ==
    /\ pc' = "line"
    /\ lines' = Tail(lines)
    /\ uid' = 0

-----------------------------------------------------------------------------
\* poll_current, and handle_fs_event, which resolves the list it has read whether or
\* not that differs from the one before.
ReadPayload ==
    /\ pc = "idle"
    /\ pc' = "line"
    /\ lines' = Reverse(group)
    /\ best' = None
    /\ undisturbed' = TRUE
    /\ UNCHANGED <<envVars, uid, result>>

\* A pid of the system's, or of a process that is gone.
SkipLine ==
    /\ pc = "line"
    /\ lines # <<>>
    /\ Pid < MinPid \/ ~Running(Pid)
    /\ NextLine
    /\ UNCHANGED <<envVars, best, result, undisturbed>>

UidForPid ==
    /\ pc = "line"
    /\ lines # <<>>
    /\ Pid >= MinPid
    /\ Running(Pid)
    /\ uid' = proc[Pid].uid
    /\ pc' = "cmdline"
    /\ UNCHANGED <<envVars, lines, best, result, undisturbed>>

Consider(package, ui) ==
    LET c == [pid |-> Pid, uid |-> uid, package |-> package, ui |-> ui]
    IN best' = IF IsBetter(c) THEN c ELSE best

ReadCmdline ==
    /\ pc = "cmdline"
    /\ IF CmdlineInfo
       THEN NextLine /\ Consider(proc[Pid].package, proc[Pid].ui)
       ELSE pc' = "fallback" /\ UNCHANGED <<lines, uid, best>>
    /\ UNCHANGED <<envVars, result, undisturbed>>

\* The command line is read once more for Termux; else the uid alone has to do.
Fallback ==
    /\ pc = "fallback"
    /\ NextLine
    /\ \/ \E package \in StoodFor : Consider(package, FALSE)
       \/ StoodFor = {} /\ UNCHANGED best
    /\ UNCHANGED <<envVars, result, undisturbed>>

Return ==
    /\ pc = "line"
    /\ lines = <<>>
    /\ result' = best
    /\ best' = None
    /\ pc' = "idle"
    /\ UNCHANGED <<envVars, lines, uid, undisturbed>>

-----------------------------------------------------------------------------
\* A process starts in the group, perhaps under a pid used before.
Start(pid, p) ==
    /\ ~Running(pid)
    /\ proc' = [q \in DOMAIN proc \cup {pid} |-> IF q = pid THEN p ELSE proc[q]]
    /\ \E i \in 1..Len(group) + 1 : group' = InsertAt(group, i, pid)

\* A process turns into another one: it execs, renames itself or changes its uid.
Turn(pid, p) ==
    /\ Running(pid)
    /\ proc[pid] # p
    /\ proc' = [proc EXCEPT ![pid] = p]
    /\ UNCHANGED group

\* A process ends, and leaves the group.
Exit(pid) ==
    /\ Running(pid)
    /\ proc' = [q \in DOMAIN proc \ {pid} |-> proc[q]]
    /\ \E i \in DOMAIN group : group[i] = pid /\ group' = RemoveAt(group, i)

Environment ==
    /\ \E pid \in Pids : Exit(pid) \/ \E p \in Processes : Start(pid, p) \/ Turn(pid, p)
    /\ undisturbed' = FALSE
    /\ UNCHANGED <<pc, lines, uid, best, result>>

Init ==
    /\ group = <<>>
    /\ proc = <<>>
    /\ pc = "idle"
    /\ lines = <<>>
    /\ uid = 0
    /\ best = None
    /\ result = None
    /\ undisturbed = FALSE

ResolvePayload == ReadPayload \/ SkipLine \/ UidForPid \/ ReadCmdline \/ Fallback \/ Return

Next == Environment \/ ResolvePayload

Spec == Init /\ [][Next]_vars

-----------------------------------------------------------------------------
(* Properties.                                                             *)

TypeOK ==
    /\ DOMAIN proc \subseteq Pids
    /\ proc \in [DOMAIN proc -> Processes]
    /\ group \in Seq(Pids)
    /\ \A i, j \in DOMAIN group : group[i] = group[j] => i = j
    /\ ToSet(group) = DOMAIN proc
    /\ pc \in {"idle", "line", "cmdline", "fallback"}
    /\ pc \in {"cmdline", "fallback"} => lines # <<>> /\ uid \in Uids
    /\ pc \in {"idle", "line"} => uid = 0
    /\ lines \in Seq(Pids)
    /\ {best, result} \subseteq Candidate \cup {None}
    /\ undisturbed \in BOOLEAN

\* The uid and the package of a candidate go together according to the cache, although
\* they were read at two times and the process may have become another one in between;
\* and the filter admits both, whichever way the package was found.
CandidateIsCoherent ==
    result # None =>
        /\ result.uid \in ValidUids
        /\ result.package \notin BlockedPackages
        /\ result.uid >= MinAppUid /\ PackagesOf[result.uid] # {}
            => result.package \in PackagesOf[result.uid]

\* What a process is a candidate for, read at once.
Named(p) == /\ p.package \in Packages \ BlockedPackages
            /\ p.uid >= MinAppUid /\ PackagesOf[p.uid] # {} => p.package \in PackagesOf[p.uid]

Represents(pid, package) ==
    LET p == proc[pid]
    IN /\ p.uid \in ValidUids
       /\ IF Named(p)
          THEN package = p.package
          ELSE /\ PackagesOf[p.uid] = {package}
               /\ package \notin BlockedPackages
               /\ ~(package = Termux /\ p.package = Other)

Eligible == {pid \in ToSet(group) : pid >= MinPid /\ \E package \in Packages : Represents(pid, package)}

WithUi == {pid \in Eligible : Named(proc[pid]) /\ proc[pid].ui}

Preferred == IF WithUi # {} THEN WithUi ELSE Eligible

\* If nothing changes while the list is gone through, the candidate is the listed
\* process with the largest pid, among those with a user interface if there is one, and
\* the package it stands for: the order of the lines makes no difference.
ChoosesTheTopApp ==
    pc = "idle" /\ undisturbed =>
        IF Eligible = {}
        THEN result = None
        ELSE /\ result.pid \in Preferred
             /\ \A pid \in Preferred : pid <= result.pid
             /\ result.uid = proc[result.pid].uid
             /\ Represents(result.pid, result.package)

=============================================================================
