-------------------------- MODULE ForegroundReports --------------------------
(***************************************************************************)
(* What the foreground watcher promises of the candidates it reports       *)
(* ("Engine reports what happened", docs/ARCHITECTURE.md): a candidate     *)
(* that counts as reported is active at that moment and not the one        *)
(* reported last.                                                          *)
(***************************************************************************)
CONSTANTS
    Candidates,     \* what may be reported
    Nobody

VARIABLES
    active,         \* candidates that are in the foreground now
    reported        \* the one that counts as reported last

vars == <<active, reported>>

Init ==
    /\ active \in SUBSET Candidates
    /\ reported = Nobody

Change ==
    /\ active' \in SUBSET Candidates
    /\ UNCHANGED reported

Report(candidate) ==
    /\ candidate \in active
    /\ candidate # reported
    /\ reported' = candidate
    /\ UNCHANGED active

Next == Change \/ (\E candidate \in Candidates : Report(candidate))

Spec == Init /\ [][Next]_vars
=============================================================================
