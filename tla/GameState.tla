------------------------------ MODULE GameState ------------------------------
(***************************************************************************)
(* What the managed-downscale state file promises whoever loads it         *)
(* (game.rs): a register.  A write replaces the state as a whole or not at *)
(* all.  A crash of the machine may take back writes that the file system  *)
(* had not settled, but never leaves anything that was not once written.   *)
(***************************************************************************)
CONSTANTS
    States,     \* the states a writer may write
    Absent      \* what is loaded when there is no file

VARIABLES
    value,      \* what a load returns
    possible    \* what a load may return after a crash

vars == <<value, possible>>

Init ==
    /\ value \in States \cup {Absent}
    /\ possible = {value}

Replace(state) ==
    /\ value' = state
    /\ possible' = possible \cup {state}

Settle ==
    /\ possible' = {value}
    /\ UNCHANGED value

Crash ==
    /\ value' \in possible
    /\ possible' = {value'}

Next == (\E state \in States : Replace(state)) \/ Settle \/ Crash

Spec == Init /\ [][Next]_vars
=============================================================================
