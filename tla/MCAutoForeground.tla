--------------------------- MODULE MCAutoForeground ---------------------------
(* One root for TLC.                                                         *)
EXTENDS AutoForeground

CONSTANT r1

OneRoot == {r1}
AllInOne == [p \in Paths |-> r1]
Uids == [p \in Paths |-> 10000 + p]

Fixed == {[valid |-> {10001}, named |-> {10001}]}

\* How often each directory may be made.
Twice == [p \in Paths |-> 2]
Thrice == [p \in Paths |-> 3]
=============================================================================
