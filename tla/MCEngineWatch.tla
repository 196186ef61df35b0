---------------------------- MODULE MCEngineWatch ----------------------------
(* A small tree for TLC: uid directories spread over the roots in turn.      *)
EXTENDS EngineWatch

CONSTANTS r1, r2

OneRoot == {r1}
TwoRoots == {r1, r2}
AllInOne == [p \in Paths |-> r1]
Spread == [p \in Paths |-> IF p % 2 = 1 THEN r1 ELSE r2]

\* The uid of a directory is told from its name: 10 001, 10 002, ...
Uids == [p \in Paths |-> 10000 + p]

Both == {10001, 10002}
AllNamed == {[valid |-> Both, named |-> Both]}

\* A filter comes that refuses a directory watched by then, and with it the cache that
\* names it.
Changing == {[valid |-> Both, named |-> {}], [valid |-> {10002}, named |-> {10001}]}

\* How often each directory may be made: the first one may come back.
Once == [p \in Paths |-> 1]
FirstTwice == [p \in Paths |-> IF p = 1 THEN 2 ELSE 1]
Twice == [p \in Paths |-> 2]
=============================================================================
