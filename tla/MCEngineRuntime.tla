--------------------------- MODULE MCEngineRuntime ---------------------------
(* The runtime for TLC: an application, a pid and a candidate without a key.    *)
EXTENDS EngineRuntime

CONSTANTS app, shell, activity

Apps == {app}
PidsOnly == {shell}
Everyone == {app, shell, activity}

FailsBothWays == {"spawn", "exit"}
=============================================================================
