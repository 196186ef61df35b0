--------------------------- MODULE MCIdentityCache ---------------------------
(* The package cache for TLC: small numbers of versions, every one reachable. *)
EXTENDS IdentityCache

\* A command cannot be run, or exits with a failure.
FailsBothWays == {"spawn", "exit"}
=============================================================================
