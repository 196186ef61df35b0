------------------------------ MODULE MCCgroupV1 ------------------------------
(* A few kinds of processes for TLC: an application and its service process,  *)
(* a shared uid with two packages, a blocked one, a Termux shell, and what    *)
(* the zygote forks.                                                          *)
EXTENDS CgroupV1

AppPackages == {"app", "shared", "blocked", "termux"}

Cache == [u \in {1000, 10001, 10002, 10003} |->
            CASE u = 10001 -> {"app"}
              [] u = 10002 -> {"shared", "blocked"}
              [] u = 10003 -> {"termux"}
              [] u = 1000  -> {}]

Kinds == {
    [uid |-> 10001, package |-> "app",     ui |-> FALSE],
    [uid |-> 10001, package |-> "shared",  ui |-> TRUE],
    [uid |-> 10002, package |-> "shared",  ui |-> TRUE],
    [uid |-> 10002, package |-> "blocked", ui |-> TRUE],
    [uid |-> 10003, package |-> Other,     ui |-> FALSE],
    [uid |-> 1000,  package |-> Empty,     ui |-> FALSE]}
=============================================================================
