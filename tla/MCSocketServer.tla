---------------------------- MODULE MCSocketServer ----------------------------
(* The sockets for TLC: requests that are lines, too long, and not ended.      *)
EXTENDS SocketServer

CONSTANTS brief, polite, verbose, silent

FourClients == {brief, polite, verbose, silent}
Requests == (brief :> <<Newline>>)
         @@ (polite :> <<Other, Newline>>)
         @@ (verbose :> <<Other, Other, Other, Other, Newline>>)
         @@ (silent :> <<Other>>)
Answer == <<Other, Other, Newline>>
TheTried == {polite}
TheQuitters == {silent}
=============================================================================
