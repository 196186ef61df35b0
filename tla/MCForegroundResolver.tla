------------------------- MODULE MCForegroundResolver -------------------------
(* The resolver for TLC: three versions of a device with two users.          *)
EXTENDS ForegroundResolver

CONSTANTS game, chat, keyboard, shared

\* A system uid, an application's, its twin's of another user, an accessibility service's.
SomeUids == {1000, 10001, 110001, 10002}
SomePackages == {game, chat, keyboard, shared}

\* The application's uid is its own, then shared by two packages, then gone.
Versions ==
    <<{<<game, 10001>>, <<chat, 110001>>, <<shared, 1000>>, <<keyboard, 10002>>},
      {<<game, 10001>>, <<chat, 10001>>, <<chat, 110001>>, <<keyboard, 10002>>},
      {<<shared, 110001>>, <<keyboard, 10002>>}>>

Service == {10002}
Blocked == {shared}
=============================================================================
