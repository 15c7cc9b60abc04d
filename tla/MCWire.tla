------------------------------- MODULE MCWire -------------------------------
(* Instances of Wire for TLC. *)
EXTENDS Wire

\* What the uninitialised first byte holds: nothing, or one of the flags and a bit
\* that every other type has set anyway.
Garbage == {0, SYNC_TYPE + 16}

\* A message of one byte, two without and one with a text.
Overtaking == {"reconnect", "ping", "sync_session", "push_user"}

\* The hypotheses of the theorems about Wire, on these instances.
ASSUME LengthsFitHere == LengthsFit
ASSUME RoomHere == RoomForEnd

=============================================================================
