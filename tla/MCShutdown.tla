----------------------------- MODULE MCShutdown -----------------------------
(* Shutdown for TLC.                                                       *)
EXTENDS Shutdown

CONSTANTS s1, s2, n

TwoSessions == {s1, s2}
OneName == {n}
=============================================================================
