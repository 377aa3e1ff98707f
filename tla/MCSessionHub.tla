---------------------------- MODULE MCSessionHub ----------------------------
(* SessionHub for TLC: two sessions and two handlers, and a third session  *)
(* where a slot that came back twice has to be taken by somebody.  The     *)
(* recorded session's browser need not answer, the others' do.             *)
EXTENDS SessionHub

CONSTANTS s1, s2, s3, h1, h2

TwoSessions == {s1, s2}
ThreeSessions == {s1, s2, s3}
TwoHandlers == {h1, h2}
MCRecorded == {s1}
MCSilent == {s1}
=============================================================================
