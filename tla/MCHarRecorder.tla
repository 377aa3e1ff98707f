---------------------------- MODULE MCHarRecorder ----------------------------
(* HarRecorder for TLC.                                                    *)
EXTENDS HarRecorder

CONSTANTS d1, d2, q1, q2

TwoDeleters == {d1, d2}
TwoIds == {q1, q2}
=============================================================================
