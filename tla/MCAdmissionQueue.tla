-------------------------- MODULE MCAdmissionQueue --------------------------
(* AdmissionQueue for TLC: three requests compete for two slots, one of    *)
(* them refusing to wait.                                                  *)
EXTENDS AdmissionQueue

CONSTANTS r1, r2, r3

MCRequests == {r1, r2, r3}
MCNoWait == {r3}
=============================================================================
