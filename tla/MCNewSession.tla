---------------------------- MODULE MCNewSession ----------------------------
(* NewSession for TLC; the constants are numbers and set in the .cfg.      *)
EXTENDS NewSession
=============================================================================
