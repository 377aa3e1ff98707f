---------------------------- MODULE MCCoDelQueue ----------------------------
(* CoDelQueue for TLC: three requests on one slot, so that two compete     *)
(* while the third holds it.  Target is 1, the short budget 2, the long 3. *)
EXTENDS CoDelQueue

CONSTANTS r1, r2, r3

MCRequests == {r1, r2, r3}
MCNoWait == {}

\* With -disable-queue only a request that lost the race of the probes waits.
EnabledInit == TimedInit /\ ~disabled
QueueEnabled == EnabledInit /\ [][TimedNext]_timedVars /\ TimedFairness
=============================================================================
