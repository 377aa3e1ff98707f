----------------------------- MODULE CoDelQueue -----------------------------
(***************************************************************************)
(* AdmissionQueue with its clock: the wait budget of a queued request and  *)
(* the time of the last prompt admission (budget, stalled, admitted and    *)
(* Congested of src/protect/queue.go).  Every action of AdmissionQueue is  *)
(* kept and says in addition what it does to the times.                    *)
(*                                                                         *)
(* Time is counted in ticks and kept as ages: how long ago something was.  *)
(* An age stops growing once it is above every threshold, so the clock     *)
(* itself needs no bound.  A tick passes only when every goroutine of the  *)
(* queue has done what it can: they need microseconds, the thresholds are  *)
(* seconds.  A handler behind the queue may take as long as it likes.      *)
(***************************************************************************)
EXTENDS AdmissionQueue

CONSTANTS
    Tolerate,       \* flag -queue-timeout, in ticks
    CongestedFlag,  \* flag -queue-congestion-timeout, 0 when it is not given
    Second          \* ticks per second, the floor of what New derives

ASSUME ClockAssumption ==
    /\ Tolerate \in Nat \ {0}
    /\ CongestedFlag \in Nat
    /\ Second \in Nat \ {0}
    /\ Budgeted

VARIABLES
    waited, \* how long ago Protect looked at the clock for each request
    shed,   \* the requests whose budget is the one of a saturated hub
    empty,  \* age of Queue.lastEmpty
    asked,  \* clients that have sent their request in this tick
    free    \* auxiliary: age of the last tick that ended with a slot to spare

clock == <<waited, shed, empty, asked, free>>
timedVars == <<vars, clock>>

----------------------------------------------------------------------------
AtLeast(floor, n) == IF n < floor THEN floor ELSE n

\* New: the thresholds that follow from tolerate.
Congested ==
    IF CongestedFlag > 0 THEN CongestedFlag ELSE AtLeast(Second, Tolerate \div 10)
Target == AtLeast(Second, Tolerate \div 20)

Far == AtLeast(Tolerate, Congested) + 1
Older(age) == IF age < Far THEN age + 1 ELSE Far

\* A plausible fault: >= in place of >.
StalledAtOnce == empty >= Tolerate

\* Nobody was admitted promptly for longer than the tolerated interval.
Stalled == empty > Tolerate

\* Congested and Tolerate, whichever Protect took when the request came.
Budget(r) == IF r \in shed THEN Congested ELSE Tolerate

\* A fault: the budget is computed again while the request waits.
DueByNow(r) ==
    pc[r] = "waiting" /\ waited[r] >= IF Stalled THEN Congested ELSE Tolerate

\* The request's timer has fired.
Due(r) == pc[r] = "waiting" /\ waited[r] >= Budget(r)

\* A fault: Congested forgets to ask for waiters.
GaugeOfIdleHub == Stalled

\* The websummoner_queue_congested gauge.
CongestedGauge == queued > 0 /\ Stalled

\* Fewer than Size requests have a slot: a probe's token is no session.
SlotFree == Cardinality(At(Occupying)) < Size

\* Nothing is left to do in this tick but in the handlers and the clients.
Quiet ==
    /\ sending = 0
    /\ \A r \in Requests :
        \/ pc[r] \in {"idle", "creating", "live"}
        \/ pc[r] = "waiting" /\ LimitFull /\ ~Due(r)

----------------------------------------------------------------------------
TimedInit ==
    /\ Init
    /\ waited = [r \in Requests |-> 0]
    /\ shed = {}
    /\ empty = 0
    /\ asked = {}
    /\ free = 0

(* Plausible faults of this code, each to be put in place of an action.    *)

\* Try keeps the token of its probe.
TimedUnprobeLeaks(r) ==
    /\ Goto(r, "tryProbe", "checking")
    /\ UNCHANGED <<disabled, limit, queued, pending, used, sending>>
    /\ UNCHANGED clock

\* The budget of a saturated hub is never armed: its channel stays nil.
ExpireLenientOnly(r) ==
    /\ r \notin shed
    /\ Due(r)
    /\ Expire(r)
    /\ UNCHANGED clock

----------------------------------------------------------------------------
Tick ==
    /\ Quiet
    /\ waited' = [r \in Requests |->
                    IF pc[r] = "waiting" THEN waited[r] + 1 ELSE 0]
    /\ empty' = Older(empty)
    /\ asked' = {}
    /\ free' = IF SlotFree THEN 1 ELSE Older(free)
    /\ UNCHANGED <<vars, shed>>

\* Every client asks once in a tick, so that no tick lasts for ever.
TimedArrive(r) ==
    /\ r \notin asked
    /\ Arrive(r)
    /\ asked' = asked \cup {r}
    /\ UNCHANGED <<waited, shed, empty, free>>

TimedTryUnprobe(r) == TryUnprobe(r) /\ UNCHANGED clock

Probe(r) ==
    /\ \/ TryProbe(r) \/ TryFull(r)
       \/ CheckProbe(r) \/ CheckUnprobe(r) \/ CheckFull(r)
    /\ UNCHANGED clock

\* Protect takes the time and fixes the request's budget.
TimedEnter(r) ==
    /\ Enter(r)
    /\ waited' = [waited EXCEPT ![r] = 0]
    /\ shed' = IF Stalled THEN shed \cup {r} ELSE shed
    /\ UNCHANGED <<empty, asked, free>>

TimedExpire(r) ==
    /\ Due(r)
    /\ Expire(r)
    /\ UNCHANGED clock

\* The other steps on the way through Protect's select.
Pass(r) ==
    /\ Disconnect(r) \/ Acquire(r) \/ SendPending(r)
    /\ UNCHANGED clock

Forget(r) ==
    /\ waited' = [waited EXCEPT ![r] = 0]
    /\ shed' = shed \ {r}
    /\ UNCHANGED <<asked, free>>

TimedLeave(r) == Leave(r) /\ Forget(r) /\ UNCHANGED empty

\* admitted: a wait within target is remembered as the last prompt one.
TimedCallHandler(r) ==
    /\ CallHandler(r)
    /\ empty' = IF waited[r] <= Target THEN 0 ELSE empty
    /\ Forget(r)

TimedSendQueued == SendQueued /\ UNCHANGED clock

\* Drop, Create and Release: what the handler begins when it pleases...
HandlerBegins(r) ==
    /\ DropLimit(r) \/ CreatePending(r) \/ ReleaseLimit(r)
    /\ UNCHANGED clock

\* ...and then ends at once.
HandlerEnds(r) ==
    /\ DropPending(r) \/ CreateUsed(r) \/ ReleaseUsed(r)
    /\ UNCHANGED clock

----------------------------------------------------------------------------
\* What the goroutine of a request does by itself.
TimedProceed(r) ==
    \/ TimedTryUnprobe(r) \/ Probe(r) \/ TimedEnter(r) \/ TimedExpire(r)
    \/ Acquire(r) /\ UNCHANGED clock
    \/ SendPending(r) /\ UNCHANGED clock
    \/ TimedLeave(r) \/ TimedCallHandler(r) \/ HandlerEnds(r)

TimedNext ==
    \/ Tick
    \/ TimedSendQueued
    \/ \E r \in Requests :
        \/ TimedArrive(r) \/ TimedTryUnprobe(r) \/ Probe(r) \/ TimedEnter(r)
        \/ TimedExpire(r) \/ Pass(r) \/ TimedLeave(r) \/ TimedCallHandler(r)
        \/ HandlerBegins(r) \/ HandlerEnds(r)

TimedSpec == TimedInit /\ [][TimedNext]_timedVars

(***************************************************************************)
(* Time passes and goroutines run.  HandlerBegins has no fairness: a       *)
(* session may hang for ever, which is what the wait budget is for.        *)
(***************************************************************************)
TimedFairness ==
    /\ WF_timedVars(Tick)
    /\ WF_timedVars(TimedSendQueued)
    /\ \A r \in Requests : WF_timedVars(TimedProceed(r))

TimedFairSpec == TimedSpec /\ TimedFairness

----------------------------------------------------------------------------
\* Ages stay within the thresholds, only a queued request has a wait or the
\* short budget, and no wait exceeds the budget that was fixed on arrival,
\* whatever becomes of the hub meanwhile.
ClockOK ==
    /\ waited \in [Requests -> 0..Far]
    /\ shed \subseteq At(QueuedOwners)
    /\ empty \in 0..Far
    /\ asked \subseteq Requests
    /\ free \in 0..Far
    /\ \A r \in Requests :
        waited[r] <= IF pc[r] \in QueuedOwners THEN Budget(r) ELSE 0

\* A request that has a slot after a prompt wait and has not yet stored the
\* time of its admission.
HandedOver ==
    \E q \in Requests : pc[q] \in {"acquired", "admitted"} /\ waited[q] <= Target

\* A request gets the short budget of a saturated hub (queue.go:121) only when
\* every tick of the tolerated interval ended with all slots taken.  The one
\* exception is the race of requests that come together after a quiet time: a
\* slot is free, or one of them has taken it and has not stored it yet.
ShedMeansSaturated ==
    [][\A r \in Requests :
        r \in shed' \ shed => free > Tolerate \/ SlotFree \/ HandedOver]_timedVars

\* A request is refused for its wait (queue.go:138) only if at no tick since it
\* came there was a slot to spare: a free slot always reaches a waiter first.
RefusalMeansFull ==
    [][\A r \in Requests :
        pc[r] = "waiting" /\ pc'[r] = "leaving" /\ Due(r)
            => free >= waited[r]]_timedVars

\* Queue.Congested pages nobody for an idle hub: when the goroutines have come
\* to rest, a raised gauge means a request that waits, all slots taken, and
\* none to spare for longer than the tolerated interval.
GaugeHonest ==
    Quiet /\ CongestedGauge =>
        /\ At({"waiting"}) # {}
        /\ Cardinality(At(Occupying)) = Size
        /\ free > Tolerate

\* With a wait budget a queued request is answered even when every session
\* hangs, as in the "grid jammed" case of the session-queue guide.
BudgetEndsWait ==
    \A r \in Requests : pc[r] = "waiting" ~> pc[r] # "waiting"
=============================================================================
