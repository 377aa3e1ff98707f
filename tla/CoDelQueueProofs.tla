-------------------------- MODULE CoDelQueueProofs --------------------------
(***************************************************************************)
(* Proofs about CoDelQueue, for any finite set of requests, any limit and  *)
(* any thresholds: the queue with its clock implements the queue without,  *)
(* nobody gets the short budget of a saturated hub or is refused for its   *)
(* wait while slots are to spare, and the congestion gauge is honest.      *)
(***************************************************************************)
EXTENDS CoDelQueue, AdmissionQueueProofs

USE RequestsAssumption, ClockAssumption

\* The thresholds are numbers and a budget lies below the top of the ages.
LEMMA Thresholds ==
    /\ Congested \in Nat /\ Target \in Nat /\ Tolerate \in Nat
    /\ Far \in Nat /\ Congested < Far /\ Tolerate < Far
<1>1. /\ Tolerate \div 10 \in Nat
      /\ Tolerate \div 20 \in Nat
  BY ClockAssumption
<1>2. Congested \in Nat /\ Target \in Nat
  BY <1>1 DEF Congested, Target, AtLeast
<1> QED
  BY <1>2 DEF Far, AtLeast

\* An age that grows stays within the thresholds.
LEMMA OlderAge ==
    ASSUME NEW age \in 0..Far
    PROVE  Older(age) \in 0..Far /\ Older(age) > 0 /\ Older(age) >= age
BY Thresholds DEF Older

\* What New derives from -queue-timeout alone is in order unless the flag is
\* below a second: a prompt wait is shorter than the budget of a saturated hub,
\* and that budget is no longer than the usual one.
THEOREM ThresholdsOrdered ==
    CongestedFlag = 0 /\ Tolerate >= Second
        => Target <= Congested /\ Congested <= Tolerate
BY ClockAssumption DEF Target, Congested, AtLeast

----------------------------------------------------------------------------
\* The last prompt admission is no older than the last tick that ended with a
\* slot to spare, or such a tick was the last one and the slot is still free
\* or on its way to a request that came after it.
PromptRemembered ==
    \/ empty <= free
    \/ /\ \A r \in At(QueuedOwners) : waited[r] = 0
       /\ SlotFree \/ HandedOver

\* Nobody has waited for longer than all slots have been taken.
WaitsAreSaturated == \A r \in Requests : waited[r] <= free

ClockInv == ClockOK /\ PromptRemembered /\ WaitsAreSaturated

TInv == IInv /\ ClockInv

\* A hub that has just started has seen no wait.
LEMMA TimedInitInv == TimedInit => TInv
<1> SUFFICES ASSUME TimedInit PROVE TInv
  OBVIOUS
<1>1. IInv
  BY InitIInv DEF TimedInit
<1>2. ClockOK
  BY Thresholds
     DEF TimedInit, Init, ClockOK, At, QueuedOwners, Budget
<1>3. PromptRemembered /\ WaitsAreSaturated
  BY DEF TimedInit, PromptRemembered, WaitsAreSaturated
<1> QED
  BY <1>1, <1>2, <1>3 DEF TInv, ClockInv

\* Every step of the clocked queue is a step of the queue or none.
LEMMA TimedStepIsStep == [TimedNext]_timedVars => [Next]_vars
BY DEF TimedNext, timedVars, Next, Tick, TimedSendQueued, TimedArrive,
       TimedTryUnprobe, Probe, TimedEnter, TimedExpire, Pass, TimedLeave,
       TimedCallHandler, HandlerBegins, HandlerEnds, Blocking, Proceed

----------------------------------------------------------------------------
\* A request that moves without taking a slot leaves as many free.
LEMMA SlotsNotTaken ==
    ASSUME TypeOK, NEW r \in Requests, NEW from \in States, NEW to \in States,
           Goto(r, from, to), to \in Occupying => from \in Occupying
    PROVE  SlotFree => SlotFree'
<1>1. Cardinality(At(Occupying))' =
        Cardinality(At(Occupying)) + Counts(to, Occupying) - Counts(from, Occupying)
  BY GotoCounts DEF TypeOK
<1>2. Cardinality(At(Occupying)) \in Nat /\ Size \in Nat
  BY AtFinite
<1>3. Cardinality(At(Occupying))' <= Cardinality(At(Occupying))
  <2>1. CASE to \in Occupying
    BY <2>1, <1>1, <1>2 DEF Counts
  <2>2. CASE to \notin Occupying
    BY <2>2, <1>1, <1>2 DEF Counts
  <2> QED
    BY <2>1, <2>2
<1>4. Cardinality(At(Occupying))' \in Nat
  BY FS_Subset, FS_CardinalityType DEF At
<1> QED
  BY <1>2, <1>3, <1>4 DEF SlotFree

\* A step of one request that leaves its times alone keeps the invariant.
LEMMA PlainStep ==
    ASSUME TInv, NEW r \in Requests, NEW from \in States, NEW to \in States,
           Goto(r, from, to),
           UNCHANGED <<waited, shed, empty, free>>, asked' \subseteq Requests,
           from \in QueuedOwners <=> to \in QueuedOwners,
           \/ from = "waiting" /\ to = "acquired"
           \/ to \in Occupying => from \in Occupying,
           from \in {"acquired", "admitted"} => to \in {"acquired", "admitted"}
    PROVE  ClockInv'
<1>1. /\ pc \in [Requests -> States]
      /\ pc[r] = from
      /\ pc' = [pc EXCEPT ![r] = to]
  BY DEF TInv, IInv, TypeOK, Goto
<1>2. /\ At(QueuedOwners)' = At(QueuedOwners)
      /\ \A q \in Requests : pc'[q] \in QueuedOwners <=> pc[q] \in QueuedOwners
  BY <1>1 DEF At
<1>3. ClockOK'
  BY <1>2 DEF TInv, ClockInv, ClockOK, Budget
<1>4. WaitsAreSaturated'
  BY DEF TInv, ClockInv, WaitsAreSaturated
<1>5. PromptRemembered'
  <2>1. CASE empty <= free
    BY <2>1 DEF PromptRemembered
  <2>2. CASE ~(empty <= free)
    <3>1. /\ \A q \in At(QueuedOwners) : waited[q] = 0
          /\ SlotFree \/ HandedOver
      BY <2>2 DEF TInv, ClockInv, PromptRemembered
    <3>2. \A q \in At(QueuedOwners)' : waited'[q] = 0
      BY <3>1, <1>2
    <3>3. HandedOver => HandedOver'
      BY <1>1 DEF HandedOver
    <3>4. CASE from = "waiting" /\ to = "acquired"
      <4>1. r \in At(QueuedOwners)
        BY <1>1, <3>4 DEF At, QueuedOwners
      <4>2. waited'[r] <= Target /\ pc'[r] = "acquired"
        BY <4>1, <3>1, <3>4, <1>1, Thresholds
      <4>3. HandedOver'
        BY <4>2 DEF HandedOver
      <4> QED
        BY <4>3, <3>2 DEF PromptRemembered
    <3>5. CASE to \in Occupying => from \in Occupying
      <4>1. SlotFree => SlotFree'
        BY <3>5, SlotsNotTaken DEF TInv, IInv
      <4> QED
        BY <4>1, <3>1, <3>2, <3>3 DEF PromptRemembered
    <3> QED
      BY <3>4, <3>5
  <2> QED
    BY <2>1, <2>2
<1> QED
  BY <1>3, <1>4, <1>5 DEF ClockInv

----------------------------------------------------------------------------
\* When the goroutines have come to rest the limit channel holds the tokens of
\* the requests that have a slot, and none is on its way to a request.
LEMMA AtRest ==
    ASSUME IInv, Quiet
    PROVE  /\ limit = Cardinality(At(Occupying))
           /\ \A r \in At(QueuedOwners) : pc[r] = "waiting" /\ LimitFull /\ ~Due(r)
           /\ ~HandedOver
<1>1. \A r \in Requests :
        \/ pc[r] \in {"idle", "creating", "live"}
        \/ pc[r] = "waiting" /\ LimitFull /\ ~Due(r)
  BY DEF Quiet
<1>2. At(LimitOwners) = At(Occupying)
  BY <1>1 DEF At, LimitOwners, Probing, Occupying
<1> QED
  BY <1>1, <1>2
     DEF IInv, TokensConserved, SlotConservation, At, QueuedOwners, HandedOver

\* Time passes.
LEMMA TickStep == TInv /\ Tick => ClockInv'
<1> SUFFICES ASSUME TInv, Tick PROVE ClockInv'
  OBVIOUS
<1>1. /\ limit = Cardinality(At(Occupying))
      /\ \A r \in At(QueuedOwners) : pc[r] = "waiting" /\ LimitFull /\ ~Due(r)
      /\ ~HandedOver
  BY AtRest DEF TInv, Tick
<1>2. /\ waited' = [r \in Requests |->
                      IF pc[r] = "waiting" THEN waited[r] + 1 ELSE 0]
      /\ empty' = Older(empty) /\ asked' = {}
      /\ free' = IF SlotFree THEN 1 ELSE Older(free)
      /\ shed' = shed /\ pc' = pc
  BY DEF Tick, vars
<1>3. /\ waited \in [Requests -> 0..Far] /\ shed \subseteq At(QueuedOwners)
      /\ empty \in 0..Far /\ free \in 0..Far
      /\ \A r \in Requests :
           waited[r] <= IF pc[r] \in QueuedOwners THEN Budget(r) ELSE 0
  BY DEF TInv, ClockInv, ClockOK
<1>4. \A r \in Requests : Budget(r) \in Nat /\ Budget(r) < Far
  BY Thresholds DEF Budget
<1>5. \A r \in Requests : pc[r] = "waiting" => waited[r] < Budget(r)
  BY <1>1, <1>3, <1>4 DEF At, QueuedOwners, Due
<1>6. Far \in Nat /\ Far >= 1
  BY Thresholds
<1>7. /\ waited' \in [Requests -> 0..Far]
      /\ \A r \in Requests :
           waited'[r] <= IF pc[r] \in QueuedOwners THEN Budget(r) ELSE 0
  BY <1>2, <1>3, <1>4, <1>5, <1>6 DEF QueuedOwners
<1>8. ClockOK'
  BY <1>2, <1>3, <1>6, <1>7, OlderAge DEF ClockOK, At, Budget
<1>9. CASE SlotFree
  <2>1. At(QueuedOwners) = {}
    BY <1>1, <1>9 DEF SlotFree, LimitFull
  <2>2. \A r \in Requests : waited'[r] = 0
    BY <2>1, <1>2 DEF At, QueuedOwners
  <2>3. SlotFree' /\ At(QueuedOwners)' = {}
    BY <2>1, <1>9, <1>2 DEF SlotFree, At
  <2> QED
    BY <2>2, <2>3, <1>2, <1>8, <1>9
       DEF ClockInv, PromptRemembered, WaitsAreSaturated
<1>10. CASE ~SlotFree
  <2>1. empty <= free
    BY <1>1, <1>10 DEF TInv, ClockInv, PromptRemembered
  <2>2. empty' <= free'
    BY <2>1, <1>2, <1>3, <1>6, <1>10 DEF Older
  <2>3. \A r \in Requests : waited'[r] <= free'
    <3> TAKE r \in Requests
    <3>1. waited[r] <= free /\ waited[r] \in 0..Far
      BY <1>3 DEF TInv, ClockInv, WaitsAreSaturated
    <3>2. free' = Older(free)
      BY <1>2, <1>10
    <3>3. CASE pc[r] = "waiting"
      <4>1. waited'[r] = waited[r] + 1 /\ waited[r] + 1 <= Far
        BY <3>3, <1>2, <1>4, <1>5, <1>6, <3>1
      <4> QED
        BY <4>1, <3>1, <3>2, <1>3, <1>6 DEF Older
    <3>4. CASE pc[r] # "waiting"
      BY <3>4, <3>2, <1>2, <1>3, OlderAge, <1>6
    <3> QED
      BY <3>3, <3>4
  <2> QED
    BY <2>2, <2>3, <1>8 DEF ClockInv, PromptRemembered, WaitsAreSaturated
<1> QED
  BY <1>9, <1>10
----------------------------------------------------------------------------
\* What the other steps do to the times.
LEMMA TimedStep == TInv /\ [TimedNext]_timedVars => ClockInv'
<1> SUFFICES ASSUME TInv, [TimedNext]_timedVars PROVE ClockInv'
  OBVIOUS
<1>1. /\ pc \in [Requests -> States]
      /\ waited \in [Requests -> 0..Far] /\ shed \subseteq At(QueuedOwners)
      /\ empty \in 0..Far /\ free \in 0..Far /\ asked \subseteq Requests
      /\ \A q \in Requests :
           waited[q] <= IF pc[q] \in QueuedOwners THEN Budget(q) ELSE 0
      /\ \A q \in Requests : waited[q] <= free
  BY DEF TInv, IInv, TypeOK, ClockInv, ClockOK, WaitsAreSaturated
<1>2. \A q \in Requests : Budget(q) \in Nat
  BY Thresholds DEF Budget
<1> USE DEF States, TryStates, CheckStates, Probing, Occupying, LimitOwners,
            PendingOwners, UsedOwners, QueuedOwners
<1>3. ASSUME NEW r \in Requests, Probe(r) \/ TimedTryUnprobe(r)
      PROVE  ClockInv'
  <2>1. UNCHANGED clock
    BY <1>3 DEF Probe, TimedTryUnprobe
  <2>2. UNCHANGED <<waited, shed, empty, free>> /\ asked' \subseteq Requests
    BY <2>1, <1>1 DEF clock
  <2>3. CASE TryProbe(r)
    <3>1. Goto(r, "trying", "tryProbe")
      BY <2>3 DEF TryProbe
    <3> QED
      BY <3>1, <2>2, PlainStep
  <2>4. CASE TryFull(r)
    <3>1. Goto(r, "trying", "idle") \/ Goto(r, "trying", "checking")
      BY <2>4 DEF TryFull
    <3> QED
      BY <3>1, <2>2, PlainStep
  <2>5. CASE CheckProbe(r)
    <3>1. Goto(r, "checking", "checkProbe")
      BY <2>5 DEF CheckProbe
    <3> QED
      BY <3>1, <2>2, PlainStep
  <2>6. CASE CheckUnprobe(r)
    <3>1. Goto(r, "checkProbe", "entering")
      BY <2>6 DEF CheckUnprobe
    <3> QED
      BY <3>1, <2>2, PlainStep
  <2>7. CASE CheckFull(r)
    <3>1. Goto(r, "checking", "idle") \/ Goto(r, "checking", "entering")
      BY <2>7 DEF CheckFull
    <3> QED
      BY <3>1, <2>2, PlainStep
  <2>8. CASE TryUnprobe(r)
    <3>1. Goto(r, "tryProbe", "checking")
      BY <2>8 DEF TryUnprobe
    <3> QED
      BY <3>1, <2>2, PlainStep
  <2> QED
    BY <1>3, <2>3, <2>4, <2>5, <2>6, <2>7, <2>8 DEF Probe, TimedTryUnprobe
<1>4. ASSUME NEW r \in Requests, TimedArrive(r)
      PROVE  ClockInv'
  <2>1. /\ Goto(r, "idle", "trying")
        /\ UNCHANGED <<waited, shed, empty, free>> /\ asked' \subseteq Requests
    BY <1>4, <1>1 DEF TimedArrive, Arrive
  <2> QED
    BY <2>1, PlainStep
<1>5. ASSUME NEW r \in Requests, Pass(r) \/ TimedExpire(r)
      PROVE  ClockInv'
  <2>1. UNCHANGED clock
    BY <1>5 DEF Pass, TimedExpire
  <2>2. UNCHANGED <<waited, shed, empty, free>> /\ asked' \subseteq Requests
    BY <2>1, <1>1 DEF clock
  <2>3. \/ Goto(r, "waiting", "leaving")
        \/ Goto(r, "waiting", "acquired")
        \/ Goto(r, "acquired", "admitted")
    BY <1>5 DEF Pass, TimedExpire, Expire, Disconnect, Acquire, SendPending
  <2> QED
    BY <2>2, <2>3, PlainStep
<1>6. ASSUME NEW r \in Requests, HandlerBegins(r) \/ HandlerEnds(r)
      PROVE  ClockInv'
  <2>1. UNCHANGED clock
    BY <1>6 DEF HandlerBegins, HandlerEnds
  <2>2. UNCHANGED <<waited, shed, empty, free>> /\ asked' \subseteq Requests
    BY <2>1, <1>1 DEF clock
  <2>3. \/ Goto(r, "creating", "dropping") \/ Goto(r, "creating", "promoting")
        \/ Goto(r, "live", "closing") \/ Goto(r, "dropping", "idle")
        \/ Goto(r, "promoting", "live") \/ Goto(r, "closing", "idle")
    BY <1>6 DEF HandlerBegins, HandlerEnds, DropLimit, CreatePending,
                ReleaseLimit, DropPending, CreateUsed, ReleaseUsed
  <2> QED
    BY <2>2, <2>3, PlainStep
<1>7. ASSUME NEW r \in Requests, TimedEnter(r)
      PROVE  ClockInv'
  <2>1. Goto(r, "entering", "waiting")
    BY <1>7 DEF TimedEnter, Enter
  <2>2. /\ pc[r] = "entering" /\ pc' = [pc EXCEPT ![r] = "waiting"]
        /\ waited' = [waited EXCEPT ![r] = 0]
        /\ shed' \subseteq shed \cup {r} /\ shed \subseteq shed'
        /\ UNCHANGED <<empty, asked, free>>
    BY <1>7, <2>1 DEF TimedEnter, Goto
  <2>3. At(QueuedOwners)' = At(QueuedOwners) \cup {r}
    BY <2>2, <1>1 DEF At
  <2>4. \A q \in Requests \ {r} : Budget(q)' = Budget(q)
    BY <2>2 DEF Budget
  <2>5. Budget(r)' \in Nat /\ Far \in Nat
    BY Thresholds DEF Budget
  <2>6. ClockOK'
    BY <2>2, <2>3, <2>4, <2>5, <1>1 DEF ClockOK
  <2>7. WaitsAreSaturated'
    BY <2>2, <1>1 DEF WaitsAreSaturated
  <2>8. PromptRemembered'
    <3>1. SlotFree => SlotFree'
      BY <2>1, SlotsNotTaken DEF TInv, IInv
    <3>2. HandedOver => HandedOver'
      BY <2>2, <1>1 DEF HandedOver
    <3>3. (\A q \in At(QueuedOwners) : waited[q] = 0)
            => (\A q \in At(QueuedOwners)' : waited'[q] = 0)
      BY <2>2, <2>3, <1>1
    <3> QED
      BY <3>1, <3>2, <3>3, <2>2 DEF TInv, ClockInv, PromptRemembered
  <2> QED
    BY <2>6, <2>7, <2>8 DEF ClockInv
<1>8. ASSUME NEW r \in Requests, TimedLeave(r) \/ TimedCallHandler(r)
      PROVE  ClockInv'
  <2>1. /\ waited' = [waited EXCEPT ![r] = 0]
        /\ shed' = shed \ {r}
        /\ UNCHANGED <<asked, free>>
    BY <1>8 DEF TimedLeave, TimedCallHandler, Forget
  <2>2. /\ pc[r] \in {"leaving", "admitted"}
        /\ pc' = [pc EXCEPT ![r] = IF pc[r] = "leaving" THEN "idle" ELSE "creating"]
        /\ pc[r] = "leaving" => empty' = empty
        /\ pc[r] = "admitted" => empty' = IF waited[r] <= Target THEN 0 ELSE empty
    BY <1>8 DEF TimedLeave, TimedCallHandler, Leave, CallHandler, Goto
  <2>3. At(QueuedOwners)' = At(QueuedOwners) \ {r}
    BY <2>2, <1>1 DEF At
  <2>4. \A q \in Requests \ {r} : Budget(q)' = Budget(q)
    BY <2>1 DEF Budget
  <2>5. empty' \in 0..Far /\ empty' <= empty /\ Far \in Nat
    BY <2>2, <1>1, Thresholds
  <2>6. ClockOK'
    <3>1. waited' \in [Requests -> 0..Far]
      BY <2>1, <2>5, <1>1
    <3>2. shed' \subseteq At(QueuedOwners)'
      BY <2>1, <2>3, <1>1
    <3>3. \A q \in Requests :
            waited'[q] <= IF pc'[q] \in QueuedOwners THEN Budget(q)' ELSE 0
      BY <2>1, <2>2, <2>4, <1>1
    <3> QED
      BY <3>1, <3>2, <3>3, <2>1, <2>5, <1>1 DEF ClockOK
  <2>7. WaitsAreSaturated'
    BY <2>1, <1>1 DEF WaitsAreSaturated
  <2>8. PromptRemembered'
    <3>1. CASE empty <= free
      <4>1. empty' <= free'
        BY <3>1, <2>1, <2>5, <1>1
      <4> QED
        BY <4>1 DEF PromptRemembered
    <3>2. CASE ~(empty <= free)
      <4>1. /\ \A q \in At(QueuedOwners) : waited[q] = 0
            /\ SlotFree \/ HandedOver
        BY <3>2 DEF TInv, ClockInv, PromptRemembered
      <4>2. CASE pc[r] = "admitted"
        <5>1. waited[r] = 0
          BY <4>1, <4>2 DEF At
        <5>2. empty' = 0
          BY <5>1, <4>2, <2>2, Thresholds
        <5> QED
          BY <5>2, <2>1, <1>1 DEF PromptRemembered
      <4>3. CASE pc[r] = "leaving"
        <5>1. Goto(r, "leaving", "idle")
          BY <2>2, <4>3 DEF Goto
        <5>2. SlotFree => SlotFree'
          BY <5>1, SlotsNotTaken DEF TInv, IInv
        <5>3. HandedOver => HandedOver'
          BY <2>1, <2>2, <4>3, <1>1 DEF HandedOver
        <5>4. \A q \in At(QueuedOwners)' : waited'[q] = 0
          BY <4>1, <2>1, <2>3, <1>1
        <5> QED
          BY <5>2, <5>3, <5>4, <4>1 DEF PromptRemembered
      <4> QED
        BY <4>2, <4>3, <2>2
    <3> QED
      BY <3>1, <3>2
  <2> QED
    BY <2>6, <2>7, <2>8 DEF ClockInv
<1>9. CASE TimedSendQueued \/ UNCHANGED timedVars
  <2>1. UNCHANGED <<pc, waited, shed, empty, asked, free>>
    BY <1>9 DEF TimedSendQueued, SendQueued, timedVars, vars, clock
  <2>2. ClockOK'
    BY <2>1, <1>1 DEF ClockOK, At, Budget
  <2>3. PromptRemembered'
    BY <2>1 DEF TInv, ClockInv, PromptRemembered, SlotFree, HandedOver, At
  <2>4. WaitsAreSaturated'
    BY <2>1, <1>1 DEF WaitsAreSaturated
  <2> QED
    BY <2>2, <2>3, <2>4 DEF ClockInv
<1>10. CASE Tick
  BY <1>10, TickStep
<1> QED
  BY <1>3, <1>4, <1>5, <1>6, <1>7, <1>8, <1>9, <1>10 DEF TimedNext

\* The clock's invariant, with the queue's, holds in every state.
LEMMA TimedInvariance == TimedSpec => []TInv
<1>1. TInv /\ [TimedNext]_timedVars => TInv'
  BY TimedStep, TimedStepIsStep, NextIInv DEF TInv
<1> QED
  BY <1>1, TimedInitInv, PTL DEF TimedSpec

----------------------------------------------------------------------------
\* Ages, budgets and waits stay in their bounds, for every threshold.
THEOREM ClockHolds == TimedSpec => []ClockOK
<1>1. TInv => ClockOK
  BY DEF TInv, ClockInv
<1> QED
  BY <1>1, TimedInvariance, PTL

\* The queue with its clock implements the queue without: all that is proved of
\* AdmissionQueue, as its limit, holds whatever the thresholds decide.
THEOREM ClockRefinesQueue == TimedSpec => Spec
<1>1. TimedInit => Init
  BY DEF TimedInit
<1> QED
  BY <1>1, TimedStepIsStep, PTL DEF TimedSpec, Spec

\* For every limit, load and threshold: a request gets the short budget of a
\* saturated hub only when no tick of the tolerated interval ended with a slot
\* to spare, but for the race of requests that come together.
THEOREM ShedHolds == TimedSpec => ShedMeansSaturated
<1> DEFINE Act == \A r \in Requests :
                    r \in shed' \ shed => free > Tolerate \/ SlotFree \/ HandedOver
<1>1. ASSUME TInv, TimedNext, NEW r \in Requests, r \in shed' \ shed
      PROVE  free > Tolerate \/ SlotFree \/ HandedOver
  <2>1. Stalled
    BY <1>1 DEF TimedNext, Tick, TimedSendQueued, TimedArrive, TimedTryUnprobe,
                Probe, TimedEnter, TimedExpire, Pass, TimedLeave, Forget,
                TimedCallHandler, HandlerBegins, HandlerEnds, clock
  <2>2. empty \in 0..Far /\ free \in 0..Far /\ Far \in Nat /\ Tolerate \in Nat
    BY <1>1, Thresholds DEF TInv, ClockInv, ClockOK
  <2> QED
    BY <2>1, <2>2, <1>1 DEF Stalled, TInv, ClockInv, PromptRemembered
<1>2. TInv /\ [TimedNext]_timedVars => [Act]_timedVars
  BY <1>1
<1> QED
  BY <1>2, TimedInvariance, PTL DEF TimedSpec, ShedMeansSaturated

\* For every limit, load and threshold: whoever is refused for its wait has
\* seen no tick that ended with a slot to spare.
THEOREM RefusalHolds == TimedSpec => RefusalMeansFull
<1> DEFINE Act == \A r \in Requests :
                    pc[r] = "waiting" /\ pc'[r] = "leaving" /\ Due(r)
                        => free >= waited[r]
<1>1. TInv => Act
  <2> SUFFICES ASSUME TInv PROVE Act
    OBVIOUS
  <2>1. /\ \A r \in Requests : waited[r] <= free /\ waited[r] \in 0..Far
        /\ free \in 0..Far
    BY DEF TInv, ClockInv, ClockOK, WaitsAreSaturated
  <2> QED
    BY <2>1, Thresholds
<1>2. TInv /\ [TimedNext]_timedVars => [Act]_timedVars
  BY <1>1
<1> QED
  BY <1>2, TimedInvariance, PTL DEF TimedSpec, RefusalMeansFull

\* The congestion gauge is honest for every limit, load and threshold.
THEOREM GaugeHolds == TimedSpec => []GaugeHonest
<1>1. TInv => GaugeHonest
  <2> SUFFICES ASSUME TInv, Quiet, CongestedGauge
               PROVE  /\ At({"waiting"}) # {}
                      /\ Cardinality(At(Occupying)) = Size
                      /\ free > Tolerate
    BY DEF GaugeHonest
  <2>1. /\ limit = Cardinality(At(Occupying))
        /\ \A r \in At(QueuedOwners) : pc[r] = "waiting" /\ LimitFull /\ ~Due(r)
        /\ ~HandedOver
    BY AtRest DEF TInv
  <2>2. Cardinality(At(QueuedOwners)) > 0
    BY DEF TInv, IInv, TypeOK, TokensConserved, GaugesConserved, Quiet,
           CongestedGauge
  <2>3. PICK r \in At(QueuedOwners) : TRUE
    BY <2>2, FS_EmptySet
  <2>4. r \in At({"waiting"}) /\ LimitFull
    BY <2>1, <2>3 DEF At
  <2>5. Cardinality(At(Occupying)) = Size /\ ~SlotFree
    BY <2>1, <2>4 DEF LimitFull, SlotFree
  <2>6. empty <= free /\ empty > Tolerate
    BY <2>1, <2>5
       DEF TInv, ClockInv, PromptRemembered, CongestedGauge, Stalled
  <2>7. empty \in 0..Far /\ free \in 0..Far /\ Far \in Nat
    BY Thresholds DEF TInv, ClockInv, ClockOK
  <2> QED
    BY <2>4, <2>5, <2>6, <2>7
<1> QED
  BY <1>1, TimedInvariance, PTL
=============================================================================
