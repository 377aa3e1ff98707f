------------------------ MODULE AdmissionQueueProofs ------------------------
(***************************************************************************)
(* Proofs about AdmissionQueue, for any finite set of requests and any     *)
(* positive limit: conservation of the tokens of all four channels, what   *)
(* follows from it, and the refinement of SlotPool.                        *)
(***************************************************************************)
EXTENDS AdmissionQueue, FiniteSetTheorems, TLAPS

USE RequestsAssumption

\* 1 if a request in state s counts in S, and 0 if not.
Counts(s, S) == IF s \in S THEN 1 ELSE 0

\* Sets of requests are finite, so their cardinalities are numbers.
LEMMA AtFinite ==
    ASSUME NEW S
    PROVE  IsFiniteSet(At(S)) /\ Cardinality(At(S)) \in Nat
BY FS_Subset, FS_CardinalityType DEF At

\* One request moving from one state of the handler chain to another changes
\* how many requests stand in a set of states by what the two states count.
LEMMA GotoCounts ==
    ASSUME pc \in [Requests -> States], NEW r \in Requests,
           NEW from \in States, NEW to \in States, Goto(r, from, to), NEW S
    PROVE  Cardinality(At(S))' =
             Cardinality(At(S)) + Counts(to, S) - Counts(from, S)
<1> DEFINE A == At(S)
           B == {q \in Requests : pc'[q] \in S}
<1>1. At(S)' = B
  BY DEF At
<1>2. /\ pc[r] = from
      /\ pc' = [pc EXCEPT ![r] = to]
  BY DEF Goto
<1>3. IsFiniteSet(A) /\ Cardinality(A) \in Nat
  BY AtFinite
<1>4. CASE from \in S /\ to \in S
  <2>1. B = A
    BY <1>2, <1>4 DEF At
  <2> QED
    BY <2>1, <1>1, <1>3, <1>4 DEF Counts
<1>5. CASE from \notin S /\ to \notin S
  <2>1. B = A
    BY <1>2, <1>5 DEF At
  <2> QED
    BY <2>1, <1>1, <1>3, <1>5 DEF Counts
<1>6. CASE from \in S /\ to \notin S
  <2>1. B = A \ {r} /\ r \in A
    BY <1>2, <1>6 DEF At
  <2>2. Cardinality(B) = Cardinality(A) - 1
    BY <2>1, <1>3, FS_RemoveElement
  <2> QED
    BY <2>2, <1>1, <1>3, <1>6 DEF Counts
<1>7. CASE from \notin S /\ to \in S
  <2>1. B = A \cup {r} /\ r \notin A
    BY <1>2, <1>7 DEF At
  <2>2. Cardinality(B) = Cardinality(A) + 1
    BY <2>1, <1>3, FS_AddElement
  <2> QED
    BY <2>2, <1>1, <1>3, <1>7 DEF Counts
<1> QED
  BY <1>4, <1>5, <1>6, <1>7

----------------------------------------------------------------------------
\* The inductive invariant: what a channel holds is what the requests own.
IInv == TypeOK /\ TokensConserved

\* An empty queue owes nothing.
LEMMA InitIInv == Init => IInv
<1> SUFFICES ASSUME Init PROVE IInv
  OBVIOUS
<1>1. TypeOK
  BY DEF Init, TypeOK, States
<1>2. /\ At(LimitOwners) = {} /\ At(PendingOwners) = {}
      /\ At(UsedOwners) = {} /\ At(QueuedOwners) = {}
  BY DEF Init, At, LimitOwners, Probing, Occupying, PendingOwners,
         UsedOwners, QueuedOwners
<1>3. TokensConserved
  BY <1>2, FS_EmptySet
     DEF Init, TokensConserved, SlotConservation, GaugesConserved
<1> QED
  BY <1>1, <1>3 DEF IInv

\* How a step of one request moves the four cardinalities at once.
LEMMA GotoCountsAll ==
    ASSUME TypeOK, NEW r \in Requests,
           NEW from \in States, NEW to \in States, Goto(r, from, to)
    PROVE  /\ pc' \in [Requests -> States]
           /\ Cardinality(At(LimitOwners))' = Cardinality(At(LimitOwners))
                + Counts(to, LimitOwners) - Counts(from, LimitOwners)
           /\ Cardinality(At(PendingOwners))' = Cardinality(At(PendingOwners))
                + Counts(to, PendingOwners) - Counts(from, PendingOwners)
           /\ Cardinality(At(UsedOwners))' = Cardinality(At(UsedOwners))
                + Counts(to, UsedOwners) - Counts(from, UsedOwners)
           /\ Cardinality(At(QueuedOwners))' = Cardinality(At(QueuedOwners))
                + Counts(to, QueuedOwners) - Counts(from, QueuedOwners)
<1>1. pc \in [Requests -> States]
  BY DEF TypeOK
<1>2. pc' \in [Requests -> States]
  BY <1>1 DEF Goto
<1> QED
  BY <1>1, <1>2, GotoCounts

\* What a step owes: it moves each channel by as much as it moves the
\* number of requests that own a token of that channel.
LEMMA BalancedStep ==
    ASSUME IInv, NEW r \in Requests,
           NEW from \in States, NEW to \in States, Goto(r, from, to),
           disabled' = disabled,
           limit' = limit + Counts(to, LimitOwners) - Counts(from, LimitOwners),
           limit' <= Size,
           pending' = pending
             + Counts(to, PendingOwners) - Counts(from, PendingOwners),
           used' = used + Counts(to, UsedOwners) - Counts(from, UsedOwners),
           queued' \in Nat, sending' \in Nat,
           queued' + sending' = queued + sending
             + Counts(to, QueuedOwners) - Counts(from, QueuedOwners)
    PROVE  IInv'
<1>1. /\ limit' = Cardinality(At(LimitOwners))'
      /\ pending' = Cardinality(At(PendingOwners))'
      /\ used' = Cardinality(At(UsedOwners))'
      /\ queued' + sending' = Cardinality(At(QueuedOwners))'
      /\ pc' \in [Requests -> States]
  BY GotoCountsAll
     DEF IInv, TokensConserved, SlotConservation, GaugesConserved
<1>2. /\ Cardinality(At(LimitOwners))' \in Nat
      /\ Cardinality(At(PendingOwners))' \in Nat
      /\ Cardinality(At(UsedOwners))' \in Nat
  BY FS_Subset, FS_CardinalityType DEF At
<1> QED
  BY <1>1, <1>2
     DEF IInv, TypeOK, TokensConserved, SlotConservation, GaugesConserved

----------------------------------------------------------------------------
\* Every step keeps the invariant: each action of a request is balanced.
LEMMA NextIInv == IInv /\ [Next]_vars => IInv'
<1> SUFFICES ASSUME IInv, [Next]_vars PROVE IInv'
  OBVIOUS
<1> USE DEF Counts, States, TryStates, CheckStates, Probing, Occupying,
        LimitOwners, PendingOwners, UsedOwners, QueuedOwners,
        SendLimit, RecvLimit, RecvQueued, RecvPending, RecvUsed
<1>1. /\ limit \in 0..Size /\ Size \in Nat
      /\ queued \in Nat /\ pending \in Nat /\ used \in Nat /\ sending \in Nat
  BY DEF IInv, TypeOK
<1>2. ASSUME NEW r \in Requests,
             \/ Arrive(r) \/ Disconnect(r) \/ Expire(r)
             \/ Blocking(r) \/ Proceed(r)
      PROVE  IInv'
  <2>1. CASE Arrive(r)
    <3>1. Goto(r, "idle", "trying")
      BY <2>1 DEF Arrive
    <3> QED
      BY <3>1, <2>1, <1>1, BalancedStep DEF Arrive
  <2>2. CASE TryProbe(r)
    <3>1. Goto(r, "trying", "tryProbe")
      BY <2>2 DEF TryProbe
    <3> QED
      BY <3>1, <2>2, <1>1, BalancedStep DEF TryProbe
  <2>3. CASE TryUnprobe(r)
    <3>1. Goto(r, "tryProbe", "checking")
      BY <2>3 DEF TryUnprobe
    <3> QED
      BY <3>1, <2>3, <1>1, BalancedStep DEF TryUnprobe
  <2>4. CASE TryFull(r)
    <3>1. CASE r \in NoWait
      <4>1. Goto(r, "trying", "idle")
        BY <2>4, <3>1 DEF TryFull
      <4> QED
        BY <4>1, <2>4, <1>1, BalancedStep DEF TryFull
    <3>2. CASE ~(r \in NoWait)
      <4>1. Goto(r, "trying", "checking")
        BY <2>4, <3>2 DEF TryFull
      <4> QED
        BY <4>1, <2>4, <1>1, BalancedStep DEF TryFull
    <3> QED
      BY <3>1, <3>2
  <2>5. CASE CheckProbe(r)
    <3>1. Goto(r, "checking", "checkProbe")
      BY <2>5 DEF CheckProbe
    <3> QED
      BY <3>1, <2>5, <1>1, BalancedStep DEF CheckProbe
  <2>6. CASE CheckUnprobe(r)
    <3>1. Goto(r, "checkProbe", "entering")
      BY <2>6 DEF CheckUnprobe
    <3> QED
      BY <3>1, <2>6, <1>1, BalancedStep DEF CheckUnprobe
  <2>7. CASE CheckFull(r)
    <3>1. CASE disabled
      <4>1. Goto(r, "checking", "idle")
        BY <2>7, <3>1 DEF CheckFull
      <4> QED
        BY <4>1, <2>7, <1>1, BalancedStep DEF CheckFull
    <3>2. CASE ~(disabled)
      <4>1. Goto(r, "checking", "entering")
        BY <2>7, <3>2 DEF CheckFull
      <4> QED
        BY <4>1, <2>7, <1>1, BalancedStep DEF CheckFull
    <3> QED
      BY <3>1, <3>2
  <2>8. CASE Enter(r)
    <3>1. Goto(r, "entering", "waiting")
      BY <2>8 DEF Enter
    <3> QED
      BY <3>1, <2>8, <1>1, BalancedStep DEF Enter
  <2>9. CASE Disconnect(r)
    <3>1. Goto(r, "waiting", "leaving")
      BY <2>9 DEF Disconnect
    <3> QED
      BY <3>1, <2>9, <1>1, BalancedStep DEF Disconnect
  <2>10. CASE Expire(r)
    <3>1. Goto(r, "waiting", "leaving")
      BY <2>10 DEF Expire
    <3> QED
      BY <3>1, <2>10, <1>1, BalancedStep DEF Expire
  <2>11. CASE Acquire(r)
    <3>1. Goto(r, "waiting", "acquired")
      BY <2>11 DEF Acquire
    <3> QED
      BY <3>1, <2>11, <1>1, BalancedStep DEF Acquire
  <2>12. CASE Leave(r)
    <3>1. Goto(r, "leaving", "idle")
      BY <2>12 DEF Leave
    <3> QED
      BY <3>1, <2>12, <1>1, BalancedStep DEF Leave
  <2>13. CASE SendPending(r)
    <3>1. Goto(r, "acquired", "admitted")
      BY <2>13 DEF SendPending
    <3> QED
      BY <3>1, <2>13, <1>1, BalancedStep DEF SendPending
  <2>14. CASE CallHandler(r)
    <3>1. Goto(r, "admitted", "creating")
      BY <2>14 DEF CallHandler
    <3> QED
      BY <3>1, <2>14, <1>1, BalancedStep DEF CallHandler
  <2>15. CASE DropLimit(r)
    <3>1. Goto(r, "creating", "dropping")
      BY <2>15 DEF DropLimit
    <3> QED
      BY <3>1, <2>15, <1>1, BalancedStep DEF DropLimit
  <2>16. CASE DropPending(r)
    <3>1. Goto(r, "dropping", "idle")
      BY <2>16 DEF DropPending
    <3> QED
      BY <3>1, <2>16, <1>1, BalancedStep DEF DropPending
  <2>17. CASE CreatePending(r)
    <3>1. Goto(r, "creating", "promoting")
      BY <2>17 DEF CreatePending
    <3> QED
      BY <3>1, <2>17, <1>1, BalancedStep DEF CreatePending
  <2>18. CASE CreateUsed(r)
    <3>1. Goto(r, "promoting", "live")
      BY <2>18 DEF CreateUsed
    <3> QED
      BY <3>1, <2>18, <1>1, BalancedStep DEF CreateUsed
  <2>19. CASE ReleaseLimit(r)
    <3>1. Goto(r, "live", "closing")
      BY <2>19 DEF ReleaseLimit
    <3> QED
      BY <3>1, <2>19, <1>1, BalancedStep DEF ReleaseLimit
  <2>20. CASE ReleaseUsed(r)
    <3>1. Goto(r, "closing", "idle")
      BY <2>20 DEF ReleaseUsed
    <3> QED
      BY <3>1, <2>20, <1>1, BalancedStep DEF ReleaseUsed
  <2> QED
    BY <1>2, <2>1, <2>2, <2>3, <2>4, <2>5, <2>6, <2>7, <2>8, <2>9, <2>10,
       <2>11, <2>12, <2>13, <2>14, <2>15, <2>16, <2>17, <2>18, <2>19, <2>20
       DEF Blocking, Proceed
<1>3. CASE SendQueued
  <2>1. /\ UNCHANGED <<disabled, pc, limit, pending, used>>
        /\ queued' \in Nat /\ sending' \in Nat
        /\ queued' + sending' = queued + sending
    BY <1>1, <1>3 DEF SendQueued
  <2> QED
    BY <2>1 DEF IInv, TypeOK, TokensConserved, SlotConservation,
                GaugesConserved, At
<1>4. CASE UNCHANGED vars
  BY <1>4 DEF vars, IInv, TypeOK, TokensConserved, SlotConservation,
              GaugesConserved, At
<1> QED
  BY <1>2, <1>3, <1>4 DEF Next

\* The channels hold exactly the tokens the requests own, and every variable
\* has its type, in every reachable state of queue.go's handler chain.
THEOREM Invariance == Spec => []IInv
BY InitIInv, NextIInv, PTL DEF Spec

\* No token of limit, pending, used or queued is ever lost or given back
\* twice, for any number of requests and any limit.
THEOREM Conservation == Spec => []TokensConserved
BY Invariance, PTL DEF IInv

\* The occupying requests are among the owners of a limit token, and the
\* channel never holds more than Size tokens.
THEOREM LimitHolds == Spec => []LimitRespected
<1>1. IInv => LimitRespected
  <2> SUFFICES ASSUME IInv PROVE LimitRespected
    OBVIOUS
  <2>1. At(Occupying) \subseteq At(LimitOwners)
    BY DEF At, LimitOwners
  <2>2. Cardinality(At(Occupying)) <= Cardinality(At(LimitOwners))
    BY <2>1, AtFinite, FS_Subset
  <2>3. /\ Cardinality(At(LimitOwners)) <= Size
        /\ Cardinality(At(LimitOwners)) \in Nat
        /\ Cardinality(At(Occupying)) \in Nat
    BY AtFinite DEF IInv, TypeOK, TokensConserved, SlotConservation
  <2> QED
    BY <2>2, <2>3 DEF LimitRespected
<1> QED
  BY <1>1, Invariance, PTL

\* A request that owns a token finds one in the channel: Drop, Create,
\* Release and the probes of Try and Check never hang.
THEOREM ReceivesReady == Spec => []ReceivesNeverBlock
<1>1. ASSUME NEW S, NEW r \in Requests, pc[r] \in S
      PROVE  Cardinality(At(S)) > 0
  <2>1. At(S) # {} /\ IsFiniteSet(At(S)) /\ Cardinality(At(S)) \in Nat
    BY <1>1, AtFinite DEF At
  <2> QED
    BY <2>1, FS_EmptySet
<1>2. IInv => ReceivesNeverBlock
  BY <1>1 DEF IInv, TokensConserved, SlotConservation, GaugesConserved,
              ReceivesNeverBlock
<1> QED
  BY <1>2, Invariance, PTL

----------------------------------------------------------------------------
(* The refinement: the requests that own a limit token are the holders.    *)

\* What one request's step does to the set of holders.
LEMMA GotoHolders ==
    ASSUME TypeOK, NEW r \in Requests,
           NEW from \in States, NEW to \in States, Goto(r, from, to)
    PROVE  /\ from \in LimitOwners <=> r \in At(LimitOwners)
           /\ At(LimitOwners)' = IF to \in LimitOwners
                                 THEN At(LimitOwners) \cup {r}
                                 ELSE At(LimitOwners) \ {r}
BY DEF TypeOK, Goto, At

\* A step of one request that sends on limit only when it becomes a holder
\* is a step of the slot pool or leaves the holders alone.
LEMMA HolderStep ==
    ASSUME IInv, NEW r \in Requests,
           NEW from \in States, NEW to \in States, Goto(r, from, to),
           (from \notin LimitOwners /\ to \in LimitOwners) => limit < Size
    PROVE  [Slots!Next]_(At(LimitOwners))
<1>1. /\ from \in LimitOwners <=> r \in At(LimitOwners)
      /\ At(LimitOwners)' = IF to \in LimitOwners
                            THEN At(LimitOwners) \cup {r}
                            ELSE At(LimitOwners) \ {r}
  BY GotoHolders DEF IInv
<1>2. CASE from \notin LimitOwners /\ to \in LimitOwners
  <2>1. Cardinality(At(LimitOwners)) < Size
    BY <1>2 DEF IInv, TokensConserved, SlotConservation
  <2>2. Slots!Cardinality(At(LimitOwners)) = Cardinality(At(LimitOwners))
    BY DEF Slots!Cardinality, Cardinality
  <2>3. Slots!Take(r)
    BY <1>1, <1>2, <2>1, <2>2 DEF Slots!Take
  <2> QED
    BY <2>3 DEF Slots!Next
<1>3. CASE from \in LimitOwners /\ to \notin LimitOwners
  <2>1. Slots!GiveBack(r)
    BY <1>1, <1>3 DEF Slots!GiveBack
  <2> QED
    BY <2>1 DEF Slots!Next
<1>4. CASE from \in LimitOwners <=> to \in LimitOwners
  BY <1>1, <1>4
<1> QED
  BY <1>2, <1>3, <1>4

\* Every step of the queue is a step of the pool, or leaves the holders alone.
LEMMA NextHolders == IInv /\ [Next]_vars => [Slots!Next]_(At(LimitOwners))
<1> SUFFICES ASSUME IInv, [Next]_vars PROVE [Slots!Next]_(At(LimitOwners))
  OBVIOUS
<1> USE DEF States, TryStates, CheckStates, Probing, Occupying, LimitOwners,
        PendingOwners, UsedOwners, QueuedOwners
<1>1. ASSUME NEW r \in Requests,
             \/ Arrive(r) \/ Disconnect(r) \/ Expire(r)
             \/ Blocking(r) \/ Proceed(r)
      PROVE  [Slots!Next]_(At(LimitOwners))
  <2>1. CASE Arrive(r)
    <3>1. Goto(r, "idle", "trying")
      BY <2>1 DEF Arrive
    <3> QED
      BY <3>1, HolderStep
  <2>2. CASE TryProbe(r)
    <3>1. Goto(r, "trying", "tryProbe") /\ limit < Size
      BY <2>2 DEF TryProbe, SendLimit
    <3> QED
      BY <3>1, HolderStep
  <2>3. CASE TryUnprobe(r)
    <3>1. Goto(r, "tryProbe", "checking")
      BY <2>3 DEF TryUnprobe
    <3> QED
      BY <3>1, HolderStep
  <2>4. CASE TryFull(r)
    <3>1. Goto(r, "trying", "idle") \/ Goto(r, "trying", "checking")
      BY <2>4 DEF TryFull
    <3> QED
      BY <3>1, HolderStep
  <2>5. CASE CheckProbe(r)
    <3>1. Goto(r, "checking", "checkProbe") /\ limit < Size
      BY <2>5 DEF CheckProbe, SendLimit
    <3> QED
      BY <3>1, HolderStep
  <2>6. CASE CheckUnprobe(r)
    <3>1. Goto(r, "checkProbe", "entering")
      BY <2>6 DEF CheckUnprobe
    <3> QED
      BY <3>1, HolderStep
  <2>7. CASE CheckFull(r)
    <3>1. Goto(r, "checking", "idle") \/ Goto(r, "checking", "entering")
      BY <2>7 DEF CheckFull
    <3> QED
      BY <3>1, HolderStep
  <2>8. CASE Enter(r)
    <3>1. Goto(r, "entering", "waiting")
      BY <2>8 DEF Enter
    <3> QED
      BY <3>1, HolderStep
  <2>9. CASE Disconnect(r)
    <3>1. Goto(r, "waiting", "leaving")
      BY <2>9 DEF Disconnect
    <3> QED
      BY <3>1, HolderStep
  <2>10. CASE Expire(r)
    <3>1. Goto(r, "waiting", "leaving")
      BY <2>10 DEF Expire
    <3> QED
      BY <3>1, HolderStep
  <2>11. CASE Acquire(r)
    <3>1. Goto(r, "waiting", "acquired") /\ limit < Size
      BY <2>11 DEF Acquire, SendLimit
    <3> QED
      BY <3>1, HolderStep
  <2>12. CASE Leave(r)
    <3>1. Goto(r, "leaving", "idle")
      BY <2>12 DEF Leave
    <3> QED
      BY <3>1, HolderStep
  <2>13. CASE SendPending(r)
    <3>1. Goto(r, "acquired", "admitted")
      BY <2>13 DEF SendPending
    <3> QED
      BY <3>1, HolderStep
  <2>14. CASE CallHandler(r)
    <3>1. Goto(r, "admitted", "creating")
      BY <2>14 DEF CallHandler
    <3> QED
      BY <3>1, HolderStep
  <2>15. CASE DropLimit(r)
    <3>1. Goto(r, "creating", "dropping")
      BY <2>15 DEF DropLimit
    <3> QED
      BY <3>1, HolderStep
  <2>16. CASE DropPending(r)
    <3>1. Goto(r, "dropping", "idle")
      BY <2>16 DEF DropPending
    <3> QED
      BY <3>1, HolderStep
  <2>17. CASE CreatePending(r)
    <3>1. Goto(r, "creating", "promoting")
      BY <2>17 DEF CreatePending
    <3> QED
      BY <3>1, HolderStep
  <2>18. CASE CreateUsed(r)
    <3>1. Goto(r, "promoting", "live")
      BY <2>18 DEF CreateUsed
    <3> QED
      BY <3>1, HolderStep
  <2>19. CASE ReleaseLimit(r)
    <3>1. Goto(r, "live", "closing")
      BY <2>19 DEF ReleaseLimit
    <3> QED
      BY <3>1, HolderStep
  <2>20. CASE ReleaseUsed(r)
    <3>1. Goto(r, "closing", "idle")
      BY <2>20 DEF ReleaseUsed
    <3> QED
      BY <3>1, HolderStep
  <2> QED
    BY <1>1, <2>1, <2>2, <2>3, <2>4, <2>5, <2>6, <2>7, <2>8, <2>9, <2>10,
       <2>11, <2>12, <2>13, <2>14, <2>15, <2>16, <2>17, <2>18, <2>19, <2>20
       DEF Blocking, Proceed
<1>2. CASE SendQueued \/ UNCHANGED vars
  <2>1. UNCHANGED pc
    BY <1>2 DEF SendQueued, vars
  <2> QED
    BY <2>1 DEF At
<1> QED
  BY <1>1, <1>2 DEF Next

\* The channel-level queue implements the slot pool, for every set of
\* requests and every limit.
THEOREM Refinement == Spec => ImplementsSlotPool
<1>1. Init => Slots!Init
  BY DEF Init, Slots!Init, At, LimitOwners, Probing, Occupying
<1>2. IInv /\ [Next]_vars => [Slots!Next]_(At(LimitOwners))
  BY NextHolders
<1> QED
  BY <1>1, <1>2, Invariance, PTL DEF Spec, ImplementsSlotPool, Slots!Spec

----------------------------------------------------------------------------
(* Nobody waits for nobody.                                                *)

\* The four channels never make the requests wait for each other in a circle,
\* though each waiter receives from queued what any sender may have sent.
THEOREM NoCircleForms == Spec => []NoCircle
<1>1. ASSUME IInv PROVE NoCircle
  <2> SUFFICES ASSUME NEW r \in Requests, Waits(r), ~(sending > 0)
               PROVE  \E q \in Requests : pc[q] \in LimitOwners /\ ~Waits(q)
    BY DEF NoCircle
  <2> USE <1>1 DEF IInv, TypeOK
  <2>1. \A q \in Requests : pc[q] \in {"leaving", "admitted"} => queued > 0
    <3> SUFFICES ASSUME NEW q \in Requests, pc[q] \in {"leaving", "admitted"}
                 PROVE  queued > 0
      OBVIOUS
    <3>1. q \in At(QueuedOwners)
      BY DEF At, QueuedOwners
    <3>2. Cardinality(At(QueuedOwners)) # 0
      BY <3>1, AtFinite, FS_EmptySet
    <3> QED
      BY <3>2, AtFinite DEF TokensConserved, GaugesConserved
  <2>2. pc[r] = "waiting" /\ limit = Size
    BY <2>1 DEF Waits
  <2>3. Cardinality(At(LimitOwners)) # 0
    BY <2>2 DEF TokensConserved, SlotConservation
  <2>4. PICK q \in At(LimitOwners) : TRUE
    BY <2>3, FS_EmptySet
  <2>5. q \in Requests /\ pc[q] \in LimitOwners
    BY DEF At
  <2>6. ~Waits(q)
    BY <2>1, <2>5 DEF Waits, LimitOwners, Probing, Occupying
  <2> QED
    BY <2>5, <2>6
<1> QED
  BY <1>1, Invariance, PTL
=============================================================================
