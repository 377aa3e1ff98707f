--------------------------- MODULE AdmissionQueue ---------------------------
(***************************************************************************)
(* Admission control of new sessions (src/protect/queue.go), one action    *)
(* per channel operation.  A request for a new session runs through        *)
(* Try(Check(Protect(create))) (src/main.go, selenium); every channel of   *)
(* Queue carries empty structs, so a channel is the number of tokens in    *)
(* it.  `limit` is the only one whose capacity matters: queued, pending    *)
(* and used hold up to 2^31 - 1 tokens and are never full.                 *)
(*                                                                         *)
(* The handler behind Protect is its contract: it ends in Drop, or in      *)
(* Create and later one Release (SessionHub models what the hub's handlers *)
(* make of that contract).                                                 *)
(***************************************************************************)
EXTENDS Integers, FiniteSets

CONSTANTS
    Requests,   \* clients asking for a session; each may ask again later
    Size,       \* capacity of the limit channel (flag -limit)
    NoWait,     \* the requests that carry the no-wait header
    Budgeted    \* tolerate > 0: a queued request has a wait budget

ASSUME RequestsAssumption ==
    /\ IsFiniteSet(Requests)
    /\ NoWait \subseteq Requests
    /\ Size \in Nat \ {0}
    /\ Budgeted \in BOOLEAN

VARIABLES
    disabled,   \* Queue.disabled: requests never queue (flag -disable-queue)
    pc,         \* where the goroutine serving each request stands
    limit,      \* tokens in the limit channel
    queued,     \* tokens in the queued channel
    pending,    \* tokens in the pending channel
    used,       \* tokens in the used channel
    sending     \* goroutines started by Protect that still have to send on queued

vars == <<disabled, pc, limit, queued, pending, used, sending>>

----------------------------------------------------------------------------
(* Where a request can stand, grouped by the token it owns.                *)

TryStates == {"trying", "tryProbe"}
CheckStates == {"checking", "checkProbe"}

\* A Try or Check probe that sits in the limit channel for a moment.
Probing == {"tryProbe", "checkProbe"}

\* The request owns a slot: its session is being started or is running.
Occupying == {"acquired", "admitted", "creating", "promoting", "live"}

\* One token of limit, pending or used is in the channel on its behalf.
LimitOwners == Probing \cup Occupying
PendingOwners == {"admitted", "creating", "dropping"}
UsedOwners == {"live", "closing"}

\* Protect has started its sender and has still to receive from queued.
QueuedOwners == {"waiting", "leaving", "acquired", "admitted"}

States == {"idle", "entering"} \cup TryStates \cup CheckStates
          \cup QueuedOwners \cup LimitOwners \cup PendingOwners \cup UsedOwners

At(S) == {r \in Requests : pc[r] \in S}

Goto(r, from, to) ==
    /\ pc[r] = from
    /\ pc' = [pc EXCEPT ![r] = to]

----------------------------------------------------------------------------
(* Channel operations: a send on a full channel and a receive from an      *)
(* empty one block, that is, are not enabled.                              *)

SendLimit == limit < Size /\ limit' = limit + 1
RecvLimit == limit > 0 /\ limit' = limit - 1
RecvQueued == queued > 0 /\ queued' = queued - 1
RecvPending == pending > 0 /\ pending' = pending - 1
RecvUsed == used > 0 /\ used' = used - 1

LimitFull == limit = Size

----------------------------------------------------------------------------
Init ==
    /\ disabled \in BOOLEAN
    /\ pc = [r \in Requests |-> "idle"]
    /\ limit = 0
    /\ queued = 0
    /\ pending = 0
    /\ used = 0
    /\ sending = 0

(* Plausible faults of this code, each to be put in place of an action. *)

\* Try keeps the token of its probe.
TryUnprobeLeaks(r) ==
    /\ Goto(r, "tryProbe", "checking")
    /\ UNCHANGED <<disabled, limit, queued, pending, used, sending>>

\* Only a request that may wait is counted as queued.
EnterUncounted(r) ==
    /\ Goto(r, "entering", "waiting")
    /\ sending' = IF r \in NoWait THEN sending ELSE sending + 1
    /\ UNCHANGED <<disabled, limit, queued, pending, used>>

\* Giving up in the queue gives a slot back.
LeaveDrops(r) ==
    /\ Goto(r, "leaving", "idle")
    /\ RecvQueued
    /\ limit' = IF limit > 0 THEN limit - 1 ELSE limit
    /\ UNCHANGED <<disabled, pending, used, sending>>

\* Drop forgets the pending token.
DropPendingForgets(r) ==
    /\ Goto(r, "dropping", "idle")
    /\ UNCHANGED <<disabled, limit, queued, pending, used, sending>>

\* Create forgets to count the session as used.
CreateUsedForgets(r) ==
    /\ Goto(r, "promoting", "live")
    /\ UNCHANGED <<disabled, limit, queued, pending, used, sending>>

\* Create gives the slot back, as if only starting a session needed one.
CreateUsedReleases(r) ==
    /\ Goto(r, "promoting", "live")
    /\ RecvLimit
    /\ used' = used + 1
    /\ UNCHANGED <<disabled, queued, pending, sending>>

----------------------------------------------------------------------------
\* POST /session reaches the hub.
Arrive(r) ==
    /\ Goto(r, "idle", "trying")
    /\ UNCHANGED <<disabled, limit, queued, pending, used, sending>>

\* Try: the select succeeds in sending and takes the token back...
TryProbe(r) ==
    /\ Goto(r, "trying", "tryProbe")
    /\ SendLimit
    /\ UNCHANGED <<disabled, queued, pending, used, sending>>

TryUnprobe(r) ==
    /\ Goto(r, "tryProbe", "checking")
    /\ RecvLimit
    /\ UNCHANGED <<disabled, queued, pending, used, sending>>

\* ...or finds the channel full: 429 for a request that must not wait.
TryFull(r) ==
    /\ LimitFull
    /\ Goto(r, "trying", IF r \in NoWait THEN "idle" ELSE "checking")
    /\ UNCHANGED <<disabled, limit, queued, pending, used, sending>>

\* Check: the same probe, where a disabled queue refuses.
CheckProbe(r) ==
    /\ Goto(r, "checking", "checkProbe")
    /\ SendLimit
    /\ UNCHANGED <<disabled, queued, pending, used, sending>>

CheckUnprobe(r) ==
    /\ Goto(r, "checkProbe", "entering")
    /\ RecvLimit
    /\ UNCHANGED <<disabled, queued, pending, used, sending>>

CheckFull(r) ==
    /\ LimitFull
    /\ Goto(r, "checking", IF disabled THEN "idle" ELSE "entering")
    /\ UNCHANGED <<disabled, limit, queued, pending, used, sending>>

\* Protect: start the goroutine that counts this request as queued.
Enter(r) ==
    /\ Goto(r, "entering", "waiting")
    /\ sending' = sending + 1
    /\ UNCHANGED <<disabled, limit, queued, pending, used>>

\* One of those goroutines gets to run; nothing orders it with its request.
SendQueued ==
    /\ sending > 0
    /\ sending' = sending - 1
    /\ queued' = queued + 1
    /\ UNCHANGED <<disabled, pc, limit, pending, used>>

\* Protect's select: the client went away, ...
Disconnect(r) ==
    /\ Goto(r, "waiting", "leaving")
    /\ UNCHANGED <<disabled, limit, queued, pending, used, sending>>

\* ...the wait budget ran out, ...
Expire(r) ==
    /\ Budgeted
    /\ Goto(r, "waiting", "leaving")
    /\ UNCHANGED <<disabled, limit, queued, pending, used, sending>>

\* ...or a slot was free.
Acquire(r) ==
    /\ Goto(r, "waiting", "acquired")
    /\ SendLimit
    /\ UNCHANGED <<disabled, queued, pending, used, sending>>

\* The first two cases receive from queued and return.
Leave(r) ==
    /\ Goto(r, "leaving", "idle")
    /\ RecvQueued
    /\ UNCHANGED <<disabled, limit, pending, used, sending>>

\* The third sends on pending, receives from queued and calls the handler.
SendPending(r) ==
    /\ Goto(r, "acquired", "admitted")
    /\ pending' = pending + 1
    /\ UNCHANGED <<disabled, limit, queued, used, sending>>

CallHandler(r) ==
    /\ Goto(r, "admitted", "creating")
    /\ RecvQueued
    /\ UNCHANGED <<disabled, limit, pending, used, sending>>

----------------------------------------------------------------------------
(* Drop, Create and Release, as the handler calls them: two channel        *)
(* operations each, with other goroutines in between.                      *)

DropLimit(r) ==
    /\ Goto(r, "creating", "dropping")
    /\ RecvLimit
    /\ UNCHANGED <<disabled, queued, pending, used, sending>>

DropPending(r) ==
    /\ Goto(r, "dropping", "idle")
    /\ RecvPending
    /\ UNCHANGED <<disabled, limit, queued, used, sending>>

CreatePending(r) ==
    /\ Goto(r, "creating", "promoting")
    /\ RecvPending
    /\ UNCHANGED <<disabled, limit, queued, used, sending>>

CreateUsed(r) ==
    /\ Goto(r, "promoting", "live")
    /\ used' = used + 1
    /\ UNCHANGED <<disabled, limit, queued, pending, sending>>

ReleaseLimit(r) ==
    /\ Goto(r, "live", "closing")
    /\ RecvLimit
    /\ UNCHANGED <<disabled, queued, pending, used, sending>>

ReleaseUsed(r) ==
    /\ Goto(r, "closing", "idle")
    /\ RecvUsed
    /\ UNCHANGED <<disabled, limit, queued, pending, sending>>

----------------------------------------------------------------------------
\* The steps that wait for what another goroutine sends or receives.
Blocking(r) == Acquire(r) \/ Leave(r) \/ CallHandler(r)

\* The steps a running goroutine takes by itself.
Proceed(r) ==
    \/ TryProbe(r) \/ TryUnprobe(r) \/ TryFull(r)
    \/ CheckProbe(r) \/ CheckUnprobe(r) \/ CheckFull(r)
    \/ Enter(r) \/ SendPending(r)
    \/ DropLimit(r) \/ DropPending(r)
    \/ CreatePending(r) \/ CreateUsed(r)
    \/ ReleaseLimit(r) \/ ReleaseUsed(r)

Next ==
    \/ SendQueued
    \/ \E r \in Requests :
         \/ Arrive(r) \/ Disconnect(r) \/ Expire(r)
         \/ Blocking(r) \/ Proceed(r)

Spec == Init /\ [][Next]_vars

(***************************************************************************)
(* Goroutines that can run do run.  Go serves the goroutines blocked on a  *)
(* channel in the order they came, so one that waits to send on limit or   *)
(* to receive from queued is not overtaken for ever: strong fairness of    *)
(* the blocking operations.  That every handler ends, which the weak       *)
(* fairness of Proceed says of DropLimit, CreatePending and ReleaseLimit,  *)
(* is an assumption on what runs behind the queue and not something the    *)
(* code enforces: a session that is kept busy lives on, and create has     *)
(* waits without a timeout (NewSession and SessionHub name them).          *)
(* CoDelQueue has a liveness property that does without it.                *)
(***************************************************************************)
Fairness ==
    /\ WF_vars(SendQueued)
    /\ \A r \in Requests :
        /\ WF_vars(Proceed(r))
        /\ SF_vars(Acquire(r))
        /\ SF_vars(Leave(r))
        /\ SF_vars(CallHandler(r))

FairSpec == Spec /\ Fairness

----------------------------------------------------------------------------
\* Every channel holds a number of tokens within its capacity and every
\* request stands somewhere in the handler chain of queue.go: a part of the
\* inductive invariant, too plain for a run of its own.
TypeOK ==
    /\ disabled \in BOOLEAN
    /\ pc \in [Requests -> States]
    /\ limit \in 0..Size
    /\ queued \in Nat
    /\ pending \in Nat
    /\ used \in Nat
    /\ sending \in Nat

\* The limit channel holds one token for each request that occupies a slot or
\* is probing for one.
SlotConservation == limit = Cardinality(At(LimitOwners))

\* The gauges of Queue.Pending, Queue.Used and Queue.Queued count the requests
\* in the matching part of the handler chain, the queued gauge up to the sends
\* still in flight.
GaugesConserved ==
    /\ pending = Cardinality(At(PendingOwners))
    /\ used = Cardinality(At(UsedOwners))
    /\ queued + sending = Cardinality(At(QueuedOwners))

\* No path through Try, Check, Protect, Drop, Create or Release (queue.go), in
\* any interleaving, loses a token of a channel or gives one back twice.
TokensConserved == SlotConservation /\ GaugesConserved

\* The -limit flag at work: never more than Size requests have a session that
\* is being started or is running.
LimitRespected == Cardinality(At(Occupying)) <= Size

\* The plain receives of Try, Check, Drop, Create and Release always find a
\* token: no handler of the queue can hang giving back what it holds.
ReceivesNeverBlock ==
    \A r \in Requests :
        /\ pc[r] \in LimitOwners => limit > 0
        /\ pc[r] \in PendingOwners => pending > 0
        /\ pc[r] \in UsedOwners => used > 0

\* The detailed queue implements the slot pool: every channel operation is a
\* Take, a GiveBack or no step at all of the requests in LimitOwners.
Slots == INSTANCE SlotPool WITH Parties <- Requests, holders <- At(LimitOwners)
ImplementsSlotPool == Slots!Spec

\* A goroutine that waits: in Protect's select for a slot, or after it for a
\* sender, its own or another's, to count it as queued.
Waits(r) ==
    \/ pc[r] = "waiting" /\ limit = Size
    \/ pc[r] \in {"leaving", "admitted"} /\ queued = 0

\* Requests never wait for each other in a circle: whoever waits in queue.go
\* has somebody to wait for, a request at work in a probe or in its handler,
\* which blocks at nothing here, or a goroutine that has still to send, though
\* every waiter receives from queued what any of the senders sent.
NoCircle ==
    (\E r \in Requests : Waits(r)) =>
        \/ sending > 0
        \/ \E r \in Requests : pc[r] \in LimitOwners /\ ~Waits(r)

\* A request that waits for a slot does not wait for ever when handlers end:
\* no slot and no wake-up is lost, whatever the order of the goroutines.
WaitingEnds ==
    \A r \in Requests : pc[r] = "waiting" ~> pc[r] # "waiting"

\* A request that left the queue, admitted or not, gets past its receive from
\* queued although the matching send runs in another goroutine.
QueueReceiptEnds ==
    \A r \in Requests :
        pc[r] \in {"leaving", "admitted"} ~> pc[r] \in {"idle", "creating"}

\* What the session-queue guide says of the no-wait header and of
\* -disable-queue: such a request is never kept waiting while every slot is
\* taken by another request.
NoWaitNeverWaits ==
    \A r \in Requests :
        (r \in NoWait \/ disabled) =>
            ~(pc[r] = "waiting" /\ Cardinality(At(Occupying)) = Size)
=============================================================================
