----------------------------- MODULE SessionHub -----------------------------
(***************************************************************************)
(* The life of a session in the hub (src/websummoner.go): the end of       *)
(* create, the session map, the idle timers, the HAR recorder's dial of    *)
(* the hub itself, and the request handlers that share a session: DELETE,  *)
(* any other WebDriver command (proxy), and the stream endpoints           *)
(* (reverseProxy, bidi).  It is the queue's caller, so the limit and used  *)
(* channels appear again; the pending gauge and the way into the queue are *)
(* AdmissionQueue's subject and left out here.                             *)
(*                                                                         *)
(* A handler looks its session up before it takes sess.Lock, and the hub   *)
(* expires a session by sending a DELETE to itself, so two handlers can    *)
(* delete one session.  Nothing stops the second, which then calls         *)
(* queue.Release again: `stolen` counts the slots given back that way.     *)
(***************************************************************************)
EXTENDS Integers, FiniteSets

CONSTANTS
    Sessions,   \* session ids the drivers will hand out, each once
    Handlers,   \* goroutines serving requests to /session/<id>...
    Size,       \* capacity of the limit channel (flag -limit)
    Recorded,   \* sessions whose create starts a HAR recorder
    Silent      \* sessions whose browser need not answer once it has started

ASSUME HubAssumption ==
    /\ IsFiniteSet(Sessions)
    /\ IsFiniteSet(Handlers)
    /\ Size \in Nat \ {0}
    /\ Recorded \subseteq Sessions
    /\ Silent \subseteq Sessions

VARIABLES
    create,     \* where the create handler of each session stands
    containers, \* sessions whose browser container runs
    known,      \* sessions whose id has been written to the client
    sessions,   \* the session map
    armed,      \* sessions with a timer goroutine waiting on TimeoutCh
    pc,         \* where each request handler stands
    job,        \* the request each handler serves: [kind, sid]
    owner,      \* handlers that took the session they delete off the map
    limit,      \* tokens in the limit channel
    used,       \* tokens in the used channel
    freed,      \* auxiliary: sessions whose own slot has been given back
    stolen,     \* auxiliary: slots given back by a DELETE that came second
    lapsed      \* auxiliary: sessions whose timer fired before they were put

createVars == <<create, containers, known>>
handlerVars == <<pc, job, owner>>
auxVars == <<freed, stolen, lapsed>>
vars == <<create, containers, known, sessions, armed, pc, job, owner,
          limit, used, freed, stolen, lapsed>>

----------------------------------------------------------------------------
Kinds == {"delete", "expire", "touch"}
Jobs == [kind : Kinds, sid : Sessions]
NoJob == [kind |-> "none"]

\* Create has put the session and has not told the queue of it.
PuttingStates == {"recording", "dialing", "handshaking", "counting"}

\* The create handler holds a limit token of its own in these states.
StartingStates ==
    {"starting", "attempting", "arming", "putting"} \cup PuttingStates
CreateStates == {"absent", "created", "dropping", "failed"} \cup StartingStates

HandlerStates == {"idle", "lookup", "locking", "releaseLimit", "releaseUsed",
                  "forwarding"}

\* sess.Lock is held by the handler that is between Lock and Unlock: only
\* queue.Release can keep it there.
Locked(s) ==
    \E h \in Handlers :
        pc[h] \in {"releaseLimit", "releaseUsed"} /\ job[h].sid = s

\* Sessions being created or running: each has a slot it has not given back.
SlotHolders ==
    {s \in Sessions : create[s] \in StartingStates \cup {"created"}} \ freed

Ready == Size > Cardinality(sessions)   \* what /status answers

----------------------------------------------------------------------------
Init ==
    /\ create = [s \in Sessions |-> "absent"]
    /\ containers = {}
    /\ known = {}
    /\ sessions = {}
    /\ armed = {}
    /\ pc = [h \in Handlers |-> "idle"]
    /\ job = [h \in Handlers |-> NoJob]
    /\ owner = {}
    /\ limit = 0
    /\ used = 0
    /\ freed = {}
    /\ stolen = 0
    /\ lapsed = {}

----------------------------------------------------------------------------
Becomes(s, from, to) ==
    /\ create[s] = from
    /\ create' = [create EXCEPT ![s] = to]

Step(h, from, to) ==
    /\ pc[h] = from
    /\ pc' = [pc EXCEPT ![h] = to]
    /\ job' = IF to = "idle" THEN [job EXCEPT ![h] = NoJob] ELSE job

(* Plausible faults of this code, each to be put in place of an action.    *)

\* The dial's handler stays in resetTimeout until the session is counted.
DialedWaits(s) ==
    /\ Becomes(s, "dialing", "handshaking")
    /\ used > 0
    /\ armed' = armed \cup {s}
    /\ UNCHANGED <<containers, known, sessions, limit, used>>
    /\ UNCHANGED handlerVars /\ UNCHANGED auxVars

\* A failure path of create returns without queue.Drop.
StartFailsKeeps(s) ==
    /\ Becomes(s, "starting", "failed")
    /\ UNCHANGED <<containers, known, sessions, armed, limit, used>>
    /\ UNCHANGED handlerVars /\ UNCHANGED auxVars

\* The failed attempt returns without cancelAndCleanup.
AttemptFailsForgets(s) ==
    /\ Becomes(s, "attempting", "failed")
    /\ limit > 0
    /\ limit' = limit - 1
    /\ UNCHANGED <<containers, known, sessions, armed, used>>
    /\ UNCHANGED handlerVars /\ UNCHANGED auxVars

\* A command closes the idle timer and starts no other.
TouchDisarms(h) ==
    LET s == job[h].sid IN
    /\ Step(h, "locking", "idle")
    /\ job[h].kind = "touch"
    /\ armed' = armed \ {s}
    /\ UNCHANGED <<owner, sessions, limit, used>>
    /\ UNCHANGED createVars /\ UNCHANGED auxVars

\* queue.Release is called for every request, not only for DELETE.
TouchReleases(h) ==
    LET s == job[h].sid IN
    /\ Step(h, "locking", "idle")
    /\ job[h].kind = "touch"
    /\ armed' = armed \cup {s}
    /\ limit' = IF limit > 0 THEN limit - 1 ELSE limit
    /\ UNCHANGED <<owner, sessions, used>>
    /\ UNCHANGED createVars /\ UNCHANGED auxVars

\* A DELETE leaves the session on the map.
RemoveKeeps(h) ==
    LET s == job[h].sid IN
    /\ Step(h, "locking", "releaseLimit")
    /\ job[h].kind # "touch"
    /\ armed' = armed \ {s}
    /\ owner' = owner \cup {h}
    /\ UNCHANGED <<sessions, limit, used>>
    /\ UNCHANGED createVars /\ UNCHANGED auxVars

\* The deferred cancel is lost, as if `cancel` kept its first value.
CancelForgets(h) ==
    /\ Step(h, "forwarding", "idle")
    /\ owner' = owner \ {h}
    /\ UNCHANGED <<create, containers, known, sessions, armed, limit, used>>
    /\ UNCHANGED auxVars

----------------------------------------------------------------------------
(* The create handler, from the slot to the running session.               *)

\* queue.Protect admits the request.
Admit(s) ==
    /\ Becomes(s, "absent", "starting")
    /\ limit < Size
    /\ limit' = limit + 1
    /\ UNCHANGED <<containers, known, sessions, armed, used>>
    /\ UNCHANGED handlerVars /\ UNCHANGED auxVars

\* starter.StartWithCancel: the browser runs...
Start(s) ==
    /\ Becomes(s, "starting", "attempting")
    /\ containers' = containers \cup {s}
    /\ UNCHANGED <<known, sessions, armed, limit, used>>
    /\ UNCHANGED handlerVars /\ UNCHANGED auxVars

\* ...or does not, or a capability was refused before: queue.Drop.
StartFails(s) ==
    /\ Becomes(s, "starting", "failed")
    /\ limit > 0
    /\ limit' = limit - 1
    /\ UNCHANGED <<containers, known, sessions, armed, used>>
    /\ UNCHANGED handlerVars /\ UNCHANGED auxVars

\* The driver gives no session: queue.Drop first, the container after.
AttemptFails(s) ==
    /\ Becomes(s, "attempting", "dropping")
    /\ limit > 0
    /\ limit' = limit - 1
    /\ UNCHANGED <<containers, known, sessions, armed, used>>
    /\ UNCHANGED handlerVars /\ UNCHANGED auxVars

CancelAndCleanup(s) ==
    /\ Becomes(s, "dropping", "failed")
    /\ containers' = containers \ {s}
    /\ UNCHANGED <<known, sessions, armed, limit, used>>
    /\ UNCHANGED handlerVars /\ UNCHANGED auxVars

\* The driver answers: its response goes to the client, id included (a large
\* one is on the wire before create returns).
Respond(s) ==
    /\ Becomes(s, "attempting", "arming")
    /\ known' = known \cup {s}
    /\ UNCHANGED <<containers, sessions, armed, limit, used>>
    /\ UNCHANGED handlerVars /\ UNCHANGED auxVars

\* onTimeout starts the idle timer while the Session value is built.
ArmTimer(s) ==
    /\ Becomes(s, "arming", "putting")
    /\ armed' = armed \cup {s}
    /\ UNCHANGED <<containers, known, sessions, limit, used>>
    /\ UNCHANGED handlerVars /\ UNCHANGED auxVars

Put(s) ==
    /\ Becomes(s, "putting", IF s \in Recorded THEN "recording" ELSE "counting")
    /\ sessions' = sessions \cup {s}
    /\ UNCHANGED <<containers, known, armed, limit, used>>
    /\ UNCHANGED handlerVars /\ UNCHANGED auxVars

\* har.Start dials /devtools/<id>/ of the hub itself and waits, for as long as
\* it takes: the handler there does not find the session...
DialRefused(s) ==
    /\ Becomes(s, "recording", "counting")
    /\ s \notin sessions
    /\ UNCHANGED <<containers, known, sessions, armed, limit, used>>
    /\ UNCHANGED handlerVars /\ UNCHANGED auxVars

\* ...or finds it, ...
DialFound(s) ==
    /\ Becomes(s, "recording", "dialing")
    /\ s \in sessions
    /\ UNCHANGED <<containers, known, sessions, armed, limit, used>>
    /\ UNCHANGED handlerVars /\ UNCHANGED auxVars

\* ...resets its timer under sess.Lock, unlocks, and passes the handshake on
\* to the browser, ...
Dialed(s) ==
    /\ Becomes(s, "dialing", "handshaking")
    /\ ~Locked(s)
    /\ armed' = armed \cup {s}
    /\ UNCHANGED <<containers, known, sessions, limit, used>>
    /\ UNCHANGED handlerVars /\ UNCHANGED auxVars

\* ...which accepts it, refuses it, or is gone; neither the dial nor the proxy
\* has a timeout for a browser that does nothing of the kind.
Handshaken(s) ==
    /\ Becomes(s, "handshaking", "counting")
    /\ UNCHANGED <<containers, known, sessions, armed, limit, used>>
    /\ UNCHANGED handlerVars /\ UNCHANGED auxVars

\* queue.Create, after the HAR recorder has started or failed to.
Created(s) ==
    /\ Becomes(s, "counting", "created")
    /\ used' = used + 1
    /\ UNCHANGED <<containers, known, sessions, armed, limit>>
    /\ UNCHANGED handlerVars /\ UNCHANGED auxVars

----------------------------------------------------------------------------
(* Request handlers.                                                       *)

Serve(h, kind, s) ==
    /\ pc[h] = "idle"
    /\ pc' = [pc EXCEPT ![h] = "lookup"]
    /\ job' = [job EXCEPT ![h] = [kind |-> kind, sid |-> s]]
    /\ UNCHANGED <<owner, sessions, limit, used>>
    /\ UNCHANGED createVars /\ UNCHANGED auxVars

\* A client that knows the id deletes the session or uses it.
Request(h, kind, s) ==
    /\ s \in known
    /\ Serve(h, kind, s)
    /\ UNCHANGED armed

\* The idle timer fires: sess.Delete sends a DELETE to the hub itself.
Fire(h, s) ==
    /\ s \in armed
    /\ armed' = armed \ {s}
    /\ Serve(h, "expire", s)

\* sessions.Get fails: "session timed out or not found".  sess.Delete logs
\* the answer and does not try again.
NotFound(h) ==
    LET s == job[h].sid IN
    /\ Step(h, "lookup", "idle")
    /\ s \notin sessions
    /\ lapsed' = IF job[h].kind = "expire" /\ create[s] = "putting"
                 THEN lapsed \cup {s} ELSE lapsed
    /\ UNCHANGED <<owner, sessions, armed, limit, used, freed, stolen>>
    /\ UNCHANGED createVars

\* sessions.Get succeeds; what follows uses the pointer it returned.
Found(h) ==
    /\ Step(h, "lookup", "locking")
    /\ job[h].sid \in sessions
    /\ UNCHANGED <<owner, sessions, armed, limit, used>>
    /\ UNCHANGED createVars /\ UNCHANGED auxVars

\* A command or a stream, under sess.Lock: close TimeoutCh, start a timer.
Touch(h) ==
    LET s == job[h].sid IN
    /\ Step(h, "locking", "idle")
    /\ job[h].kind = "touch"
    /\ ~Locked(s)
    /\ armed' = armed \cup {s}
    /\ UNCHANGED <<owner, sessions, limit, used>>
    /\ UNCHANGED createVars /\ UNCHANGED auxVars

\* A DELETE, under sess.Lock: close TimeoutCh, take the session off the map...
Remove(h) ==
    LET s == job[h].sid IN
    /\ Step(h, "locking", "releaseLimit")
    /\ job[h].kind # "touch"
    /\ ~Locked(s)
    /\ armed' = armed \ {s}
    /\ owner' = IF s \in sessions THEN owner \cup {h} ELSE owner
    /\ sessions' = sessions \ {s}
    /\ UNCHANGED <<limit, used>>
    /\ UNCHANGED createVars /\ UNCHANGED auxVars

\* ...and queue.Release, whoever removed it.
ReleaseLimit(h) ==
    /\ Step(h, "releaseLimit", "releaseUsed")
    /\ limit > 0
    /\ limit' = limit - 1
    /\ freed' = IF h \in owner THEN freed \cup {job[h].sid} ELSE freed
    /\ stolen' = IF h \in owner THEN stolen ELSE stolen + 1
    /\ UNCHANGED <<owner, sessions, armed, used, lapsed>>
    /\ UNCHANGED createVars

ReleaseUsed(h) ==
    /\ Step(h, "releaseUsed", "forwarding")
    /\ used > 0
    /\ used' = used - 1
    /\ UNCHANGED <<owner, sessions, armed, limit>>
    /\ UNCHANGED createVars /\ UNCHANGED auxVars

\* The DELETE passed on is over, answered or not: sess.Cancel stops the
\* container.
Cancel(h) ==
    /\ Step(h, "forwarding", "idle")
    /\ containers' = containers \ {job[h].sid}
    /\ owner' = owner \ {h}
    /\ UNCHANGED <<create, known, sessions, armed, limit, used>>
    /\ UNCHANGED auxVars

----------------------------------------------------------------------------
\* What create does by itself once the driver's answer is passed on.
FinishCreate(s) ==
    \/ ArmTimer(s) \/ Put(s)
    \/ DialRefused(s) \/ DialFound(s) \/ Dialed(s) \/ Created(s)

CreateStep(s) ==
    \/ Start(s) \/ StartFails(s) \/ AttemptFails(s) \/ CancelAndCleanup(s)
    \/ Respond(s) \/ FinishCreate(s) \/ Handshaken(s)

\* What a request handler does by itself.
Serving(h) ==
    \/ NotFound(h) \/ Found(h) \/ Touch(h) \/ Remove(h)
    \/ ReleaseLimit(h) \/ ReleaseUsed(h)

HandlerStep(h) == Serving(h) \/ Cancel(h)

Next ==
    \/ \E s \in Sessions : Admit(s) \/ CreateStep(s)
    \/ \E h \in Handlers, s \in Sessions :
         \/ \E kind \in {"delete", "touch"} : Request(h, kind, s)
         \/ Fire(h, s)
    \/ \E h \in Handlers : HandlerStep(h)

Spec == Init /\ [][Next]_vars

(***************************************************************************)
(* The hub's goroutines run, and a mutex or a channel that others keep     *)
(* taking comes to each of them in the end; a timer that is not closed     *)
(* fires, and its request is served even when clients keep sending theirs. *)
(* What goes to a browser comes back when the browser answers, when it is  *)
(* gone, or at a timeout.  The hub's own DELETE has one (sess.Delete); a   *)
(* client's, which the reverse proxy passes on, has none, and neither has  *)
(* the handshake of har.Start, so a silent browser may keep both for ever. *)
(* A browser in Silent may answer as long as it likes and then stop.       *)
(* Cancel itself, like every Cancel of the hub, takes for granted that     *)
(* Docker answers and that a driver process ends on SIGINT.                *)
(* Nothing is promised of create before the driver's answer (Docker, the   *)
(* client's connection), nor of clients.                                   *)
(***************************************************************************)
Fairness ==
    /\ \A s \in Sessions :
        /\ WF_vars(FinishCreate(s))
        /\ WF_vars(Handshaken(s) /\ (s \notin Silent \/ s \notin containers))
        /\ SF_vars(\E h \in Handlers : Fire(h, s))
    /\ \A h \in Handlers :
        /\ SF_vars(Serving(h))
        /\ WF_vars(Cancel(h)
                     /\ (job[h].kind = "expire" \/ job[h].sid \notin Silent))

FairSpec == Spec /\ Fairness

----------------------------------------------------------------------------
\* Every variable of the hub holds a value of its type; neither channel goes
\* below zero or over its capacity: a part of the inductive invariant, too
\* plain for a run of its own.
TypeOK ==
    /\ create \in [Sessions -> CreateStates]
    /\ containers \subseteq Sessions
    /\ known \subseteq Sessions
    /\ sessions \subseteq Sessions
    /\ armed \subseteq Sessions
    /\ pc \in [Handlers -> HandlerStates]
    /\ job \in [Handlers -> Jobs \cup {NoJob}]
    /\ owner \subseteq Handlers
    /\ limit \in 0..Size
    /\ used \in Nat
    /\ freed \subseteq Sessions
    /\ stolen \in Nat
    /\ lapsed \subseteq Sessions

\* A limit token for each holder of a slot, but for those that a DELETE that
\* lost the race took.
LimitAccounted == limit + stolen = Cardinality(SlotHolders)

\* A used token for each session that was counted, less one for each slot given
\* back, but for the DELETEs that have still to take theirs.
UsedAccounted ==
    used + Cardinality(freed) + stolen =
        Cardinality({s \in Sessions : create[s] = "created"})
        + Cardinality({h \in Handlers : pc[h] = "releaseUsed"})

\* Every slot is given back once per session and otherwise only by a DELETE
\* that lost the race: no failure path of create and no order of timer and
\* client leaks or doubles a token of either channel.
SlotsAccounted == LimitAccounted /\ UsedAccounted

\* The hub runs more sessions than -limit only by as many as were released a
\* second time.
OverCommitBounded == Cardinality(SlotHolders) <= Size + stolen

\* A session off the map has been deleted by one handler, which still has its
\* container to stop: no running container is forgotten, on any path.
Stopping(s) ==
    \E h \in owner :
        pc[h] \in {"releaseLimit", "releaseUsed", "forwarding"}
        /\ job[h].sid = s

ContainersOwned ==
    \A s \in containers :
        \/ s \in sessions
        \/ create[s] \in {"attempting", "dropping", "arming", "putting"}
        \/ Stopping(s)

\* A session on the map can always still expire: its timer runs, or a DELETE
\* of it is on the way, unless the timer fired before the session was put.
LiveSessionExpires ==
    \A s \in sessions :
        \/ s \in armed
        \/ s \in lapsed
        \/ \E h \in Handlers :
             pc[h] \in {"lookup", "locking"} /\ job[h].sid = s
             /\ job[h].kind # "touch"

\* /status says "not ready" only when no slot is free, as long as no slot has
\* been released twice.
NotReadyMeansFull == ~Ready /\ stolen = 0 => limit = Size

\* A handler that waits in queue.Release for a token.
Blocked(h) ==
    \/ pc[h] = "releaseLimit" /\ limit = 0
    \/ pc[h] = "releaseUsed" /\ used = 0

\* A DELETE that took its session off the map waits in queue.Release only when
\* a slot has been released twice, or for a create that has still to count a
\* session whose slot is already given back: no order of creates, timers and
\* single DELETEs lets one of them hang with sess.Lock held for any other
\* reason.
WaitsForCreate ==
    \A h \in owner : Blocked(h) /\ stolen = 0 =>
        \E s \in freed : create[s] \in PuttingStates

\* The circles that har.Start can close.  The DELETE of the session holds
\* sess.Lock and waits for a token that this create has yet to send, while
\* create waits for its dial and the dial's handler for sess.Lock, or for the
\* handshake of a silent browser that only this DELETE would stop.
Deadlocked(s) ==
    /\ \/ create[s] = "dialing"
       \/ create[s] = "handshaking" /\ s \in Silent
    /\ \E h \in Handlers : Blocked(h) /\ job[h].sid = s

\* The handshake is out to a silent browser that nobody has stopped.
Unanswered(s) ==
    create[s] = "handshaking" /\ s \in Silent \cap containers

\* From the driver's answer on the create handler of a session ends, whatever
\* happens to the session while it is being put, recorded and counted, but for
\* the circles just described and a browser that leaves the handshake open.
CreateEnds ==
    \A s \in Sessions :
        create[s] \in {"arming", "putting"} \cup PuttingStates
            ~> create[s] = "created" \/ Deadlocked(s) \/ Unanswered(s)

\* A handler whose client's DELETE a silent browser keeps in the reverse proxy.
Unproxied(h) ==
    pc[h] = "forwarding" /\ job[h].kind = "delete" /\ job[h].sid \in Silent

\* A deleted session's container is stopped in the end, unless its browser is
\* silent and a client's DELETE waits for it, a slot has been released twice
\* (then a DELETE can hang in queue.Release), some session is in one of the
\* circles (its DELETE may have taken the token of another one), or this DELETE
\* waits for the create of a session whose browser leaves the handshake open.
DeletedSessionStops ==
    \A s \in Sessions :
        s \in containers \ sessions /\ create[s] \in PuttingStates \cup {"created"}
            ~> \/ s \notin containers
               \/ \E h \in Handlers : Unproxied(h) /\ job[h].sid = s
               \/ stolen > 0
               \/ \E t \in Sessions : Deadlocked(t)
               \/ /\ \E t \in Sessions : Unanswered(t)
                  /\ \E h \in Handlers : Blocked(h) /\ job[h].sid = s

\* No handler is left to serve the timer's request: each hangs in queue.Release
\* or with a client's DELETE at a silent browser.  The hub starts a goroutine
\* for every request and cannot run out of them, this model can.
OutOfHandlers == \A h \in Handlers : Blocked(h) \/ Unproxied(h)

\* A session nobody uses is removed in the end.
IdleSessionExpires ==
    \A s \in Sessions :
        s \in sessions ~>
            \/ s \notin sessions
            \/ s \in lapsed
            \/ OutOfHandlers
            \/ \E h \in Handlers : job[h] = [kind |-> "touch", sid |-> s]

\* What the docs say of -limit: so many sessions at a time.
LiveWithinLimit == Cardinality(sessions) <= Size
=============================================================================
