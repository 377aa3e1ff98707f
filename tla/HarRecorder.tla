----------------------------- MODULE HarRecorder -----------------------------
(***************************************************************************)
(* The HAR recorder of one session (src/har/har.go) between the three that *)
(* share it: the create handler, which starts it after the session is on   *)
(* the map (src/websummoner.go, 425-440), the reader goroutine, and the    *)
(* DELETE handlers, whose sess.Cancel closes it before it stops the        *)
(* container.  The browser is external: it attaches the recorder to its    *)
(* page and sends a frame for every step of a request of that page.        *)
(*                                                                         *)
(* harRecorder is a plain variable of the create handler that Cancel reads *)
(* as it finds it.  What orders the two, if anything does, is the used     *)
(* channel: a DELETE takes a token there before it cancels, and create     *)
(* sends one when it is through.  A token of another session does as well. *)
(***************************************************************************)
EXTENDS Integers, Sequences, FiniteSetsExt, SequencesExt

CONSTANTS
    Deleters,   \* handlers of a DELETE of the session
    Ids,        \* CDP request ids
    MaxFrames   \* bound: frames the browser sends

ASSUME RecorderAssumption ==
    /\ IsFiniteSet(Deleters)
    /\ IsFiniteSet(Ids)
    /\ MaxFrames \in Nat

VARIABLES
    create,     \* where the create handler stands
    recorder,   \* harRecorder is not nil
    sole,       \* no other session is counted as used
    onMap,      \* the session is on the session map
    used,       \* tokens in the queue's used channel
    pc,         \* where each DELETE handler stands
    late,       \* auxiliary: DELETEs that came after queue.Create
    conn,       \* Recorder.conn, as the recorder sees it
    reader,     \* the read goroutine
    closed,     \* Recorder.closed, the sync.Once of Close
    entries,    \* Recorder.entries
    seq,        \* Recorder.seq
    files,      \* the log on disk, if any
    read,       \* how many frames have been received
    browser,    \* the container runs and the browser in it
    enabled,    \* the page reports its requests
    phase,      \* how far each request of the page is
    frames      \* every frame sent to the recorder, in order

sessionVars == <<sole, onMap, used, pc, late>>
logVars == <<reader, entries, seq, read>>
browserVars == <<browser, enabled, phase, frames>>
vars == <<create, recorder, sessionVars, conn, closed, files, logVars, browserVars>>

----------------------------------------------------------------------------
\* Where a DELETE can stand: before and after it has its token.
BeforeRelease == {"idle", "locking", "releasing"}
PastRelease == {"forwarding", "canceling", "closing", "awaiting", "writing",
                "stopping", "done"}

NoEntry == [seq |-> -1]

Frames == [kind : {"attached"}] \cup
          [kind : {"sent", "response", "finished"}, id : Ids]

\* sess.Lock is held while queue.Release waits.
Locked == \E d \in Deleters : pc[d] = "releasing"

Goto(d, from, to) ==
    /\ pc[d] = from
    /\ pc' = [pc EXCEPT ![d] = to]

Init ==
    /\ create = "recording"
    /\ recorder = FALSE
    /\ sole \in BOOLEAN
    /\ onMap = TRUE
    /\ used = IF sole THEN 0 ELSE 1
    /\ pc = [d \in Deleters |-> "idle"]
    /\ late = {}
    /\ conn = "none"
    /\ reader = "none"
    /\ closed = "fresh"
    /\ entries = [id \in Ids |-> NoEntry]
    /\ seq = 0
    /\ files = {}
    /\ read = 0
    /\ browser = TRUE
    /\ enabled = FALSE
    /\ phase \in [Ids -> {"unsent", "sent"}]    \* a page may be loading
    /\ frames = <<>>

----------------------------------------------------------------------------
(* The browser: a request is sent, sent again for each redirect, answered  *)
(* and finished, and an enabled page reports each of these steps.  What it *)
(* does before it is enabled or after the socket is closed nobody is told. *)

PageStep(id, from, to, kind) ==
    /\ browser /\ enabled /\ conn = "open"
    /\ phase[id] \in from
    /\ phase' = [phase EXCEPT ![id] = to]
    /\ Len(frames) < MaxFrames
    /\ frames' = Append(frames, [kind |-> kind, id |-> id])
    /\ UNCHANGED <<create, recorder, sessionVars, conn, closed, files, logVars,
                   browser, enabled>>

PageSends(id) == PageStep(id, {"unsent", "sent"}, "sent", "sent")
PageGetsResponse(id) == PageStep(id, {"sent"}, "answered", "response")
PageFinishes(id) == PageStep(id, {"answered"}, "finished", "finished")

----------------------------------------------------------------------------
(* create: har.Start, the assignment and queue.Create.                     *)

CreateStep(from, to) ==
    /\ create = from
    /\ create' = to
    /\ UNCHANGED <<sole, onMap, pc, late, closed, files, entries, seq, read>>

\* The dial comes back to the hub, which no longer knows the session...
DialRefused ==
    /\ CreateStep("recording", "counting")
    /\ ~onMap
    /\ UNCHANGED <<recorder, used, conn, reader, browserVars>>

DialFound ==
    /\ CreateStep("recording", "dialing")
    /\ onMap
    /\ UNCHANGED <<recorder, used, conn, reader, browserVars>>

\* ...or takes sess.Lock to reset its timer and passes the handshake on, ...
Dialed ==
    /\ CreateStep("dialing", "handshaking")
    /\ ~Locked
    /\ UNCHANGED <<recorder, used, conn, reader, browserVars>>

\* ...which the browser accepts, ...
Accepted ==
    /\ CreateStep("handshaking", "attaching")
    /\ browser
    /\ conn' = "open"
    /\ UNCHANGED <<recorder, used, reader, browserVars>>

\* ...or refuses, for want of devtools or because it is gone: the session goes
\* on without a recorder.  It may also do neither, for ever.
NotAccepted ==
    /\ CreateStep("handshaking", "counting")
    /\ UNCHANGED <<recorder, used, conn, reader, browserVars>>

\* The setAutoAttach command: the browser announces its page...
Attach ==
    /\ CreateStep("attaching", "setting")
    /\ reader' = "reading"
    /\ frames' = IF browser THEN Append(frames, [kind |-> "attached"]) ELSE frames
    /\ UNCHANGED <<recorder, used, conn, browser, enabled, phase>>

\* ...or is gone by now: the socket is closed and no recorder returned.
AttachFails ==
    /\ CreateStep("attaching", "counting")
    /\ ~browser
    /\ conn' = "closed"
    /\ UNCHANGED <<recorder, used, reader, browserVars>>

SetRecorder ==
    /\ CreateStep("setting", "counting")
    /\ recorder' = TRUE
    /\ UNCHANGED <<used, conn, reader, browserVars>>

\* queue.Create.
Created ==
    /\ CreateStep("counting", "created")
    /\ used' = used + 1
    /\ UNCHANGED <<recorder, conn, reader, browserVars>>

----------------------------------------------------------------------------
(* Recorder.read and apply.  An entry keeps the places of the frames that  *)
(* made it: what a frame says besides is copied and of no consequence.     *)

ApplySent(id) ==
    /\ entries' = [entries EXCEPT ![id] =
           [seq |-> seq, sent |-> read', response |-> 0, finished |-> 0]]
    /\ seq' = seq + 1

\* A plausible fault: a response nobody asked for makes an entry.
ApplyResponseAlways(id) ==
    /\ entries' = IF entries[id] = NoEntry
                  THEN [entries EXCEPT ![id] =
                    [seq |-> seq, sent |-> 0, response |-> read', finished |-> 0]]
                  ELSE [entries EXCEPT ![id].response = read']
    /\ UNCHANGED seq

ApplyResponse(id) ==
    /\ entries' = IF entries[id] = NoEntry THEN entries
                  ELSE [entries EXCEPT ![id].response = read']
    /\ UNCHANGED seq

ApplyFinished(id) ==
    /\ entries' = IF entries[id] = NoEntry THEN entries
                  ELSE [entries EXCEPT ![id].finished = read']
    /\ UNCHANGED seq

\* A frame is received and handled: enableNetwork for the page, apply else.
Receive ==
    /\ reader = "reading"
    /\ read < Len(frames)
    /\ read' = read + 1
    /\ LET f == frames[read'] IN
         \/ /\ f.kind = "attached"
            /\ enabled' = (browser /\ conn = "open")
            /\ UNCHANGED <<entries, seq>>
         \/ f.kind = "sent" /\ ApplySent(f.id) /\ UNCHANGED enabled
         \/ f.kind = "response" /\ ApplyResponse(f.id) /\ UNCHANGED enabled
         \/ f.kind = "finished" /\ ApplyFinished(f.id) /\ UNCHANGED enabled
    /\ UNCHANGED <<create, recorder, sessionVars, conn, closed, files, reader,
                   browser, phase, frames>>

\* A fault: the reader goes on when the peer is gone.
EndReadByClose ==
    /\ reader = "reading"
    /\ conn = "closed"
    /\ reader' = "ended"
    /\ UNCHANGED <<create, recorder, sessionVars, conn, closed, files, entries,
                   seq, read, browserVars>>

\* Receive fails when either end of the socket is closed; frames on their way
\* may be lost.
EndRead ==
    /\ reader = "reading"
    /\ conn = "closed" \/ ~browser
    /\ reader' = "ended"
    /\ UNCHANGED <<create, recorder, sessionVars, conn, closed, files, entries,
                   seq, read, browserVars>>

----------------------------------------------------------------------------
(* DELETE, as in SessionHub, with sess.Cancel and Recorder.Close.          *)

DeleteStep(d, from, to) ==
    /\ Goto(d, from, to)
    /\ UNCHANGED <<create, recorder, sole, logVars, enabled, phase, frames>>

Lookup(d) ==
    /\ DeleteStep(d, "idle", "locking")
    /\ onMap
    /\ late' = IF create = "created" THEN late \cup {d} ELSE late
    /\ UNCHANGED <<onMap, used, conn, closed, files, browser>>

RemoveSession(d) ==
    /\ DeleteStep(d, "locking", "releasing")
    /\ ~Locked
    /\ onMap' = FALSE
    /\ UNCHANGED <<used, late, conn, closed, files, browser>>

\* queue.Release, as far as the used channel goes.
Release(d) ==
    /\ DeleteStep(d, "releasing", "forwarding")
    /\ used > 0
    /\ used' = used - 1
    /\ UNCHANGED <<onMap, late, conn, closed, files, browser>>

\* The driver gets the DELETE and quits the browser, or fails to.
Forward(d) ==
    /\ DeleteStep(d, "forwarding", "canceling")
    /\ browser' \in {browser, FALSE}
    /\ UNCHANGED <<onMap, used, late, conn, closed, files>>

\* sess.Cancel finds a recorder to close...
FindRecorder(d) ==
    /\ DeleteStep(d, "canceling", "closing")
    /\ recorder
    /\ UNCHANGED <<onMap, used, late, conn, closed, files, browser>>

\* ...or none: there is none, or nothing orders its read after the write.
FindNone(d) ==
    /\ DeleteStep(d, "canceling", "stopping")
    /\ ~recorder \/ create = "counting"
    /\ UNCHANGED <<onMap, used, late, conn, closed, files, browser>>

\* Faults of Close: the socket is left open, the reader is not waited for, and
\* a flag in place of sync.Once sends the second caller away at once.
CloseKeepsConn(d) ==
    /\ DeleteStep(d, "closing", "awaiting")
    /\ closed = "fresh"
    /\ closed' = "running"
    /\ UNCHANGED <<onMap, used, late, conn, files, browser>>

AwaitNobody(d) ==
    /\ DeleteStep(d, "awaiting", "writing")
    /\ UNCHANGED <<onMap, used, late, conn, closed, files, browser>>

CloseAgainAtOnce(d) ==
    /\ DeleteStep(d, "closing", "stopping")
    /\ closed # "fresh"
    /\ UNCHANGED <<onMap, used, late, conn, closed, files, browser>>

\* Close: the first caller closes the socket, waits for the reader, writes...
CloseConn(d) ==
    /\ DeleteStep(d, "closing", "awaiting")
    /\ closed = "fresh"
    /\ closed' = "running"
    /\ conn' = "closed"
    /\ UNCHANGED <<onMap, used, late, files, browser>>

AwaitReader(d) ==
    /\ DeleteStep(d, "awaiting", "writing")
    /\ reader = "ended"
    /\ UNCHANGED <<onMap, used, late, conn, closed, files, browser>>

\* The members of S in the order of their ranks.
Sorted(S, rank) ==
    CHOOSE order \in SetToSeqs(S) :
        \A i, j \in DOMAIN order : i < j => rank[order[i]] < rank[order[j]]

\* The entries in the order of seq.
InOrder(es) ==
    LET recorded == {id \in Ids : es[id] # NoEntry}
        order == Sorted(recorded, [id \in recorded |-> es[id].seq])
    IN  [i \in 1..Len(order) |->
           [id |-> order[i], sent |-> es[order[i]].sent,
            response |-> es[order[i]].response,
            finished |-> es[order[i]].finished]]

WriteFile(d) ==
    /\ DeleteStep(d, "writing", "stopping")
    /\ closed' = "done"
    /\ files' = {InOrder(entries)}
    /\ UNCHANGED <<onMap, used, late, conn, browser>>

\* ...and any other waits in sync.Once until it has.
CloseAgain(d) ==
    /\ DeleteStep(d, "closing", "stopping")
    /\ closed = "done"
    /\ UNCHANGED <<onMap, used, late, conn, closed, files, browser>>

\* The rest of Cancel: the container is stopped and removed.
Stop(d) ==
    /\ DeleteStep(d, "stopping", "done")
    /\ browser' = FALSE
    /\ UNCHANGED <<onMap, used, late, conn, closed, files>>

----------------------------------------------------------------------------
Browse == \E id \in Ids : PageSends(id) \/ PageGetsResponse(id) \/ PageFinishes(id)

Start ==
    \/ DialRefused \/ DialFound \/ Dialed \/ Accepted \/ NotAccepted
    \/ Attach \/ AttachFails \/ SetRecorder \/ Created

Cancel(d) ==
    \/ FindRecorder(d) \/ FindNone(d)
    \/ CloseConn(d) \/ AwaitReader(d) \/ WriteFile(d) \/ CloseAgain(d) \/ Stop(d)

Next ==
    \/ Browse \/ Start \/ Receive \/ EndRead
    \/ \E d \in Deleters :
        Lookup(d) \/ RemoveSession(d) \/ Release(d) \/ Forward(d) \/ Cancel(d)

Spec == Init /\ [][Next]_vars

(***************************************************************************)
(* Cancel runs, which takes for granted that Docker answers and a driver   *)
(* process ends on SIGINT, and a read on a dead socket returns.  The       *)
(* browser owes nothing: it may send for ever or never, and leave the      *)
(* handshake open; create, which may wait for it, is not assumed to end.   *)
(***************************************************************************)
Fairness ==
    /\ WF_vars(EndRead)
    /\ \A d \in Deleters : WF_vars(Cancel(d))

FairSpec == Spec /\ Fairness

----------------------------------------------------------------------------
\* Every variable holds a value of its type; an entry has the place of the
\* frame that began it, before those that went on with it.
TypeOK ==
    /\ create \in {"recording", "dialing", "handshaking", "attaching", "setting",
                   "counting", "created"}
    /\ conn \in {"none", "open", "closed"}
    /\ reader \in {"none", "reading", "ended"}
    /\ closed \in {"fresh", "running", "done"}
    /\ pc \in [Deleters -> BeforeRelease \cup PastRelease]
    /\ used \in 0..2
    /\ frames \in Seq(Frames)
    /\ read \in 0..Len(frames)
    /\ \A id \in Ids : entries[id] # NoEntry =>
        /\ entries[id].seq \in 0..(seq - 1)
        /\ entries[id].sent \in 1..read
        /\ entries[id].response \in {0} \cup entries[id].sent + 1 .. read
        /\ entries[id].finished \in {0} \cup entries[id].sent + 1 .. read

\* What the log says of the frames in `log`, without a recorder: one entry for
\* each id that was sent, with what followed its last sending, in that order.
Replay(log) ==
    LET At(id, kind) == {i \in 1..Len(log) : log[i] = [kind |-> kind, id |-> id]}
        ids == {id \in Ids : At(id, "sent") # {}}
        LastSent(id) == Max(At(id, "sent"))
        After(id, kind) == Max({0} \cup {i \in At(id, kind) : i > LastSent(id)})
        order == Sorted(ids, [id \in ids |-> LastSent(id)])
    IN  [i \in 1..Len(order) |->
           [id |-> order[i], sent |-> LastSent(order[i]),
            response |-> After(order[i], "response"),
            finished |-> After(order[i], "finished")]]

\* A HAR file that is written holds, of every id received, the last sending
\* and what was received after that, in the order of these sendings, and
\* nothing is received after it was written: Close waits for the reader
\* (har.go, 219).
FileFaithful == files \subseteq {Replay(SubSeq(frames, 1, read))}

\* What the guide says of the recording, "everything a session requests": each
\* sending that was received is in the file, a redirect's first hop included.
EverySendingKept ==
    \A log \in files : \A i \in 1..read :
        frames[i].kind = "sent" => \E j \in 1..Len(log) : log[j].sent = i

\* The file is on disk before any Cancel goes on to stop the container, its
\* second caller's included: for every DELETE that came after create was
\* through, and for any DELETE at all when no other session lends it a token.
SavedBeforeStop ==
    \A d \in Deleters :
        pc[d] \in {"stopping", "done"} /\ recorder /\ (sole \/ d \in late)
            => files # {}

\* Close does not wait for ever, although the browser may have more to say.
CloseEnds ==
    \A d \in Deleters :
        pc[d] \in {"closing", "awaiting", "writing"} ~> pc[d] = "done"

\* No reader goroutine is left behind, not even one that no Cancel has seen.
ReaderEnds == \A d \in Deleters : pc[d] = "done" ~> reader # "reading"
=============================================================================
