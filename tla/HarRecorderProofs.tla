-------------------------- MODULE HarRecorderProofs --------------------------
(***************************************************************************)
(* Proofs about HarRecorder, for any number of DELETE handlers, request    *)
(* ids and frames: what Cancel promises of the HAR file.                   *)
(***************************************************************************)
EXTENDS HarRecorder, NumberLemmas, FiniteSetTheorems, TLAPS

\* While no other session lends its token, no DELETE gets through
\* queue.Release before create is through.
TokenOrders ==
    sole /\ create # "created" =>
        used = 0 /\ \A d \in Deleters : pc[d] \notin PastRelease

\* Close has been through means the file is there, and it is written last.
CloseOrders ==
    /\ closed = "done" => files # {}
    /\ files # {} => reader = "ended" /\ files = {InOrder(entries)}
    /\ \A d \in Deleters : pc[d] = "writing" => reader = "ended"

LateOrders == late # {} => create = "created"

\* Only a recorder that create has returned from Start is ever closed.
RecorderOrders ==
    /\ recorder => create \in {"counting", "created"}
    /\ closed # "fresh" \/ files # {} => recorder
    /\ \A d \in Deleters : pc[d] \in {"closing", "awaiting", "writing"} => recorder

HInv ==
    /\ pc \in [Deleters -> BeforeRelease \cup PastRelease]
    /\ used \in Nat
    /\ TokenOrders
    /\ CloseOrders
    /\ LateOrders
    /\ RecorderOrders
    /\ SavedBeforeStop

\* Before the session is put there is no recorder.
LEMMA InitHInv == Init => HInv
BY DEF Init, HInv, TokenOrders, CloseOrders, LateOrders, RecorderOrders,
       SavedBeforeStop, PastRelease, BeforeRelease

\* Every step of create, reader, browser and DELETE keeps the invariant.
LEMMA NextHInv == HInv /\ [Next]_vars => HInv'
<1> SUFFICES ASSUME HInv, [Next]_vars PROVE HInv'
  OBVIOUS
<1> USE DEF HInv, TokenOrders, CloseOrders, LateOrders, RecorderOrders,
            SavedBeforeStop, PastRelease, BeforeRelease
<1>1. ASSUME Browse PROVE HInv'
  BY <1>1 DEF Browse, PageSends, PageGetsResponse, PageFinishes, PageStep,
              sessionVars, logVars
<1>2. ASSUME Start PROVE HInv'
  <2> USE DEF CreateStep, browserVars
  <2>1. CASE DialRefused
    BY <2>1 DEF DialRefused
  <2>2. CASE DialFound
    BY <2>2 DEF DialFound
  <2>3. CASE Dialed
    BY <2>3 DEF Dialed
  <2>4. CASE Accepted \/ NotAccepted
    BY <2>4 DEF Accepted, NotAccepted
  <2>5. CASE Attach
    BY <2>5 DEF Attach
  <2>6. CASE AttachFails
    BY <2>6 DEF AttachFails
  <2>7. CASE SetRecorder
    BY <2>7 DEF SetRecorder
  <2>8. CASE Created
    BY <2>8 DEF Created
  <2> QED
    BY <1>2, <2>1, <2>2, <2>3, <2>4, <2>5, <2>6, <2>7, <2>8 DEF Start
<1>3. ASSUME Receive PROVE HInv'
  BY <1>3 DEF Receive, sessionVars
<1>4. ASSUME EndRead PROVE HInv'
  BY <1>4 DEF EndRead, sessionVars, browserVars
<1>5. ASSUME NEW d \in Deleters,
             Lookup(d) \/ RemoveSession(d) \/ Release(d) \/ Forward(d) \/ Cancel(d)
      PROVE  HInv'
  <2> USE DEF DeleteStep, Goto, logVars
  <2>1. CASE Lookup(d)
    BY <2>1 DEF Lookup
  <2>2. CASE RemoveSession(d)
    BY <2>2 DEF RemoveSession
  <2>3. CASE Release(d)
    BY <2>3 DEF Release
  <2>4. CASE Forward(d)
    BY <2>4 DEF Forward
  <2>5. CASE FindRecorder(d)
    BY <2>5 DEF FindRecorder
  <2>6. CASE FindNone(d)
    BY <2>6 DEF FindNone
  <2>7. CASE CloseConn(d)
    BY <2>7 DEF CloseConn
  <2>8. CASE AwaitReader(d)
    BY <2>8 DEF AwaitReader
  <2>9. CASE WriteFile(d)
    BY <2>9 DEF WriteFile
  <2>10. CASE CloseAgain(d)
    BY <2>10 DEF CloseAgain
  <2>11. CASE Stop(d)
    BY <2>11 DEF Stop
  <2> QED
    BY <1>5, <2>1, <2>2, <2>3, <2>4, <2>5, <2>6, <2>7, <2>8, <2>9, <2>10, <2>11
       DEF Cancel
<1>6. CASE UNCHANGED vars
  BY <1>6 DEF vars, sessionVars, logVars, browserVars
<1> QED
  BY <1>1, <1>2, <1>3, <1>4, <1>5, <1>6 DEF Next

\* For any number of DELETEs at once: a HAR file is on disk before the container
\* is stopped, but in the race that another session's token opens.
THEOREM SavedHolds == Spec => []SavedBeforeStop
<1>1. HInv => SavedBeforeStop
  BY DEF HInv
<1> QED
  BY <1>1, InitHInv, NextHInv, PTL DEF Spec

\* A HAR file that is written is the recorder's last word, whatever frames were
\* on their way: it holds every entry and no entry changes any more.
THEOREM FileIsFinal ==
    Spec => [](files # {} => reader = "ended" /\ files = {InOrder(entries)})
<1>1. HInv => (files # {} => reader = "ended" /\ files = {InOrder(entries)})
  BY DEF HInv, CloseOrders
<1> QED
  BY <1>1, InitHInv, NextHInv, PTL DEF Spec

----------------------------------------------------------------------------
(* What the entries hold of the frames received: the log, replayed.  The   *)
(* operators and lemmas are about any log, of which r frames are received. *)

\* A frame of the browser about one request, and an entry made of frames.
Report(kind, id) == [kind |-> kind, id |-> id]
Entry == [seq : Nat, sent : Nat, response : Nat, finished : Nat]

\* k is the place of the last such frame received after place n, or 0.
Latest(log, r, n, kind, id, k) ==
    /\ k = 0 \/ (k \in n + 1 .. r /\ log[k] = Report(kind, id))
    /\ \A i \in n + 1 .. r : log[i] = Report(kind, id) => i <= k

\* An entry stands for the last time its request was sent, and what followed.
Traced(log, r, s, id, e) ==
    /\ e \in Entry
    /\ e.seq < s
    /\ e.sent \in 1 .. r
    /\ Latest(log, r, 0, "sent", id, e.sent)
    /\ Latest(log, r, e.sent, "response", id, e.response)
    /\ Latest(log, r, e.sent, "finished", id, e.finished)

Unsent(log, r, id) == \A i \in 1 .. r : log[i] # Report("sent", id)

\* The entries trace the log, and seq orders them as their frames came.
LogOf(log, r, s, es) ==
    /\ \A id \in Ids : IF es[id] # NoEntry THEN Traced(log, r, s, id, es[id])
                                           ELSE Unsent(log, r, id)
    /\ \A a, b \in Ids : es[a] # NoEntry /\ es[b] # NoEntry =>
         (es[a].seq < es[b].seq <=> es[a].sent < es[b].sent)

LogTypes ==
    /\ frames \in Seq(Frames)
    /\ read \in 0 .. Len(frames)
    /\ seq \in Nat
    /\ entries \in [Ids -> Entry \cup {NoEntry}]

LogInv == LogTypes /\ LogOf(frames, read, seq, entries)

\* The browser's next frame leaves alone what has been received.
LEMMA AppendFrame ==
    ASSUME NEW fs \in Seq(Frames), NEW f \in Frames
    PROVE  /\ Append(fs, f) \in Seq(Frames)
           /\ Len(Append(fs, f)) = Len(fs) + 1
           /\ \A i \in 1 .. Len(fs) : Append(fs, f)[i] = fs[i]
OBVIOUS

\* A report is of one kind and about one request.
LEMMA ReportParts ==
    \A k1, k2, id1, id2 : Report(k1, id1) = Report(k2, id2) <=> k1 = k2 /\ id1 = id2
<1>1. \A k, id : Report(k, id).kind = k /\ Report(k, id).id = id
  BY DEF Report
<1> QED
  BY <1>1

\* A frame is an announcement of the page or a report of one request.
LEMMA FrameKinds ==
    ASSUME NEW f \in Frames
    PROVE  \/ /\ f.kind = "attached"
              /\ \A kind \in {"sent", "response", "finished"}, id \in Ids :
                    f # Report(kind, id)
           \/ /\ f.kind \in {"sent", "response", "finished"} /\ f.id \in Ids
              /\ f = Report(f.kind, f.id)
<1>1. CASE f \in [kind : {"attached"}]
  <2>1. f.kind = "attached"
    BY <1>1
  <2>2. \A kind, id : Report(kind, id).kind = kind
    BY DEF Report
  <2> QED
    BY <2>1, <2>2
<1>2. CASE f \in [kind : {"sent", "response", "finished"}, id : Ids]
  BY <1>2 DEF Report
<1> QED
  BY <1>1, <1>2 DEF Frames

\* What is recorded is no NoEntry.
LEMMA EntryIsOne == \A e \in Entry : e # NoEntry
<1> SUFFICES ASSUME NEW e \in Entry, e = NoEntry PROVE FALSE
  OBVIOUS
<1>1. e.seq \in Nat
  BY DEF Entry
<1>2. NoEntry.seq = -1
  BY DEF NoEntry
<1> QED
  BY <1>1, <1>2

\* A frame of another kind or request does not change which one was last...
LEMMA LastStays ==
    ASSUME NEW log, NEW r \in Nat, NEW n \in 0 .. r, NEW kind, NEW id, NEW k,
           Latest(log, r, n, kind, id, k), log[r + 1] # Report(kind, id)
    PROVE  Latest(log, r + 1, n, kind, id, k)
BY DEF Latest

\* ...and one of this kind and request is the last.
LEMMA LastMoves ==
    ASSUME NEW log, NEW r \in Nat, NEW n \in 0 .. r, NEW kind, NEW id,
           log[r + 1] = Report(kind, id)
    PROVE  Latest(log, r + 1, n, kind, id, r + 1)
BY DEF Latest

\* After the last frame there is none.
LEMMA LastNone ==
    ASSUME NEW log, NEW r \in Nat, NEW kind, NEW id
    PROVE  Latest(log, r, r, kind, id, 0)
BY DEF Latest

\* A frame about something else leaves an entry as it is.
LEMMA OtherFrame ==
    ASSUME NEW log, NEW r \in Nat, NEW s \in Nat, NEW t \in Nat, s <= t,
           NEW id \in Ids, NEW e, Traced(log, r, s, id, e),
           \A kind \in {"sent", "response", "finished"} :
               log[r + 1] # Report(kind, id)
    PROVE  Traced(log, r + 1, t, id, e)
<1>1. e.sent \in 1 .. r /\ e.seq \in Nat
  BY DEF Traced, Entry
<1> QED
  BY <1>1, LastStays DEF Traced

\* A request is sent for the first time or redirected: its entry begins anew.
LEMMA SentFrame ==
    ASSUME NEW log, NEW r \in Nat, NEW s \in Nat, NEW id \in Ids,
           log[r + 1] = Report("sent", id)
    PROVE  Traced(log, r + 1, s + 1, id,
                  [seq |-> s, sent |-> r + 1, response |-> 0, finished |-> 0])
<1> DEFINE e == [seq |-> s, sent |-> r + 1, response |-> 0, finished |-> 0]
<1>1. e \in Entry /\ e.seq = s /\ e.sent = r + 1 /\ e.response = 0 /\ e.finished = 0
  BY DEF Entry
<1>2. Latest(log, r + 1, 0, "sent", id, r + 1)
  BY LastMoves
<1>3. \A kind : Latest(log, r + 1, r + 1, kind, id, 0)
  BY LastNone
<1> HIDE DEF e
<1>4. Traced(log, r + 1, s + 1, id, e)
  BY <1>1, <1>2, <1>3 DEF Traced
<1> QED
  BY <1>4 DEF e

\* A response is the entry's last one...
LEMMA ResponseFrame ==
    ASSUME NEW log, NEW r \in Nat, NEW s \in Nat, NEW id \in Ids, NEW e,
           Traced(log, r, s, id, e), log[r + 1] = Report("response", id)
    PROVE  Traced(log, r + 1, s, id, [e EXCEPT !.response = r + 1])
<1> DEFINE g == [e EXCEPT !.response = r + 1]
<1>1. e \in Entry /\ e.sent \in 1 .. r
  BY DEF Traced
<1>2. g \in Entry /\ g.seq = e.seq /\ g.sent = e.sent
      /\ g.response = r + 1 /\ g.finished = e.finished
  BY <1>1 DEF Entry
<1>3. log[r + 1] # Report("sent", id) /\ log[r + 1] # Report("finished", id)
  BY ReportParts
<1>4. /\ Latest(log, r + 1, 0, "sent", id, e.sent)
      /\ Latest(log, r + 1, e.sent, "response", id, r + 1)
      /\ Latest(log, r + 1, e.sent, "finished", id, e.finished)
  BY <1>1, <1>3, LastStays, LastMoves DEF Traced
<1> HIDE DEF g
<1>5. Traced(log, r + 1, s, id, g)
  BY <1>1, <1>2, <1>4 DEF Traced
<1> QED
  BY <1>5 DEF g

\* ...and so is the end of its loading.
LEMMA FinishedFrame ==
    ASSUME NEW log, NEW r \in Nat, NEW s \in Nat, NEW id \in Ids, NEW e,
           Traced(log, r, s, id, e), log[r + 1] = Report("finished", id)
    PROVE  Traced(log, r + 1, s, id, [e EXCEPT !.finished = r + 1])
<1> DEFINE g == [e EXCEPT !.finished = r + 1]
<1>1. e \in Entry /\ e.sent \in 1 .. r
  BY DEF Traced
<1>2. g \in Entry /\ g.seq = e.seq /\ g.sent = e.sent
      /\ g.response = e.response /\ g.finished = r + 1
  BY <1>1 DEF Entry
<1>3. log[r + 1] # Report("sent", id) /\ log[r + 1] # Report("response", id)
  BY ReportParts
<1>4. /\ Latest(log, r + 1, 0, "sent", id, e.sent)
      /\ Latest(log, r + 1, e.sent, "response", id, e.response)
      /\ Latest(log, r + 1, e.sent, "finished", id, r + 1)
  BY <1>1, <1>3, LastStays, LastMoves DEF Traced
<1> HIDE DEF g
<1>5. Traced(log, r + 1, s, id, g)
  BY <1>1, <1>2, <1>4 DEF Traced
<1> QED
  BY <1>5 DEF g

\* While the reader receives nothing, what it has recorded stays as it is.
LEMMA LogStays ==
    ASSUME LogInv, UNCHANGED <<entries, seq, read>>,
           frames' = frames \/ \E f \in Frames : frames' = Append(frames, f)
    PROVE  LogInv'
<1>1. /\ frames' \in Seq(Frames)
      /\ Len(frames) <= Len(frames')
      /\ \A i \in 1 .. Len(frames) : frames'[i] = frames[i]
  BY AppendFrame DEF LogInv, LogTypes
<1>2. LogTypes'
  BY <1>1 DEF LogInv, LogTypes
<1>3. read \in Nat /\ \A i \in 1 .. read : frames'[i] = frames[i]
  BY <1>1 DEF LogInv, LogTypes
<1>4. ASSUME NEW id \in Ids, Traced(frames, read, seq, id, entries[id])
      PROVE  Traced(frames', read, seq, id, entries[id])
  <2>1. ASSUME NEW n \in Nat, NEW kind, NEW k, Latest(frames, read, n, kind, id, k)
        PROVE  Latest(frames', read, n, kind, id, k)
    BY <1>3, <2>1 DEF Latest
  <2>2. entries[id].sent \in Nat /\ 0 \in Nat
    BY <1>4 DEF Traced, Entry
  <2> QED
    BY <1>4, <2>1, <2>2 DEF Traced
<1>5. \A id \in Ids : Unsent(frames, read, id) => Unsent(frames', read, id)
  BY <1>3 DEF Unsent
<1>6. LogOf(frames', read, seq, entries)
  BY <1>4, <1>5 DEF LogInv, LogOf
<1> QED
  BY <1>2, <1>6 DEF LogInv

\* An entry is made or goes on and the others stay: the log is traced on.
LEMMA OneEntry ==
    ASSUME read \in Nat, seq \in Nat, LogOf(frames, read, seq, entries),
           NEW t \in Nat, seq <= t,
           NEW q \in Ids, NEW e, Traced(frames, read + 1, t, q, e),
           \A kind \in {"sent", "response", "finished"}, id \in Ids \ {q} :
               frames[read + 1] # Report(kind, id),
           \/ e.seq = seq /\ e.sent = read + 1
           \/ /\ entries[q] # NoEntry
              /\ e.seq = entries[q].seq /\ e.sent = entries[q].sent,
           entries'[q] = e, \A id \in Ids \ {q} : entries'[id] = entries[id]
    PROVE  LogOf(frames, read + 1, t, entries')
<1>1. e # NoEntry
  BY EntryIsOne DEF Traced
<1>2. ASSUME NEW id \in Ids, entries'[id] # NoEntry
      PROVE  Traced(frames, read + 1, t, id, entries'[id])
  <2>1. CASE id = q
    BY <2>1
  <2>2. CASE id # q
    <3>1. Traced(frames, read, seq, id, entries[id])
      BY <1>2, <2>2 DEF LogOf
    <3> QED
      BY <2>2, <3>1, OtherFrame
  <2> QED
    BY <2>1, <2>2
<1>3. ASSUME NEW id \in Ids, entries'[id] = NoEntry
      PROVE  Unsent(frames, read + 1, id)
  <2>1. id # q /\ entries[id] = NoEntry
    BY <1>1, <1>3
  <2>2. Unsent(frames, read, id)
    BY <2>1 DEF LogOf
  <2> QED
    BY <2>1, <2>2 DEF Unsent
<1>4. ASSUME NEW a \in Ids, NEW b \in Ids, entries'[a] # NoEntry, entries'[b] # NoEntry
      PROVE  entries'[a].seq < entries'[b].seq <=> entries'[a].sent < entries'[b].sent
  <2>1. \A id \in Ids : entries[id] # NoEntry =>
          /\ entries[id].seq \in Nat /\ entries[id].seq < seq
          /\ entries[id].sent \in 1 .. read
    BY DEF LogOf, Traced, Entry
  <2>2. \A x, y \in Ids : entries[x] # NoEntry /\ entries[y] # NoEntry =>
          (entries[x].seq < entries[y].seq <=> entries[x].sent < entries[y].sent)
    BY DEF LogOf
  <2>3. CASE a # q /\ b # q
    BY <1>4, <2>2, <2>3
  <2>4. CASE a = q /\ b = q
    <3>1. e.seq \in Nat /\ e.sent \in Nat
      BY DEF Traced, Entry
    <3> QED
      BY <2>4, <3>1
  <2>5. CASE a = q /\ b # q
    BY <1>4, <2>1, <2>2, <2>5
  <2>6. CASE a # q /\ b = q
    BY <1>4, <2>1, <2>2, <2>6
  <2> QED
    BY <2>3, <2>4, <2>5, <2>6
<1> QED
  BY <1>2, <1>3, <1>4 DEF LogOf

\* A frame that begins no entry and belongs to none changes nothing.
LEMMA NoOnesFrame ==
    ASSUME NEW log, NEW r \in Nat, NEW s \in Nat, NEW es, LogOf(log, r, s, es),
           \A id \in Ids : log[r + 1] # Report("sent", id),
           \A kind \in {"sent", "response", "finished"}, id \in Ids :
               es[id] # NoEntry => log[r + 1] # Report(kind, id)
    PROVE  LogOf(log, r + 1, s, es)
<1>1. ASSUME NEW id \in Ids, es[id] # NoEntry
      PROVE  Traced(log, r + 1, s, id, es[id])
  <2>1. Traced(log, r, s, id, es[id])
    BY <1>1 DEF LogOf
  <2> QED
    BY <1>1, <2>1, OtherFrame
<1>2. ASSUME NEW id \in Ids, es[id] = NoEntry PROVE Unsent(log, r + 1, id)
  BY <1>2 DEF LogOf, Unsent
<1> QED
  BY <1>1, <1>2 DEF LogOf

\* Receiving a frame keeps the log faithful.
LEMMA LogGrows == LogInv /\ Receive => LogInv'
<1> SUFFICES ASSUME LogInv, Receive PROVE LogInv'
  OBVIOUS
<1> DEFINE f == frames[read + 1]
<1>1. /\ read \in Nat /\ seq \in Nat /\ read' = read + 1 /\ frames' = frames
      /\ read' \in 0 .. Len(frames) /\ f \in Frames
      /\ entries \in [Ids -> Entry \cup {NoEntry}] /\ frames \in Seq(Frames)
  BY DEF Receive, LogInv, LogTypes
<1>2. LogOf(frames, read, seq, entries)
  BY DEF LogInv
<1> SUFFICES seq' \in Nat /\ entries' \in [Ids -> Entry \cup {NoEntry}]
             /\ LogOf(frames, read + 1, seq', entries')
  BY <1>1 DEF LogInv, LogTypes
<1>3. \A id \in Ids : entries[id] # NoEntry => Traced(frames, read, seq, id, entries[id])
  BY <1>2 DEF LogOf
<1>4. CASE f.kind = "attached"
  <2>1. UNCHANGED <<entries, seq>>
    BY <1>1, <1>4 DEF Receive
  <2>2. \A kind \in {"sent", "response", "finished"}, id \in Ids : f # Report(kind, id)
    BY <1>1, <1>4, FrameKinds
  <2> QED
    BY <1>1, <1>2, <2>1, <2>2, NoOnesFrame
<1>5. ASSUME NEW q \in Ids, f = Report(f.kind, q), q = f.id,
             f.kind \in {"sent", "response", "finished"}
      PROVE  seq' \in Nat /\ entries' \in [Ids -> Entry \cup {NoEntry}]
             /\ LogOf(frames, read + 1, seq', entries')
  <2>1. \A kind, id : f = Report(kind, id) => kind = f.kind /\ id = q
    BY <1>5, ReportParts
  <2>6. \A kind \in {"sent", "response", "finished"}, id \in Ids \ {q} :
          frames[read + 1] # Report(kind, id)
    BY <2>1
  <2>7. seq <= seq + 1 /\ seq <= seq /\ seq + 1 \in Nat
    BY <1>1
  <2>2. CASE f.kind = "sent"
    <3> DEFINE e == [seq |-> seq, sent |-> read + 1, response |-> 0, finished |-> 0]
    <3>1. entries' = [entries EXCEPT ![q] = e] /\ seq' = seq + 1
      BY <1>1, <1>5, <2>2 DEF Receive, ApplySent
    <3>2. Traced(frames, read + 1, seq + 1, q, e) /\ e \in Entry
      BY <1>1, <1>5, <2>2, SentFrame DEF Traced
    <3>3. e.seq = seq /\ e.sent = read + 1
      OBVIOUS
    <3> HIDE DEF e
    <3>4. /\ entries' \in [Ids -> Entry \cup {NoEntry}] /\ entries'[q] = e
          /\ \A id \in Ids \ {q} : entries'[id] = entries[id]
      BY <1>1, <3>1, <3>2
    <3>5. LogOf(frames, read + 1, seq + 1, entries')
      BY <1>1, <1>2, <2>6, <2>7, <3>2, <3>3, <3>4, OneEntry
    <3> QED
      BY <1>1, <3>1, <3>4, <3>5
  <2>3. CASE f.kind # "sent" /\ entries[q] = NoEntry
    <3>1. UNCHANGED <<entries, seq>>
      BY <1>1, <1>5, <2>3 DEF Receive, ApplyResponse, ApplyFinished
    <3> QED
      BY <1>1, <1>2, <2>1, <2>3, <3>1, NoOnesFrame
  <2>4. CASE f.kind = "response" /\ entries[q] # NoEntry
    <3> DEFINE e == [entries[q] EXCEPT !.response = read + 1]
    <3>1. entries' = [entries EXCEPT ![q] = e] /\ seq' = seq
      BY <1>1, <1>5, <2>4 DEF Receive, ApplyResponse
    <3>2. Traced(frames, read + 1, seq, q, e) /\ e \in Entry /\ entries[q] \in Entry
      BY <1>1, <1>3, <1>5, <2>4, ResponseFrame DEF Traced
    <3>3. e.seq = entries[q].seq /\ e.sent = entries[q].sent
      BY <3>2 DEF Entry
    <3> HIDE DEF e
    <3>4. /\ entries' \in [Ids -> Entry \cup {NoEntry}] /\ entries'[q] = e
          /\ \A id \in Ids \ {q} : entries'[id] = entries[id]
      BY <1>1, <3>1, <3>2
    <3>5. LogOf(frames, read + 1, seq, entries')
      BY <1>1, <1>2, <2>6, <2>7, <2>4, <3>2, <3>3, <3>4, OneEntry
    <3> QED
      BY <1>1, <3>1, <3>4, <3>5
  <2>5. CASE f.kind = "finished" /\ entries[q] # NoEntry
    <3> DEFINE e == [entries[q] EXCEPT !.finished = read + 1]
    <3>1. entries' = [entries EXCEPT ![q] = e] /\ seq' = seq
      BY <1>1, <1>5, <2>5 DEF Receive, ApplyFinished
    <3>2. Traced(frames, read + 1, seq, q, e) /\ e \in Entry /\ entries[q] \in Entry
      BY <1>1, <1>3, <1>5, <2>5, FinishedFrame DEF Traced
    <3>3. e.seq = entries[q].seq /\ e.sent = entries[q].sent
      BY <3>2 DEF Entry
    <3> HIDE DEF e
    <3>4. /\ entries' \in [Ids -> Entry \cup {NoEntry}] /\ entries'[q] = e
          /\ \A id \in Ids \ {q} : entries'[id] = entries[id]
      BY <1>1, <3>1, <3>2
    <3>5. LogOf(frames, read + 1, seq, entries')
      BY <1>1, <1>2, <2>6, <2>7, <2>5, <3>2, <3>3, <3>4, OneEntry
    <3> QED
      BY <1>1, <3>1, <3>4, <3>5
  <2> QED
    BY <1>5, <2>2, <2>3, <2>4, <2>5
<1>6. f.kind = "attached"
        \/ (f.kind \in {"sent", "response", "finished"} /\ f.id \in Ids
              /\ f = Report(f.kind, f.id))
  BY <1>1, FrameKinds
<1> QED
  BY <1>4, <1>5, <1>6

----------------------------------------------------------------------------
(* The file is the log, replayed: Replay finds in it what the entries hold. *)

\* The sequence o has the members of S in the order of their ranks.
Orders(o, S, r) ==
    /\ o \in SetToSeqs(S)
    /\ \A i, j \in DOMAIN o : i < j => r[o[i]] < r[o[j]]

\* Any finite set whose members have different ranks can be put in order.
LEMMA OrderExists ==
    ASSUME NEW S, IsFiniteSet(S), NEW r, NEW b \in Nat,
           \A a \in S : r[a] \in 0 .. b,
           \A a, c \in S : r[a] = r[c] => a = c
    PROVE  \E o : Orders(o, S, r)
<1> DEFINE Fails(U) == IsFiniteSet(U) /\ ~\E o : Orders(o, U, r)
           T == {Cardinality(U) : U \in {V \in SUBSET S : Fails(V)}}
<1> SUFFICES ASSUME T # {} PROVE FALSE
  OBVIOUS
<1>1. T \in SUBSET Nat
  BY FS_CardinalityType
<1> HIDE DEF T
<1>2. PICK n \in T : \A m \in T : n <= m
  BY <1>1, Least
<1>3. PICK U \in SUBSET S : Fails(U) /\ n = Cardinality(U)
  BY DEF T
<1>4. U # {}
  <2> SUFFICES ASSUME U = {} PROVE FALSE
    OBVIOUS
  <2>1. DOMAIN <<>> = 1 .. 0 /\ 1 .. Cardinality({}) = 1 .. 0 /\ 1 .. 0 = {}
    BY FS_EmptySet
  <2>2. <<>> \in SetToSeqs({})
    BY <2>1 DEF SetToSeqs
  <2>3. Orders(<<>>, {}, r)
    BY <2>1, <2>2 DEF Orders
  <2> QED
    BY <1>3, <2>3
<1>5. n \in Nat \ {0}
  BY <1>1, <1>3, <1>4, FS_EmptySet
<1>6. PICK m \in U : \A a \in U : r[a] <= r[m]
  <2> DEFINE R == {r[a] : a \in U}
  <2>1. R \in SUBSET Nat /\ R # {} /\ \A k \in R : k <= b
    BY <1>4
  <2> HIDE DEF R
  <2>2. PICK k \in R : \A l \in R : l <= k
    BY <2>1, Greatest
  <2> QED
    BY <2>2 DEF R
<1> DEFINE V == U \ {m}
<1>7. V \in SUBSET S /\ IsFiniteSet(V) /\ Cardinality(V) = n - 1
  BY <1>3, <1>6, FS_RemoveElement
<1>8. PICK o : Orders(o, V, r)
  <2>1. n - 1 \notin T
    BY <1>2, <1>5
  <2> QED
    BY <1>7, <2>1 DEF T
<1>9. /\ o \in [1 .. n - 1 -> V]
      /\ \A i, j \in 1 .. n - 1 : i # j => o[i] # o[j]
      /\ \A i, j \in 1 .. n - 1 : i < j => r[o[i]] < r[o[j]]
  BY <1>7, <1>8 DEF Orders, SetToSeqs
<1> DEFINE p == [i \in 1 .. n |-> IF i = n THEN m ELSE o[i]]
<1>10. \A i \in 1 .. n : i # n => p[i] = o[i] /\ i \in 1 .. n - 1 /\ o[i] \in U
                                 /\ r[o[i]] < r[m] /\ o[i] # m
  <2> SUFFICES ASSUME NEW i \in 1 .. n, i # n
               PROVE  p[i] = o[i] /\ i \in 1 .. n - 1 /\ o[i] \in U
                      /\ r[o[i]] < r[m] /\ o[i] # m
    OBVIOUS
  <2>1. p[i] = o[i] /\ i \in 1 .. n - 1
    BY <1>5
  <2>2. o[i] \in U /\ o[i] # m
    BY <1>9, <2>1
  <2>3. r[o[i]] <= r[m] /\ r[o[i]] # r[m] /\ r[o[i]] \in Nat /\ r[m] \in Nat
    BY <1>3, <1>6, <2>2
  <2> QED
    BY <2>1, <2>2, <2>3
<1>11. n \in 1 .. n /\ p[n] = m /\ DOMAIN p = 1 .. n
  BY <1>5
<1> HIDE DEF p
<1>12. \A i, j \in 1 .. n : i < j => p[i] # p[j] /\ r[p[i]] < r[p[j]]
  <2> SUFFICES ASSUME NEW i \in 1 .. n, NEW j \in 1 .. n, i < j
               PROVE  p[i] # p[j] /\ r[p[i]] < r[p[j]]
    OBVIOUS
  <2>1. i # n /\ i # j
    BY <1>5
  <2>2. CASE j = n
    BY <1>10, <1>11, <2>1, <2>2
  <2>3. CASE j # n
    BY <1>9, <1>10, <2>1, <2>3
  <2> QED
    BY <2>2, <2>3
<1>13. \A i \in 1 .. n : p[i] \in U
  BY <1>6, <1>10, <1>11
<1>14. \A i, j \in 1 .. n : i # j => p[i] # p[j]
  <2> SUFFICES ASSUME NEW i \in 1 .. n, NEW j \in 1 .. n, i # j
               PROVE  p[i] # p[j]
    OBVIOUS
  <2>1. i < j \/ j < i
    BY <1>5
  <2> QED
    BY <1>12, <2>1
<1>15. p \in [1 .. n -> U]
  BY <1>13 DEF p
<1>16. p \in SetToSeqs(U)
  BY <1>3, <1>14, <1>15 DEF SetToSeqs
<1>17. Orders(p, U, r)
  BY <1>11, <1>12, <1>16 DEF Orders
<1> QED
  BY <1>3, <1>17

\* There Sorted finds one.
LEMMA SortedOrders ==
    ASSUME NEW S, IsFiniteSet(S), NEW r, NEW b \in Nat,
           \A a \in S : r[a] \in 0 .. b,
           \A a, c \in S : r[a] = r[c] => a = c
    PROVE  Orders(Sorted(S, r), S, r)
BY OrderExists DEF Orders, Sorted

\* Ranks that put the members in the same order sort them alike.
LEMMA SortedSame ==
    ASSUME NEW S, NEW r1, NEW r2, \A a, b \in S : r1[a] < r1[b] <=> r2[a] < r2[b]
    PROVE  Sorted(S, r1) = Sorted(S, r2)
<1>1. \A o \in SetToSeqs(S) : \A i \in DOMAIN o : o[i] \in S
  BY DEF SetToSeqs
<1>2. \A o \in SetToSeqs(S) :
        (\A i, j \in DOMAIN o : i < j => r1[o[i]] < r1[o[j]])
          <=> (\A i, j \in DOMAIN o : i < j => r2[o[i]] < r2[o[j]])
  BY <1>1
<1> QED
  BY <1>2 DEF Sorted

\* The entries, put in the order of seq, are what the received frames say.
LEMMA ReplayIs ==
    ASSUME LogInv
    PROVE  InOrder(entries) = Replay(SubSeq(frames, 1, read))
<1> DEFINE log == SubSeq(frames, 1, read)
           At(id, kind) == {i \in 1 .. Len(log) : log[i] = [kind |-> kind, id |-> id]}
           ids == {id \in Ids : At(id, "sent") # {}}
           LastSent(id) == Max(At(id, "sent"))
           After(id, kind) == Max({0} \cup {i \in At(id, kind) : i > LastSent(id)})
           recorded == {id \in Ids : entries[id] # NoEntry}
           rank == [id \in recorded |-> entries[id].seq]
           place == [id \in ids |-> LastSent(id)]
<1>1. read \in Nat /\ Len(log) = read /\ \A i \in 1 .. read : log[i] = frames[i]
  BY DEF LogInv, LogTypes
<1>2. \A id, kind : At(id, kind) = {i \in 1 .. read : frames[i] = Report(kind, id)}
  BY <1>1 DEF Report
<1>3. \A id \in recorded : Traced(frames, read, seq, id, entries[id])
  BY DEF LogInv, LogOf
<1> HIDE DEF log, At
<1>4. ids = recorded
  <2>1. ASSUME NEW id \in recorded PROVE At(id, "sent") # {}
    <3>1. entries[id].sent \in 1 .. read /\ frames[entries[id].sent] = Report("sent", id)
      BY <1>3 DEF Traced, Latest
    <3> QED
      BY <1>2, <3>1
  <2>2. ASSUME NEW id \in Ids, id \notin recorded PROVE At(id, "sent") = {}
    BY <1>2, <2>2 DEF LogInv, LogOf, Unsent
  <2> QED
    BY <2>1, <2>2
<1>5. \A id \in recorded : LastSent(id) = entries[id].sent
  <2> SUFFICES ASSUME NEW id \in recorded PROVE LastSent(id) = entries[id].sent
    OBVIOUS
  <2> DEFINE n == entries[id].sent
  <2>1. n \in At(id, "sent") /\ \A i \in At(id, "sent") : i <= n
    BY <1>1, <1>2, <1>3 DEF Traced, Latest
  <2>2. At(id, "sent") \in SUBSET Int
    BY <1>2
  <2> QED
    BY <2>1, <2>2, MaxIs
<1> HIDE DEF LastSent
<1>6. ASSUME NEW id \in recorded, NEW kind, NEW k,
             Latest(frames, read, entries[id].sent, kind, id, k)
      PROVE  After(id, kind) = k
  <2> DEFINE T == {0} \cup {i \in At(id, kind) : i > LastSent(id)}
  <2>1. entries[id].sent \in 1 .. read
    BY <1>3 DEF Traced
  <2>2. \A i : i \in T <=> i = 0 \/ (i \in entries[id].sent + 1 .. read
                                       /\ frames[i] = Report(kind, id))
    BY <1>1, <1>2, <1>5, <2>1
  <2>3. T \in SUBSET Int /\ k \in T
    BY <1>1, <1>6, <2>1, <2>2 DEF Latest
  <2>4. \A i \in T : i <= k
    BY <1>1, <1>6, <2>1, <2>2 DEF Latest
  <2> QED
    BY <2>3, <2>4, MaxIs
<1> HIDE DEF After
<1>7. \A id \in recorded : /\ After(id, "response") = entries[id].response
                            /\ After(id, "finished") = entries[id].finished
  BY <1>3, <1>6 DEF Traced
<1> DEFINE order == Sorted(recorded, rank)
<1>8. order = Sorted(ids, place)
  <2>1. \A a, b \in recorded : rank[a] < rank[b] <=> place[a] < place[b]
    BY <1>4, <1>5 DEF LogInv, LogOf
  <2> HIDE DEF recorded, ids, rank, place
  <2> QED
    BY <1>4, <2>1, SortedSame
<1>9. \A i \in 1 .. Len(order) : order[i] \in recorded
  <2>1. IsFiniteSet(recorded)
    BY RecorderAssumption, FS_Subset
  <2>2. \A a \in recorded : rank[a] \in 0 .. seq
    BY <1>3 DEF Traced, Entry, LogInv, LogTypes
  <2>3. \A a, b \in recorded : rank[a] = rank[b] => a = b
    <3> SUFFICES ASSUME NEW a \in recorded, NEW b \in recorded, rank[a] = rank[b]
                 PROVE  a = b
      OBVIOUS
    <3>1. /\ entries[a].sent \in 1 .. read /\ entries[b].sent \in 1 .. read
          /\ frames[entries[a].sent] = Report("sent", a)
          /\ frames[entries[b].sent] = Report("sent", b)
          /\ entries[a].seq \in Nat /\ entries[b].seq \in Nat
      BY <1>3 DEF Traced, Latest, Entry
    <3>2. /\ ~(entries[a].sent < entries[b].sent)
          /\ ~(entries[b].sent < entries[a].sent)
      BY <3>1 DEF LogInv, LogOf
    <3>3. entries[a].sent = entries[b].sent
      BY <3>1, <3>2
    <3> QED
      BY <3>1, <3>3, ReportParts
  <2>4. seq \in Nat
    BY DEF LogInv, LogTypes
  <2> HIDE DEF recorded, rank
  <2>5. Orders(order, recorded, rank)
    BY <2>1, <2>2, <2>3, <2>4, SortedOrders
  <2> HIDE DEF order
  <2> QED
    BY <2>1, <2>5, FS_CardinalityType DEF Orders, SetToSeqs
<1>10. InOrder(entries) =
         [i \in 1 .. Len(order) |->
            [id |-> order[i], sent |-> entries[order[i]].sent,
             response |-> entries[order[i]].response,
             finished |-> entries[order[i]].finished]]
  BY DEF InOrder
<1>11. Replay(log) =
         [i \in 1 .. Len(order) |->
            [id |-> order[i], sent |-> LastSent(order[i]),
             response |-> After(order[i], "response"),
             finished |-> After(order[i], "finished")]]
  BY <1>8 DEF Replay, At, LastSent, After
<1> HIDE DEF order, recorded
<1> QED
  BY <1>5, <1>7, <1>9, <1>10, <1>11 DEF log

----------------------------------------------------------------------------
(* The log is faithful whatever create, the browser and the DELETEs do.    *)

\* Before the recorder has started nothing is recorded.
LEMMA InitLogInv == Init => LogInv
<1> SUFFICES ASSUME Init PROVE LogInv
  OBVIOUS
<1>1. LogTypes
  BY DEF Init, LogTypes
<1>2. LogOf(frames, read, seq, entries)
  BY DEF Init, LogOf, Unsent
<1> QED
  BY <1>1, <1>2 DEF LogInv

\* Only Receive touches the log; the page and Attach add frames to come.
LEMMA NextLogInv == LogInv /\ [Next]_vars => LogInv'
<1> SUFFICES ASSUME LogInv, [Next]_vars PROVE LogInv'
  OBVIOUS
<1>1. ASSUME Browse PROVE LogInv'
  <2>1. PICK id \in Ids, kind \in {"sent", "response", "finished"} :
          /\ frames' = Append(frames, [kind |-> kind, id |-> id])
          /\ UNCHANGED <<entries, seq, read>>
    BY <1>1
       DEF Browse, PageSends, PageGetsResponse, PageFinishes, PageStep, logVars
  <2>2. [kind |-> kind, id |-> id] \in Frames
    BY DEF Frames
  <2> QED
    BY <2>1, <2>2, LogStays
<1>2. ASSUME Start PROVE LogInv'
  <2>1. UNCHANGED <<entries, seq, read>>
    BY <1>2 DEF Start, DialRefused, DialFound, Dialed, Accepted, NotAccepted,
                Attach, AttachFails, SetRecorder, Created, CreateStep
  <2>2. frames' = frames \/ frames' = Append(frames, [kind |-> "attached"])
    BY <1>2 DEF Start, DialRefused, DialFound, Dialed, Accepted, NotAccepted,
                Attach, AttachFails, SetRecorder, Created, browserVars
  <2>3. [kind |-> "attached"] \in Frames
    BY DEF Frames
  <2> QED
    BY <2>1, <2>2, <2>3, LogStays
<1>3. ASSUME Receive PROVE LogInv'
  BY <1>3, LogGrows
<1>4. ASSUME UNCHANGED <<entries, seq, read, frames>> PROVE LogInv'
  BY <1>4, LogStays
<1>5. ASSUME EndRead PROVE LogInv'
  BY <1>4, <1>5 DEF EndRead, browserVars
<1>6. ASSUME NEW d \in Deleters,
             Lookup(d) \/ RemoveSession(d) \/ Release(d) \/ Forward(d) \/ Cancel(d)
      PROVE  LogInv'
  BY <1>4, <1>6
     DEF Lookup, RemoveSession, Release, Forward, Cancel, FindRecorder,
       FindNone, CloseConn, AwaitReader, WriteFile, CloseAgain, Stop, DeleteStep, logVars
<1>7. CASE UNCHANGED vars
  BY <1>4, <1>7 DEF vars, logVars, browserVars
<1> QED
  BY <1>1, <1>2, <1>3, <1>5, <1>6, <1>7 DEF Next

\* For any number of requests, redirects and frames: a HAR file holds one entry
\* for each request that was seen to be sent, made of its last sending and the
\* last answer to that, in the order of these sendings, and nothing else.
THEOREM FileIsFaithful == Spec => []FileFaithful
<1>1. HInv /\ LogInv => FileFaithful
  BY ReplayIs DEF HInv, CloseOrders, FileFaithful
<1> QED
  BY <1>1, InitHInv, NextHInv, InitLogInv, NextLogInv, PTL DEF Spec

\* create's token is not yet there while create runs.
Types ==
    /\ create \in {"recording", "dialing", "handshaking", "attaching", "setting",
                   "counting", "created"}
    /\ conn \in {"none", "open", "closed"}
    /\ reader \in {"none", "reading", "ended"}
    /\ closed \in {"fresh", "running", "done"}
    /\ pc \in [Deleters -> BeforeRelease \cup PastRelease]
    /\ used \in 0 .. (IF create = "created" THEN 2 ELSE 1)

\* The initial values have their types.
LEMMA InitTypes == Init => Types
BY DEF Init, Types, BeforeRelease

\* No step leaves the types.
LEMMA NextTypes == Types /\ [Next]_vars => Types'
<1> SUFFICES ASSUME Types, [Next]_vars PROVE Types'
  OBVIOUS
<1> USE DEF Types, BeforeRelease, PastRelease
<1>1. ASSUME Browse PROVE Types'
  BY <1>1 DEF Browse, PageSends, PageGetsResponse, PageFinishes, PageStep,
              sessionVars, logVars
<1>2. ASSUME Start PROVE Types'
  BY <1>2 DEF Start, DialRefused, DialFound, Dialed, Accepted, NotAccepted,
              Attach, AttachFails, SetRecorder, Created, CreateStep, browserVars
<1>3. ASSUME Receive \/ EndRead PROVE Types'
  BY <1>3 DEF Receive, EndRead, sessionVars, browserVars
<1>4. ASSUME NEW d \in Deleters,
             Lookup(d) \/ RemoveSession(d) \/ Release(d) \/ Forward(d) \/ Cancel(d)
      PROVE  Types'
  <2> USE DEF DeleteStep, Goto, logVars
  <2>1. CASE Lookup(d)
    BY <2>1 DEF Lookup
  <2>2. CASE RemoveSession(d)
    BY <2>2 DEF RemoveSession
  <2>3. CASE Release(d)
    BY <2>3 DEF Release
  <2>4. CASE Forward(d)
    BY <2>4 DEF Forward
  <2>5. CASE FindRecorder(d)
    BY <2>5 DEF FindRecorder
  <2>6. CASE FindNone(d)
    BY <2>6 DEF FindNone
  <2>7. CASE CloseConn(d)
    BY <2>7 DEF CloseConn
  <2>8. CASE AwaitReader(d)
    BY <2>8 DEF AwaitReader
  <2>9. CASE WriteFile(d)
    BY <2>9 DEF WriteFile
  <2>10. CASE CloseAgain(d)
    BY <2>10 DEF CloseAgain
  <2>11. CASE Stop(d)
    BY <2>11 DEF Stop
  <2> QED
    BY <1>4, <2>1, <2>2, <2>3, <2>4, <2>5, <2>6, <2>7, <2>8, <2>9, <2>10, <2>11
       DEF Cancel
<1>5. CASE UNCHANGED vars
  BY <1>5 DEF vars, sessionVars, logVars, browserVars
<1> QED
  BY <1>1, <1>2, <1>3, <1>4, <1>5 DEF Next

\* Every variable keeps its type, and an entry's places are places of frames
\* that were received, the answers after the request.
THEOREM TypeCorrect == Spec => []TypeOK
<1>1. Types /\ LogInv => TypeOK
  <2> SUFFICES ASSUME Types, LogInv PROVE TypeOK
    OBVIOUS
  <2>1. used \in 0 .. 2
    BY DEF Types
  <2>2. ASSUME NEW id \in Ids, entries[id] # NoEntry
        PROVE  /\ entries[id].seq \in 0..(seq - 1)
               /\ entries[id].sent \in 1..read
               /\ entries[id].response \in {0} \cup entries[id].sent + 1 .. read
               /\ entries[id].finished \in {0} \cup entries[id].sent + 1 .. read
    <3>1. Traced(frames, read, seq, id, entries[id]) /\ seq \in Nat
      BY <2>2 DEF LogInv, LogOf, LogTypes
    <3>2. entries[id].seq \in Nat
      BY <3>1 DEF Traced, Entry
    <3> QED
      BY <3>1, <3>2 DEF Traced, Latest
  <2> QED
    BY <2>1, <2>2 DEF TypeOK, Types, LogInv, LogTypes
<1> QED
  BY <1>1, InitTypes, NextTypes, InitLogInv, NextLogInv, PTL DEF Spec

----------------------------------------------------------------------------
(* What CloseEnds rests on: nobody waits in Close for a thing that is over. *)

\* The first caller of Close waits for a reader whose socket is closed, a later
\* one for a first that is still at work.
CloseWaitsForWork ==
    \A d \in Deleters :
        /\ pc[d] = "awaiting" =>
             reader = "ended" \/ (reader = "reading" /\ conn = "closed")
        /\ pc[d] = "closing" /\ closed \notin {"fresh", "done"} =>
             \E e \in Deleters : pc[e] \in {"awaiting", "writing"}

\* One DELETE alone closes; the reader it waits for has been started.
WaitInv ==
    /\ \A d \in Deleters : pc[d] = "awaiting" => conn = "closed"
    /\ \A d \in Deleters : pc[d] \in {"awaiting", "writing"} => closed = "running"
    /\ \A d, e \in Deleters :
         pc[d] \in {"awaiting", "writing"} /\ pc[e] \in {"awaiting", "writing"} => d = e
    /\ closed = "running" =>
         \E d \in Deleters : pc[d] \in {"awaiting", "writing"}
    /\ create = "setting" \/ recorder => reader \in {"reading", "ended"}

\* At first nobody is in Close.
LEMMA InitWaitInv == Init => WaitInv
BY DEF Init, WaitInv

\* Only the caller that finds the recorder open closes it, and only Close waits.
LEMMA NextWaitInv == HInv /\ WaitInv /\ [Next]_vars => WaitInv'
<1> SUFFICES ASSUME HInv, WaitInv, [Next]_vars PROVE WaitInv'
  OBVIOUS
<1> USE DEF HInv, WaitInv, RecorderOrders
<1>1. ASSUME Browse PROVE WaitInv'
  BY <1>1 DEF Browse, PageSends, PageGetsResponse, PageFinishes, PageStep,
              sessionVars, logVars
<1>2. ASSUME Start PROVE WaitInv'
  BY <1>2 DEF Start, DialRefused, DialFound, Dialed, Accepted, NotAccepted,
              Attach, AttachFails, SetRecorder, Created, CreateStep, browserVars
<1>3. ASSUME Receive \/ EndRead PROVE WaitInv'
  BY <1>3 DEF Receive, EndRead, sessionVars, browserVars
<1>4. ASSUME NEW d \in Deleters,
             Lookup(d) \/ RemoveSession(d) \/ Release(d) \/ Forward(d) \/ Cancel(d)
      PROVE  WaitInv'
  <2> USE DEF DeleteStep, Goto, logVars
  <2>1. CASE Lookup(d)
    BY <2>1 DEF Lookup
  <2>2. CASE RemoveSession(d)
    BY <2>2 DEF RemoveSession
  <2>3. CASE Release(d)
    BY <2>3 DEF Release
  <2>4. CASE Forward(d)
    BY <2>4 DEF Forward
  <2>5. CASE FindRecorder(d)
    BY <2>5 DEF FindRecorder
  <2>6. CASE FindNone(d)
    BY <2>6 DEF FindNone
  <2>7. CASE CloseConn(d)
    BY <2>7 DEF CloseConn
  <2>8. CASE AwaitReader(d)
    BY <2>8 DEF AwaitReader
  <2>9. CASE WriteFile(d)
    BY <2>9 DEF WriteFile
  <2>10. CASE CloseAgain(d)
    BY <2>10 DEF CloseAgain
  <2>11. CASE Stop(d)
    BY <2>11 DEF Stop
  <2> QED
    BY <1>4, <2>1, <2>2, <2>3, <2>4, <2>5, <2>6, <2>7, <2>8, <2>9, <2>10, <2>11
       DEF Cancel
<1>5. CASE UNCHANGED vars
  BY <1>5 DEF vars, sessionVars, logVars, browserVars
<1> QED
  BY <1>1, <1>2, <1>3, <1>4, <1>5 DEF Next

\* Two Closes never write at once, and neither waits for a reader that was never
\* started, for a socket that stays open, or for a Close that has given up.
THEOREM CloseNeverStuck == Spec => []CloseWaitsForWork
<1>1. HInv /\ WaitInv /\ Types => CloseWaitsForWork
  BY DEF HInv, WaitInv, RecorderOrders, Types, CloseWaitsForWork
<1> QED
  BY <1>1, InitHInv, NextHInv, InitWaitInv, NextWaitInv, InitTypes, NextTypes,
     PTL DEF Spec

=============================================================================
