-------------------------- MODULE NewSessionProofs --------------------------
(***************************************************************************)
(* Proofs about NewSession, for any -retry-count and any number of         *)
(* firstMatch candidates: the slot is settled once, no browser or recorder *)
(* is left running, the files are put away and the recorder stops first.   *)
(***************************************************************************)
EXTENDS NewSession, TLAPS

USE NewSessionAssumption

\* Attempts before the fallback: the first is made whatever -retry-count says.
MostAttempts == IF RetryCount = 0 THEN 1 ELSE RetryCount

Starting == {"creating", "starting", "preparing", "videoCreating",
             "videoStarting", "waiting", "killingVideo", "removingVideo",
             "removing", "removingAll"}
Stopping == {"killingVideo", "removingVideo", "copyingLogs", "removing"}

\* Where the service stands follows from where create, or the deletion, does.
InStep ==
    /\ pc \in {"reading", "matching"} => svc = "idle" /\ ~cancelling
    /\ pc = "starting" =>
         svc \in Starting \cup {"failed", "running"} /\ ~cancelling
    /\ pc \in {"joining", "posting", "answered", "putting", "dropping", "live"}
        => svc = "running" /\ ~cancelling
    /\ pc \in {"cleaning", "renaming"}
        => svc \in Stopping \cup {"running", "stopped"} /\ cancelling
    /\ pc = "failed" => svc \in {"idle", "failed", "stopped"}
    /\ pc = "failed" /\ cancelling => svc = "stopped"
    /\ pc = "done" => svc = "stopped" /\ cancelling

\* Which token the request has follows too, until the session is put: then
\* create counts it as used sooner or later.
TokenOf ==
    /\ pc \in {"cleaning", "failed"} => pending = 0 /\ used = 0
    /\ pc \in {"live", "renaming", "done"} => pending + used = 1
    /\ pc \notin {"cleaning", "failed", "live", "renaming", "done"} =>
         pending = 1 /\ used = 0

\* The fallback is taken once, and each attempt joins the path once.
AttemptsCounted ==
    /\ base = "" => attempt <= MostAttempts
    /\ pc \in {"reading", "matching", "starting", "joining"} => hops < attempt

\* What each call of the service finds made before it.
MadeSoFar ==
    /\ svc \in {"idle", "creating"} => browser = "none"
    /\ svc \in {"idle", "creating", "starting", "preparing", "videoCreating"}
        => video = "none"
    /\ svc \in {"videoStarting", "removingAll"} => video = "created"
    /\ svc \in {"copyingLogs", "removing"} => refused \/ ~Exists(video)

\* Files are gone after they were put away, or have resisted.
PutAwayOnce ==
    pc \in {"failed", "done"} /\ cancelling => refused \/ (~tmpVideo /\ ~tmpLog)

\* The inductive invariant.
IInv ==
    /\ TypeOK /\ InStep /\ TokenOf /\ AttemptsCounted
    /\ MadeSoFar /\ NothingLeftRunning /\ PutAwayOnce

\* There is at least one attempt, and never fewer than -retry-count.
LEMMA AtLeastOne ==
    MostAttempts \in Nat /\ 1 <= MostAttempts /\ RetryCount <= MostAttempts
BY DEF MostAttempts

\* A request that the queue has just handed to create meets the invariant.
LEMMA InitIInv == Init => IInv
<1> SUFFICES ASSUME Init PROVE IInv
  OBVIOUS
<1> USE DEF Init, ServiceInit
<1>1. TypeOK
  <2>1. ServiceTypeOK
    BY DEF ServiceTypeOK, SvcStates, ContainerStates
  <2>2. left \in 0 .. MaxCandidates /\ attempt \in 1 .. MostAttempts + 1
    BY DEF MostAttempts
  <2> QED
    BY <2>1, <2>2 DEF TypeOK, States, MostAttempts
<1>2. InStep /\ TokenOf
  BY DEF InStep, TokenOf
<1>3. AttemptsCounted
  <2>1. attempt <= MostAttempts /\ hops < attempt
    BY AtLeastOne
  <2> QED
    BY <2>1 DEF AttemptsCounted
<1>4. MadeSoFar /\ NothingLeftRunning /\ PutAwayOnce
  BY DEF MadeSoFar, NothingLeftRunning, PutAwayOnce, Exists
<1> QED
  BY <1>1, <1>2, <1>3, <1>4 DEF IInv

\* What the service does by itself: nothing it made is forgotten.
LEMMA ServiceMakes ==
    ASSUME ServiceTypeOK, MadeSoFar, NothingLeftRunning,
           ServiceStep \/ Dies
    PROVE  ServiceTypeOK' /\ MadeSoFar' /\ NothingLeftRunning'
<1> USE DEF ServiceTypeOK, MadeSoFar, NothingLeftRunning, SvcStates,
            ContainerStates, Exists, Wants
<1>1. CASE CreateContainer \/ StartContainer \/ StartProcess
  BY <1>1 DEF CreateContainer, StartContainer, StartProcess, Fails
<1>2. CASE Prepare \/ PrepareFails
  BY <1>2 DEF Prepare, PrepareFails, Fails
<1>3. CASE CreateVideo \/ StartVideo
  BY <1>3 DEF CreateVideo, StartVideo, Fails
<1>4. CASE Answers \/ TimesOut
  BY <1>4 DEF Answers, TimesOut
<1>5. CASE Stop
  BY <1>5 DEF Stop
<1>6. CASE KillVideo
  BY <1>6 DEF KillVideo, AfterVideo
<1>7. CASE RemoveVideo
  BY <1>7 DEF RemoveVideo, Removes, AfterVideo
<1>8. CASE CopyLogs
  BY <1>8 DEF CopyLogs
<1>9. CASE Remove
  BY <1>9 DEF Remove, Removes, Ended
<1>10. CASE RemoveAll
  BY <1>10 DEF RemoveAll
<1>11. CASE Dies
  BY <1>11 DEF Dies
<1> QED
  BY <1>1, <1>2, <1>3, <1>4, <1>5, <1>6, <1>7, <1>8, <1>9, <1>10, <1>11
     DEF ServiceStep

\* The service never leaves the part of its course the handler has it in.
LEMMA ServiceStays ==
    ASSUME IInv, ServiceStep, UNCHANGED <<pc, handlerVars>>
    PROVE  InStep' /\ PutAwayOnce'
<1> USE DEF IInv, InStep, PutAwayOnce, Starting, Stopping, TypeOK, States
<1>1. CASE CreateContainer \/ StartContainer \/ StartProcess
  <2>1. pc = "starting" /\ ~cancelling
    BY <1>1 DEF CreateContainer, StartContainer, StartProcess, Fails
  <2>2. pc' = pc /\ cancelling' = cancelling
        /\ svc' \in {"starting", "failed", "preparing", "removing", "waiting"}
    BY <1>1 DEF CreateContainer, StartContainer, StartProcess, Fails
  <2> QED
    BY <2>1, <2>2
<1>2. CASE Prepare \/ PrepareFails
  BY <1>2 DEF Prepare, PrepareFails, Fails
<1>3. CASE CreateVideo \/ StartVideo
  BY <1>3 DEF CreateVideo, StartVideo, Fails
<1>4. CASE Answers \/ TimesOut
  BY <1>4 DEF Answers, TimesOut
<1>5. CASE Stop
  BY <1>5 DEF Stop
<1>6. CASE KillVideo \/ RemoveVideo
  BY <1>6 DEF KillVideo, RemoveVideo, AfterVideo
<1>7. CASE CopyLogs \/ Remove \/ RemoveAll
  BY <1>7 DEF CopyLogs, Remove, RemoveAll, Ended
<1> QED
  BY <1>1, <1>2, <1>3, <1>4, <1>5, <1>6, <1>7 DEF ServiceStep

\* The handler's own steps leave alone what the service has made.
LEMMA ServiceSame ==
    ASSUME ServiceTypeOK, MadeSoFar, NothingLeftRunning,
           UNCHANGED <<want, browser, video>>,
           cancelling' \in BOOLEAN, tmpVideo' \in BOOLEAN, tmpLog' \in BOOLEAN,
           refused' \in BOOLEAN, refused => refused',
           \/ svc' = svc
           \/ svc = "idle" /\ svc' = "creating"
           \/ svc = "creating" /\ svc' = "failed"
    PROVE  ServiceTypeOK' /\ MadeSoFar' /\ NothingLeftRunning'
<1>1. ServiceTypeOK'
  BY DEF ServiceTypeOK, SvcStates
<1>2. MadeSoFar'
  BY DEF MadeSoFar, Exists
<1>3. NothingLeftRunning'
  BY DEF MadeSoFar, NothingLeftRunning, Exists
<1> QED
  BY <1>1, <1>2, <1>3

\* Every step keeps the invariant, one case for each kind of exit or call.
LEMMA NextIInv == IInv /\ [Next]_vars => IInv'
<1> SUFFICES ASSUME IInv, [Next]_vars PROVE IInv'
  OBVIOUS
<1> USE DEF IInv
<1> DEFINE Made == ServiceTypeOK /\ MadeSoFar /\ NothingLeftRunning
           Place == pc \in States /\ InStep /\ PutAwayOnce
           Slot == pending \in 0 .. 1 /\ used \in 0 .. 1 /\ TokenOf
           Tries == /\ left \in 0 .. MaxCandidates
                    /\ base \in Bases
                    /\ attempt \in 1 .. MostAttempts + 1
                    /\ hops \in 0 .. attempt
                    /\ AttemptsCounted
<1>a. Made /\ Place /\ Slot /\ Tries
  BY DEF TypeOK, MostAttempts
<1>b. ASSUME Made', Place', Slot', Tries' PROVE IInv'
  BY <1>b DEF TypeOK, MostAttempts
<1>c. cancelling \in BOOLEAN /\ tmpVideo \in BOOLEAN /\ tmpLog \in BOOLEAN
      /\ refused \in BOOLEAN
  BY <1>a DEF ServiceTypeOK
<1>1. CASE Service \/ BrowserDies
  <2>1. Made'
    BY <1>1, <1>a, ServiceMakes DEF Service, BrowserDies
  <2>2. Place'
    <3>1. CASE Service
      BY <3>1, <1>a, ServiceStays DEF Service, handlerVars
    <3>2. CASE BrowserDies
      BY <3>2, <1>a DEF BrowserDies, Dies, InStep, PutAwayOnce
    <3> QED
      BY <1>1, <3>1, <3>2
  <2>3. Slot' /\ Tries'
    BY <1>1, <1>a
       DEF Service, BrowserDies, handlerVars, TokenOf, AttemptsCounted
  <2> QED
    BY <2>1, <2>2, <2>3, <1>b
<1>2. CASE BadRequest \/ BadCapability \/ NotAvailable \/ StartFailed
  <2> USE DEF BadRequest, BadCapability, NotAvailable, StartFailed, Refuse,
              svcVars, handlerVars
  <2>1. Made'
    BY <1>2, <1>a, <1>c, ServiceSame
  <2>2. Place'
    BY <1>2, <1>a DEF States, InStep, Starting, Stopping, PutAwayOnce
  <2>3. Slot'
    BY <1>2, <1>a DEF States, TokenOf
  <2>4. Tries'
    BY <1>2, <1>a DEF States, Bases, AttemptsCounted, MostAttempts, WdHub
  <2> QED
    BY <2>1, <2>2, <2>3, <2>4, <1>b
<1>3. CASE Parse \/ Started \/ HasId \/ Put \/ HasNoId \/ Answer
  <2> USE DEF Parse, Started, HasId, Put, HasNoId, Answer, svcVars, handlerVars
  <2>1. Made'
    BY <1>3, <1>a, <1>c, ServiceSame
  <2>2. Place'
    BY <1>3, <1>a DEF States, InStep, Starting, Stopping, PutAwayOnce
  <2>3. Slot'
    BY <1>3, <1>a DEF States, TokenOf
  <2>4. Tries'
    BY <1>3, <1>a DEF States, Bases, AttemptsCounted, MostAttempts, WdHub
  <2> QED
    BY <2>1, <2>2, <2>3, <2>4, <1>b
<1>4. CASE Found \/ Misconfigured
  <2> USE DEF Found, Misconfigured, svcVars, handlerVars
  <2>1. Made'
    BY <1>4, <1>a, <1>c, ServiceSame DEF InStep
  <2>2. Place'
    BY <1>4, <1>a DEF States, InStep, Starting, Stopping, PutAwayOnce
  <2>3. Slot'
    BY <1>4, <1>a DEF States, TokenOf
  <2>4. Tries'
    BY <1>4, <1>a DEF States, Bases, AttemptsCounted, MostAttempts, WdHub
  <2> QED
    BY <2>1, <2>2, <2>3, <2>4, <1>b
<1>5. CASE NextCandidate
  <2> USE DEF NextCandidate, svcVars, handlerVars
  <2>1. Made'
    BY <1>5, <1>a, <1>c, ServiceSame
  <2>2. Place'
    BY <1>5, <1>a DEF States, InStep, Starting, Stopping, PutAwayOnce
  <2>3. Slot'
    BY <1>5, <1>a DEF States, TokenOf
  <2>4. Tries'
    <3>1. left' \in 0 .. MaxCandidates
      BY <1>5, <1>a
    <3>2. pc' = pc /\ UNCHANGED <<base, hops, attempt>>
      BY <1>5
    <3> QED
      BY <3>1, <3>2, <1>a DEF AttemptsCounted
  <2> QED
    BY <2>1, <2>2, <2>3, <2>4, <1>b
<1>6. CASE Post
  <2> USE DEF Post, svcVars, handlerVars
  <2>1. Made'
    BY <1>6, <1>a, <1>c, ServiceSame
  <2>2. Place'
    BY <1>6, <1>a DEF States, InStep, Starting, Stopping, PutAwayOnce
  <2>3. Slot'
    BY <1>6, <1>a DEF States, TokenOf
  <2>4. Tries'
    <3>1. pc' = "posting" /\ UNCHANGED <<left, base, attempt>>
      BY <1>6
    <3>2. hops < attempt /\ pc = "joining"
      BY <1>6, <1>a DEF AttemptsCounted
    <3>3. WdHub(base) \in {0, 1} /\ hops' = hops + WdHub(base)
      BY <1>6 DEF WdHub
    <3>4. hops' \in 0 .. attempt'
      BY <3>1, <3>2, <3>3, <1>a
    <3> QED
      BY <3>1, <3>4, <1>a DEF AttemptsCounted
  <2> QED
    BY <2>1, <2>2, <2>3, <2>4, <1>b
<1>7. CASE Retry
  <2> USE DEF Retry, svcVars, handlerVars
  <2>1. Made'
    BY <1>7, <1>a, <1>c, ServiceSame
  <2>2. Place'
    BY <1>7, <1>a DEF States, InStep, Starting, Stopping, PutAwayOnce
  <2>3. Slot'
    BY <1>7, <1>a DEF States, TokenOf
  <2>4. Tries'
    <3>1. pc' = "joining" /\ UNCHANGED <<left, base, hops>>
      BY <1>7
    <3>2. attempt' = attempt + 1 /\ attempt < RetryCount
      BY <1>7
    <3>3. /\ attempt' \in 1 .. MostAttempts + 1 /\ attempt' <= MostAttempts
          /\ hops' \in 0 .. attempt' /\ hops' < attempt'
      BY <3>1, <3>2, <1>a, AtLeastOne
    <3> QED
      BY <3>1, <3>3, <1>a DEF AttemptsCounted
  <2> QED
    BY <2>1, <2>2, <2>3, <2>4, <1>b
<1>8. CASE FallBack
  <2> USE DEF FallBack, svcVars, handlerVars
  <2>1. Made'
    BY <1>8, <1>a, <1>c, ServiceSame
  <2>2. Place'
    BY <1>8, <1>a DEF States, InStep, Starting, Stopping, PutAwayOnce
  <2>3. Slot'
    BY <1>8, <1>a DEF States, TokenOf
  <2>4. Tries'
    <3>1. pc' = "joining" /\ base' = "/wd/hub" /\ UNCHANGED <<left, hops>>
      BY <1>8
    <3>2. attempt' = attempt + 1 /\ attempt <= MostAttempts
      BY <1>8, <1>a DEF AttemptsCounted
    <3>3. /\ attempt' \in 1 .. MostAttempts + 1
          /\ hops' \in 0 .. attempt' /\ hops' < attempt'
      BY <3>1, <3>2, <1>a, AtLeastOne
    <3> QED
      BY <3>1, <3>3, <1>a DEF AttemptsCounted, Bases
  <2> QED
    BY <2>1, <2>2, <2>3, <2>4, <1>b
<1>9. CASE AttemptFails \/ BadBody \/ DropNoId
  <2> USE DEF AttemptFails, BadBody, DropNoId, DropAndCancel, svcVars, handlerVars
  <2>1. Made'
    BY <1>9, <1>a, <1>c, ServiceSame
  <2>2. Place'
    BY <1>9, <1>a DEF States, InStep, Starting, Stopping, PutAwayOnce
  <2>3. Slot'
    BY <1>9, <1>a DEF States, TokenOf
  <2>4. Tries'
    BY <1>9, <1>a DEF States, Bases, AttemptsCounted, MostAttempts, WdHub
  <2> QED
    BY <2>1, <2>2, <2>3, <2>4, <1>b
<1>10. CASE Create \/ Delete
  <2> USE DEF Create, Delete, svcVars, handlerVars
  <2>1. Made'
    BY <1>10, <1>a, <1>c, ServiceSame
  <2>2. Place'
    BY <1>10, <1>a DEF States, InStep, Starting, Stopping, PutAwayOnce
  <2>3. Slot'
    BY <1>10, <1>a DEF States, TokenOf
  <2>4. Tries'
    BY <1>10, <1>a DEF States, Bases, AttemptsCounted, MostAttempts, WdHub
  <2> QED
    BY <2>1, <2>2, <2>3, <2>4, <1>b
<1>11. CASE CleanUp \/ RenameFiles
  <2> USE DEF CleanUp, RenameFiles, PutAway, svcVars, handlerVars
  <2>1. Made'
    BY <1>11, <1>a, <1>c, ServiceSame
  <2>2. Place'
    BY <1>11, <1>a DEF States, InStep, Starting, Stopping, PutAwayOnce
  <2>3. Slot'
    BY <1>11, <1>a DEF States, TokenOf
  <2>4. Tries'
    BY <1>11, <1>a DEF States, Bases, AttemptsCounted, MostAttempts, WdHub
  <2> QED
    BY <2>1, <2>2, <2>3, <2>4, <1>b
<1>12. CASE UNCHANGED vars
  <2> USE DEF vars, svcVars, handlerVars
  <2>1. Made'
    BY <1>12, <1>a, <1>c, ServiceSame
  <2>2. Place'
    BY <1>12, <1>a DEF States, InStep, Starting, Stopping, PutAwayOnce
  <2>3. Slot'
    BY <1>12, <1>a DEF States, TokenOf
  <2>4. Tries'
    BY <1>12, <1>a DEF States, Bases, AttemptsCounted, MostAttempts, WdHub
  <2> QED
    BY <2>1, <2>2, <2>3, <2>4, <1>b
<1> QED
  BY <1>1, <1>2, <1>3, <1>4, <1>5, <1>6, <1>7, <1>8, <1>9, <1>10, <1>11, <1>12
     DEF Next, Handle

----------------------------------------------------------------------------
\* The invariant holds in every state a request and its session go through.
THEOREM Invariance == Spec => []IInv
BY InitIInv, NextIInv, PTL DEF Spec

\* Every variable keeps its type; the attempts stay within -retry-count and one
\* fallback, so a browser that does not answer holds its slot for so long only.
THEOREM TypeCorrect == Spec => []TypeOK
BY Invariance, PTL DEF IInv

\* On every way through create, however soon the session is deleted, the slot is
\* settled once, for any -retry-count.
THEOREM SlotIsSettled == Spec => []SlotSettled
<1>1. IInv => SlotSettled
  BY DEF IInv, TokenOf, SlotSettled
<1> QED
  BY <1>1, Invariance, PTL

\* StartWithCancel that fails, and Cancel, leave nothing running that Docker or
\* the system has not refused to stop.
THEOREM NothingIsLeft == Spec => []NothingLeftRunning
BY Invariance, PTL DEF IInv

\* A session that was started leaves neither files with temporary names nor
\* containers when it is over.
THEOREM FilesArePutAway == Spec => []FilesPutAway
<1>1. IInv => FilesPutAway
  BY DEF IInv, InStep, PutAwayOnce, NothingLeftRunning, FilesPutAway
<1> QED
  BY <1>1, Invariance, PTL

\* No step of the hub takes the browser from under a running recorder.
THEOREM RecorderIsFirst == Spec => RecorderStopsFirst
<1>1. IInv /\ [Next]_vars =>
        [browser = "running" /\ browser' = "gone" /\ svc' # svc
            => video # "running" \/ refused]_svcVars
  <2> SUFFICES ASSUME IInv, [Next]_vars, browser = "running", browser' = "gone",
                      svc' # svc
               PROVE  video # "running" \/ refused
    OBVIOUS
  <2>1. Service
    BY DEF Next, Handle, BrowserDies, Dies, vars, svcVars, BadRequest, Refuse,
       Parse, BadCapability, NextCandidate, NotAvailable, Found, Misconfigured,
       StartFailed, Started, Post, Retry, AttemptFails, FallBack, Answer, HasId,
       BadBody, HasNoId, DropNoId, DropAndCancel, CleanUp, Put, Create,
       RenameFiles, PutAway, Delete
  <2>2. svc \in {"removing", "removingAll"}
    BY <2>1 DEF Service, ServiceStep, CreateContainer, StartContainer, Prepare,
       PrepareFails, CreateVideo, StartVideo, StartProcess, Answers, TimesOut,
       Stop, KillVideo, RemoveVideo, CopyLogs, Remove, RemoveAll
  <2> QED
    BY <2>2 DEF IInv, MadeSoFar, Exists
<1> QED
  BY <1>1, Invariance, PTL DEF Spec, RecorderStopsFirst

----------------------------------------------------------------------------
(* How long a request can hold its slot, in steps.                         *)

\* What is ahead of the service, and of create or the deletion, from where
\* they stand: a number that every step but another attempt brings down.
SvcAhead(s) ==
    CASE s = "idle" -> 15 [] s = "creating" -> 14 [] s = "starting" -> 13
      [] s = "preparing" -> 12 [] s = "videoCreating" -> 11
      [] s = "videoStarting" -> 10 [] s = "waiting" -> 9 [] s = "running" -> 8
      [] s = "removingAll" -> 8 [] s = "killingVideo" -> 7
      [] s = "removingVideo" -> 6 [] s = "copyingLogs" -> 5
      [] s = "removing" -> 4 [] OTHER -> 0

PcAhead(p) ==
    CASE p = "reading" -> 12 [] p = "matching" -> 11 [] p = "starting" -> 10
      [] p = "joining" -> 9 [] p = "posting" -> 8 [] p = "answered" -> 7
      [] p \in {"putting", "dropping"} -> 6 [] p = "live" -> 5
      [] p \in {"cleaning", "renaming"} -> 4 [] OTHER -> 0

\* A container can still exit by itself.
Mortal(c) == IF Exists(c) THEN 1 ELSE 0

\* The most steps the request, its session and its deletion can still take.
\* Another attempt goes one place back, and there are MostAttempts + 1 of them.
StepsLeft ==
    PcAhead(pc) + pending + left + 2 * (MostAttempts + 1 - attempt)
        + 2 * SvcAhead(svc) + Mortal(browser) + Mortal(video)

\* The ranks are numbers, wherever the service and the handler stand.
LEMMA Ranks ==
    /\ \A s : SvcAhead(s) \in 0 .. 15
    /\ \A p : PcAhead(p) \in 0 .. 12
    /\ \A c : Mortal(c) \in 0 .. 1
BY DEF SvcAhead, PcAhead, Mortal

\* Each step of StartWithCancel and of Cancel leads on, never back, and makes
\* one container at most.
LEMMA ServiceLeadsOn ==
    ASSUME ServiceTypeOK, ServiceStep
    PROVE  /\ SvcAhead(svc') < SvcAhead(svc)
           /\ Mortal(browser') + Mortal(video')
                <= Mortal(browser) + Mortal(video) + 1
<1> USE DEF ServiceTypeOK, SvcAhead, Mortal, Exists, ContainerStates
<1>1. CASE CreateContainer
  BY <1>1 DEF CreateContainer
<1>a. CASE StartContainer
  BY <1>a DEF StartContainer, Fails
<1>b. CASE StartProcess
  <2>1. svc = "creating" /\ svc' \in {"waiting", "failed"} /\ video' = video
    BY <1>b DEF StartProcess
  <2> QED
    BY <2>1
<1>2. CASE Prepare \/ PrepareFails
  BY <1>2 DEF Prepare, PrepareFails, Fails
<1>3. CASE CreateVideo \/ StartVideo
  BY <1>3 DEF CreateVideo, StartVideo, Fails
<1>4. CASE Answers \/ TimesOut
  BY <1>4 DEF Answers, TimesOut
<1>5. CASE Stop
  BY <1>5 DEF Stop
<1>6. CASE KillVideo \/ RemoveVideo
  BY <1>6 DEF KillVideo, RemoveVideo, Removes, AfterVideo
<1>7. CASE CopyLogs \/ Remove \/ RemoveAll
  BY <1>7 DEF CopyLogs, Remove, RemoveAll, Removes, Ended
<1> QED
  BY <1>1, <1>a, <1>b, <1>2, <1>3, <1>4, <1>5, <1>6, <1>7 DEF ServiceStep

\* StepsLeft is a number.
LEMMA StepsLeftIsNat == IInv => StepsLeft \in Nat
<1> SUFFICES ASSUME IInv PROVE StepsLeft \in Nat
  OBVIOUS
<1>1. left \in Nat /\ pending \in Nat /\ MostAttempts + 1 - attempt \in Nat
  BY AtLeastOne DEF IInv, TypeOK, MostAttempts
<1>2. /\ SvcAhead(svc) \in Nat /\ PcAhead(pc) \in Nat
      /\ Mortal(browser) \in Nat /\ Mortal(video) \in Nat
  BY Ranks
<1> QED
  BY <1>1, <1>2 DEF StepsLeft

\* Every step brings StepsLeft down: those of the service by its own rank,
\* the death of a container by one, a candidate that no browser matches by
\* one, another attempt by two less the step back to the join.
LEMMA NextFalls ==
    ASSUME IInv, Next
    PROVE  StepsLeft' < StepsLeft
<1> DEFINE Tries == MostAttempts + 1 - attempt
           Alive == Mortal(browser) + Mortal(video)
<1>a. /\ left \in Nat /\ pending \in Nat /\ attempt \in Nat /\ MostAttempts \in Nat
      /\ Tries \in Nat /\ ServiceTypeOK
  BY AtLeastOne DEF IInv, TypeOK, MostAttempts
<1>b. /\ SvcAhead(svc) \in Nat /\ SvcAhead(svc') \in Nat
      /\ PcAhead(pc) \in Nat /\ PcAhead(pc') \in Nat
      /\ Mortal(browser) \in Nat /\ Mortal(video) \in Nat
      /\ Mortal(browser') \in Nat /\ Mortal(video') \in Nat
  BY Ranks
<1> USE <1>a, <1>b DEF StepsLeft
<1>1. CASE Service
  <2>1. UNCHANGED <<pc, pending, left, attempt>>
    BY <1>1 DEF Service, handlerVars
  <2>2. SvcAhead(svc') < SvcAhead(svc) /\ Alive' <= Alive + 1
    BY <1>1, ServiceLeadsOn DEF Service
  <2> QED
    BY <2>1, <2>2
<1>2. CASE BrowserDies
  <2>1. UNCHANGED <<pc, pending, left, attempt, svc>>
    BY <1>2 DEF BrowserDies, Dies, handlerVars
  <2>2. Alive' < Alive
    BY <1>2 DEF BrowserDies, Dies, Mortal, Exists
  <2> QED
    BY <2>1, <2>2
<1>3. CASE Found \/ Misconfigured
  <2>1. /\ UNCHANGED <<pending, left, attempt, browser, video>>
        /\ SvcAhead(svc') < SvcAhead(svc) /\ PcAhead(pc') <= PcAhead(pc)
    BY <1>3 DEF Found, Misconfigured, handlerVars, IInv, InStep, SvcAhead,
       PcAhead
  <2> QED
    BY <2>1
<1>4. CASE NextCandidate
  <2>1. UNCHANGED <<pc, pending, attempt, svc, browser, video>> /\ left' = left - 1
    BY <1>4 DEF NextCandidate, svcVars
  <2> QED
    BY <2>1
<1>5. CASE Retry \/ FallBack
  <2>1. /\ UNCHANGED <<pending, left, svc, browser, video>> /\ attempt' = attempt + 1
        /\ pc = "posting" /\ pc' = "joining"
    BY <1>5 DEF Retry, FallBack, svcVars
  <2>2. PcAhead(pc') = PcAhead(pc) + 1
    BY <2>1 DEF PcAhead
  <2> QED
    BY <2>1, <2>2
<1>6. CASE \/ BadRequest \/ Parse \/ BadCapability \/ NotAvailable
           \/ StartFailed \/ Started \/ Post \/ AttemptFails \/ Answer
           \/ HasId \/ BadBody \/ HasNoId \/ DropNoId \/ CleanUp \/ Put
           \/ RenameFiles \/ Delete
  <2>1. UNCHANGED <<left, attempt, svc, browser, video>> /\ pending' <= pending
    BY <1>6 DEF BadRequest, Parse, BadCapability, NotAvailable, StartFailed,
       Refuse, Started, Post, AttemptFails, Answer, HasId, BadBody, HasNoId,
       DropNoId, DropAndCancel, CleanUp, PutAway, Put, RenameFiles, Delete,
       svcVars, handlerVars
  <2>2. PcAhead(pc') < PcAhead(pc)
    BY <1>6 DEF BadRequest, Parse, BadCapability, NotAvailable, StartFailed,
       Refuse, Started, Post, AttemptFails, Answer, HasId, BadBody, HasNoId,
       DropNoId, DropAndCancel, CleanUp, PutAway, Put, RenameFiles, Delete,
       PcAhead
  <2>3. pending' \in Nat
    BY <1>6 DEF BadRequest, Parse, BadCapability, NotAvailable, StartFailed,
       Refuse, Started, Post, AttemptFails, Answer, HasId, BadBody, HasNoId,
       DropNoId, DropAndCancel, CleanUp, PutAway, Put, RenameFiles, Delete,
       handlerVars, IInv, TokenOf
  <2> QED
    BY <2>1, <2>2, <2>3
<1>7. CASE Create
  <2>1. UNCHANGED <<pc, left, attempt, svc, browser, video>> /\ pending' = pending - 1
    BY <1>7 DEF Create, svcVars
  <2> QED
    BY <2>1
<1> QED
  BY <1>1, <1>2, <1>3, <1>4, <1>5, <1>6, <1>7 DEF Next, Handle

\* Nothing a request does can go on for ever, for any -retry-count and any
\* number of candidates: create, the session's end and the deletion make
\* together no more than 43 + MaxCandidates + 2 * MostAttempts steps, whatever
\* fails on the way, so a slot is kept past that only while a session lives or
\* a call does not return.  This is what RequestEnds rests on besides fairness.
THEOREM EndsInSteps ==
    Spec => /\ StepsLeft <= 43 + MaxCandidates + 2 * MostAttempts
            /\ [](StepsLeft \in Nat)
            /\ [][StepsLeft' < StepsLeft]_vars
<1>1. Init => StepsLeft <= 43 + MaxCandidates + 2 * MostAttempts
  BY AtLeastOne
     DEF Init, ServiceInit, StepsLeft, PcAhead, SvcAhead, Mortal, Exists
<1>2. IInv /\ [Next]_vars => [StepsLeft' < StepsLeft]_vars
  BY NextFalls
<1> QED
  BY <1>1, <1>2, StepsLeftIsNat, Invariance, PTL DEF Spec
=============================================================================
