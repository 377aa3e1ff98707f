----------------------------- MODULE NewSession -----------------------------
(***************************************************************************)
(* One request for a new session, from the moment the queue hands it to    *)
(* create until nothing of it is left (src/websummoner.go): the checks on  *)
(* the request, the choice of a browser among the firstMatch candidates,   *)
(* the start of the browser (BrowserService), the attempts to create a     *)
(* session in it, the reading of the driver's answer, and the two ways     *)
(* out: cancelAndCleanup of a session that failed, and cancelAndRenameFiles*)
(* of one that lived and is deleted.  Every exit has to settle the slot    *)
(* the queue granted, stop the browser and put the temporary files away.   *)
(* The deletion is another goroutine and may be over before create is; its *)
(* part in the queue, a second DELETE and what create waits for after      *)
(* sessions.Put are SessionHub's subject.                                  *)
(***************************************************************************)
EXTENDS BrowserService

CONSTANTS
    RetryCount,    \* flag -retry-count
    MaxCandidates  \* most firstMatch candidates in a request

ASSUME NewSessionAssumption ==
    /\ RetryCount \in Nat
    /\ MaxCandidates \in Nat \ {0}

VARIABLES
    pc,       \* where create, or later the deletion, stands
    left,     \* firstMatch candidates not yet tried
    base,     \* u.Path: the path of the driver's endpoint
    hops,     \* how many times /wd/hub stands at the front of r.URL.Path
    attempt,  \* i, the number of the attempt
    pending,  \* this request's token in the pending channel
    used      \* the token create has sent to the used channel

vars == <<want, svc, cancelling, browser, video, tmpVideo, tmpLog, refused,
          pc, left, base, hops, attempt, pending, used>>

handlerVars == <<left, base, hops, attempt, pending, used>>

----------------------------------------------------------------------------
States == {"reading", "matching", "starting", "joining", "posting", "answered",
           "putting", "dropping", "cleaning", "failed", "live", "renaming",
           "done"}

\* Service.Path of a browser: none, a plain slash, or the usual prefix.
Bases == {"", "/", "/wd/hub"}

WdHub(b) == IF b = "/wd/hub" THEN 1 ELSE 0

Init ==
    /\ ServiceInit
    /\ pc = "reading"
    /\ left \in 1 .. MaxCandidates
    /\ base \in Bases
    /\ hops = 0
    /\ attempt = 1
    /\ pending = 1
    /\ used = 0

(* Plausible faults of this code, each to be put in place of an action.    *)

\* The error of an attempt is answered without giving the slot back.
AttemptFailsKeeps ==
    /\ pc = "posting"
    /\ pc' = "cleaning" /\ cancelling' = TRUE
    /\ UNCHANGED <<want, svc, browser, video, tmpVideo, tmpLog, refused,
                   handlerVars>>

\* Every 404 leads to another attempt, not only that of a driver with no path.
FallBackAgain ==
    /\ pc = "posting" /\ browser = "running"
    /\ base' = "/wd/hub"
    /\ attempt' = attempt + 1
    /\ pc' = "joining"
    /\ UNCHANGED <<svcVars, left, hops, pending, used>>

\* A session that failed is cancelled, and its files are forgotten.
CleanUpNothing ==
    /\ pc = "cleaning" /\ svc = "stopped"
    /\ pc' = "failed"
    /\ UNCHANGED <<svcVars, handlerVars>>

----------------------------------------------------------------------------
\* An error before there is a browser: answer, and queue.Drop.
Refuse ==
    /\ pc' = "failed"
    /\ pending' = pending - 1
    /\ UNCHANGED <<svcVars, left, base, hops, attempt, used>>

\* The body cannot be read, or is not JSON.
BadRequest == pc = "reading" /\ Refuse

Parse ==
    /\ pc = "reading"
    /\ pc' = "matching"
    /\ UNCHANGED <<svcVars, handlerVars>>

\* A capability of the candidate (a timeout, a screen size, a file name) is
\* invalid: the request is refused, whatever the other candidates say.
BadCapability == pc = "matching" /\ left > 0 /\ Refuse

\* manager.Find knows no browser for this candidate: try the next one.
NextCandidate ==
    /\ pc = "matching" /\ left > 0
    /\ left' = left - 1
    /\ UNCHANGED <<svcVars, pc, base, hops, attempt, pending, used>>

NotAvailable == pc = "matching" /\ left = 0 /\ Refuse

\* manager.Find knows one: starter.StartWithCancel is called.
Found ==
    /\ pc = "matching" /\ left > 0
    /\ pc' = "starting"
    /\ svc' = "creating"
    /\ UNCHANGED <<want, cancelling, browser, video, tmpVideo, tmpLog, refused,
                   handlerVars>>

\* StartWithCancel gives up before it has created anything: the image is not
\* a command line, a limit is not a number, no port is free.
Misconfigured ==
    /\ pc = "starting" /\ svc = "creating"
    /\ svc' = "failed"
    /\ UNCHANGED <<want, cancelling, browser, video, tmpVideo, tmpLog, refused,
                   pc, handlerVars>>

\* One step of StartWithCancel or of Cancel.
Service ==
    /\ ServiceStep
    /\ UNCHANGED <<pc, handlerVars>>

\* A container exits, or the driver process ends, by itself.
BrowserDies ==
    /\ Dies
    /\ UNCHANGED <<pc, handlerVars>>

StartFailed == pc = "starting" /\ svc = "failed" /\ Refuse

Started ==
    /\ pc = "starting" /\ svc = "running"
    /\ pc' = "joining"
    /\ UNCHANGED <<svcVars, handlerVars>>

----------------------------------------------------------------------------
(* The attempts.                                                           *)

\* r.URL.Path = path.Join(u.Path, r.URL.Path), and the request is posted.
Post ==
    /\ pc = "joining"
    /\ hops' = hops + WdHub(base)
    /\ pc' = "posting"
    /\ UNCHANGED <<svcVars, left, base, attempt, pending, used>>

\* newSessionAttemptTimeout passes, and there are attempts left.
Retry ==
    /\ pc = "posting" /\ attempt < RetryCount
    /\ attempt' = attempt + 1
    /\ pc' = "joining"
    /\ UNCHANGED <<svcVars, left, base, hops, pending, used>>

\* It passes, and there are none left; or the post fails; or the client has
\* gone: queue.Drop, and then cancelAndCleanup calls the service's Cancel.
DropAndCancel ==
    /\ pending' = pending - 1
    /\ pc' = "cleaning"
    /\ cancelling' = TRUE
    /\ UNCHANGED <<want, svc, browser, video, tmpVideo, tmpLog, refused,
                   left, base, hops, attempt, used>>

AttemptFails == pc = "posting" /\ DropAndCancel

\* 404 from a driver with no path: it may serve under /wd/hub.
FallBack ==
    /\ pc = "posting" /\ base = "" /\ browser = "running"
    /\ base' = "/wd/hub"
    /\ attempt' = attempt + 1
    /\ pc' = "joining"
    /\ UNCHANGED <<svcVars, left, hops, pending, used>>

\* Any other answer leaves the loop.
Answer ==
    /\ pc = "posting" /\ browser = "running"
    /\ pc' = "answered"
    /\ UNCHANGED <<svcVars, handlerVars>>

----------------------------------------------------------------------------
(* The answer.                                                             *)

\* A Location that ends in an id, or a body that holds one: it is written, and
\* the session's timer is started.
HasId ==
    /\ pc = "answered"
    /\ pc' = "putting"
    /\ UNCHANGED <<svcVars, handlerVars>>

\* The body cannot be read or parsed.
BadBody == pc = "answered" /\ DropAndCancel

\* There is no id in it, or the Location cannot be parsed: what there is has
\* been forwarded.
HasNoId ==
    /\ pc = "answered"
    /\ pc' = "dropping"
    /\ UNCHANGED <<svcVars, handlerVars>>

DropNoId == pc = "dropping" /\ DropAndCancel

\* The temporary files are removed, or renamed; a file may resist.
PutAway ==
    /\ tmpVideo' \in {tmpVideo, tmpVideo /\ ~want.video}
    /\ tmpLog' \in {tmpLog, tmpLog /\ ~want.log}
    /\ refused' = (refused \/ tmpVideo' \/ tmpLog')
    /\ UNCHANGED <<want, svc, cancelling, browser, video, handlerVars>>

\* cancelAndCleanup, after Cancel.
CleanUp ==
    /\ pc = "cleaning" /\ svc = "stopped"
    /\ pc' = "failed"
    /\ PutAway

\* sessions.Put: from here on there is a session to delete.
Put ==
    /\ pc = "putting"
    /\ pc' = "live"
    /\ UNCHANGED <<svcVars, handlerVars>>

\* queue.Create, once har.Start is through if the session is recorded; the
\* session may be deleted by then.
Create ==
    /\ pc \in {"live", "renaming", "done"} /\ pending = 1
    /\ pending' = pending - 1
    /\ used' = used + 1
    /\ UNCHANGED <<svcVars, pc, left, base, hops, attempt>>

\* proxy, for a DELETE by the client or by the timer: cancelAndRenameFiles
\* calls the service's Cancel.
Delete ==
    /\ pc = "live"
    /\ pc' = "renaming"
    /\ cancelling' = TRUE
    /\ UNCHANGED <<want, svc, browser, video, tmpVideo, tmpLog, refused,
                   handlerVars>>

\* cancelAndRenameFiles, after Cancel.
RenameFiles ==
    /\ pc = "renaming" /\ svc = "stopped"
    /\ pc' = "done"
    /\ PutAway

Handle ==
    \/ BadRequest \/ Parse \/ BadCapability \/ NextCandidate \/ NotAvailable
    \/ Found \/ Misconfigured \/ Service \/ StartFailed \/ Started
    \/ Post \/ Retry \/ AttemptFails \/ FallBack \/ Answer
    \/ HasId \/ BadBody \/ HasNoId \/ DropNoId \/ CleanUp \/ Put
    \/ RenameFiles

Next == Handle \/ BrowserDies \/ Create \/ Delete

Spec == Init /\ [][Next]_vars

\* cmd.Wait in stopProc: a driver process may take no notice of SIGINT.
AwaitsDriver == svc = "removing" /\ want.driver /\ browser = "running"

(***************************************************************************)
(* An attempt and the waits for a port and for the recorder's end have     *)
(* timeouts, and Docker is assumed to answer.  Two calls have none, and    *)
(* nothing is assumed of them: io.ReadAll of the client's body (the server *)
(* has no ReadTimeout) and cmd.Wait.  Create waits for har.Start and is    *)
(* SessionHub's; Delete and BrowserDies are the environment's.             *)
(***************************************************************************)
Prompt == pc # "reading" /\ ~AwaitsDriver /\ Handle

FairSpec == Spec /\ WF_vars(Prompt)

----------------------------------------------------------------------------
\* Every variable holds a value of its type: attempts stay within
\* -retry-count and the one fallback to /wd/hub, and neither gauge of this
\* request leaves 0 .. 1.
TypeOK ==
    /\ ServiceTypeOK
    /\ pc \in States
    /\ left \in 0 .. MaxCandidates
    /\ base \in Bases
    /\ attempt \in 1 .. (IF RetryCount = 0 THEN 1 ELSE RetryCount) + 1
    /\ hops \in 0 .. attempt
    /\ pending \in 0 .. 1
    /\ used \in 0 .. 1

\* Whatever way create takes, it settles the slot the queue granted once: no
\* failure leaves a token behind or takes a second one (queue.Drop), and a
\* session that was put is counted in one gauge at a time, however soon it is
\* deleted (queue.Create).
SlotSettled ==
    /\ pc \in {"cleaning", "failed"} => pending = 0 /\ used = 0
    /\ pc \notin {"cleaning", "failed"} => pending + used = 1

\* A session that was started leaves no temporary file when it is over, failed
\* or deleted, and its recorder and browser are stopped before its files are
\* moved (cancelAndCleanup and cancelAndRenameFiles).
FilesPutAway ==
    pc \in {"failed", "done"} /\ cancelling /\ ~refused =>
        ~tmpVideo /\ ~tmpLog /\ ~Exists(browser) /\ ~Exists(video)

\* The same of every failure, as the comment on cancelAndCleanup has it: "on
\* failure also remove the temporary video/log files".
FailureRemovesFiles ==
    pc = "failed" /\ ~refused => ~tmpVideo /\ ~tmpLog

\* Every attempt is posted to the path the browser is configured with: `path`
\* is where new sessions are created (browsers.json).
PostsToConfiguredPath == pc = "posting" => hops = WdHub(base)

\* A request whose body has been read ends in a session or is over, and a
\* session that is deleted is over in the end, unless a driver process does
\* not end on SIGINT.
RequestEnds ==
    /\ (pc = "matching") ~> (pc \in {"live", "failed"} \/ AwaitsDriver)
    /\ (pc = "renaming") ~> (pc = "done" \/ AwaitsDriver)
=============================================================================
