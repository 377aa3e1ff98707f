--------------------------- MODULE BrowserService ---------------------------
(***************************************************************************)
(* One browser for one session: starting it, waiting for its port and      *)
(* cancelling it, as a container with an optional video recorder           *)
(* (src/service/docker.go) or as a driver process (src/service/driver.go). *)
(* Every call to Docker or to the operating system may fail; a container   *)
(* may also die by itself, and is then removed by Docker (AutoRemove).     *)
(***************************************************************************)
EXTENDS Naturals

VARIABLES
    want,       \* a driver process or a container; with a recorder; with a log
    svc,        \* where StartWithCancel or Cancel stands
    cancelling, \* whether Cancel has been called
    browser,    \* the browser's container or process
    video,      \* the video recorder's container
    tmpVideo,   \* the recorder's file under its temporary name
    tmpLog,     \* the log file under its temporary name
    refused     \* Docker or the system refused to stop something

svcVars == <<want, svc, cancelling, browser, video, tmpVideo, tmpLog, refused>>

\* A driver process is never recorded: driver.go does not read Video.
Wants == {w \in [driver : BOOLEAN, video : BOOLEAN, log : BOOLEAN] :
            ~(w.driver /\ w.video)}
ContainerStates == {"none", "created", "running", "gone"}
SvcStates == {"idle", "creating", "starting", "preparing",
              "videoCreating", "videoStarting", "waiting", "running",
              "killingVideo", "removingVideo", "copyingLogs",
              "removing", "removingAll", "failed", "stopped"}

ServiceInit ==
    /\ want \in Wants
    /\ svc = "idle"
    /\ cancelling = FALSE
    /\ browser = "none"
    /\ video = "none"
    /\ tmpVideo = FALSE
    /\ tmpLog = FALSE
    /\ refused = FALSE

----------------------------------------------------------------------------
Exists(c) == c \in {"created", "running"}

\* removeContainer: c is gone, or Docker says no and it stays as it was (c1).
Removes(c, c1) ==
    /\ c1 \in {c, "gone"}
    /\ refused' = (refused \/ Exists(c1))

\* Where StartWithCancel ends when it fails, and Cancel when it is done.
Ended == IF cancelling THEN "stopped" ELSE "failed"

\* A failed start in Docker always tries to remove the browser.
Fails(from) == svc = from /\ svc' = "removing"

AfterVideo ==
    IF cancelling /\ want.log THEN "copyingLogs" ELSE "removing"

(* Plausible faults of this code, each to be put in place of an action.    *)

\* The recorder is waited for, and nothing else ends the waiting.
RemoveVideoWaits ==
    /\ svc = "removingVideo" /\ video = "running"
    /\ svc' = AfterVideo
    /\ Removes(video, video')
    /\ UNCHANGED <<want, cancelling, browser, tmpVideo, tmpLog>>

\* A failing network connection or inspection returns at once.
PrepareFailsForgets ==
    /\ svc = "preparing" /\ svc' = "failed"
    /\ UNCHANGED <<want, cancelling, browser, video, tmpVideo, tmpLog, refused>>

\* Cancel removes the browser and leaves its recorder to itself.
StopForgetsVideo ==
    /\ svc = "running" /\ cancelling
    /\ svc' = IF want.log /\ ~want.driver THEN "copyingLogs" ELSE "removing"
    /\ UNCHANGED <<want, cancelling, browser, video, tmpVideo, tmpLog, refused>>

----------------------------------------------------------------------------
(* Starting: docker.                                                       *)

CreateContainer ==
    /\ svc = "creating" /\ ~want.driver
    /\ \/ svc' = "starting" /\ browser' = "created"
       \/ svc' = "failed" /\ UNCHANGED browser
    /\ UNCHANGED <<want, cancelling, video, tmpVideo, tmpLog, refused>>

StartContainer ==
    /\ ~want.driver
    /\ \/ svc = "starting" /\ svc' = "preparing" /\ browser' = "running"
       \/ Fails("starting") /\ UNCHANGED browser
    /\ UNCHANGED <<want, cancelling, video, tmpVideo, tmpLog, refused>>

\* NetworkConnect, ContainerInspect and the look for the port's binding.
Prepare ==
    /\ svc = "preparing"
    /\ svc' = IF want.video THEN "videoCreating" ELSE "waiting"
    /\ UNCHANGED <<want, cancelling, browser, video, tmpVideo, tmpLog, refused>>

PrepareFails ==
    /\ Fails("preparing")
    /\ UNCHANGED <<want, cancelling, browser, video, tmpVideo, tmpLog, refused>>

CreateVideo ==
    /\ \/ svc = "videoCreating" /\ svc' = "videoStarting" /\ video' = "created"
       \/ Fails("videoCreating") /\ UNCHANGED video
    /\ UNCHANGED <<want, cancelling, browser, tmpVideo, tmpLog, refused>>

\* The recorder writes its file from the start.
StartVideo ==
    /\ svc = "videoStarting"
    /\ \/ svc' = "waiting" /\ video' = "running" /\ tmpVideo' = TRUE
       \/ svc' = "removingAll" /\ UNCHANGED <<video, tmpVideo>>
    /\ UNCHANGED <<want, cancelling, browser, tmpLog, refused>>

(* Starting: a driver process.                                             *)

\* The log file is created before the process is started; either may fail.
StartProcess ==
    /\ svc = "creating" /\ want.driver
    /\ \/ svc' = "waiting" /\ browser' = "running" /\ tmpLog' = want.log
       \/ svc' = "failed" /\ UNCHANGED browser /\ tmpLog' \in {FALSE, want.log}
    /\ UNCHANGED <<want, cancelling, video, tmpVideo, refused>>

(* Both: wait for the port to answer.                                      *)

Answers ==
    /\ svc = "waiting"
    /\ browser = "running"
    /\ svc' = "running"
    /\ UNCHANGED <<want, cancelling, browser, video, tmpVideo, tmpLog, refused>>

TimesOut ==
    /\ svc = "waiting"
    /\ svc' = IF video # "none" THEN "killingVideo" ELSE "removing"
    /\ UNCHANGED <<want, cancelling, browser, video, tmpVideo, tmpLog, refused>>

----------------------------------------------------------------------------
(* Cancelling.                                                             *)

\* The closure StartWithCancel returned is called.
Stop ==
    /\ svc = "running" /\ cancelling
    /\ svc' = CASE video # "none" -> "killingVideo"
                [] video = "none" /\ want.log /\ ~want.driver -> "copyingLogs"
                [] OTHER -> "removing"
    /\ UNCHANGED <<want, cancelling, browser, video, tmpVideo, tmpLog, refused>>

\* stopVideoContainer: TERM, so that the recorder finishes its file.  When the
\* signal cannot be sent nothing else is tried.
KillVideo ==
    /\ svc = "killingVideo"
    /\ \/ video = "running" /\ svc' = "removingVideo" /\ UNCHANGED refused
       \/ svc' = AfterVideo /\ refused' = (refused \/ Exists(video))
    /\ UNCHANGED <<want, cancelling, browser, video, tmpVideo, tmpLog>>

\* It has stopped, or the delete timeout passed: remove it.  Or waiting for it
\* failed, as it does for a container Docker has removed: leave it.
RemoveVideo ==
    /\ svc = "removingVideo"
    /\ svc' = AfterVideo
    /\ Removes(video, video')
    /\ UNCHANGED <<want, cancelling, browser, tmpVideo, tmpLog>>

\* Copy the container's log to the temporary log file, or fail to.
CopyLogs ==
    /\ svc = "copyingLogs"
    /\ svc' = "removing"
    /\ tmpLog' \in BOOLEAN
    /\ UNCHANGED <<want, cancelling, browser, video, tmpVideo, refused>>

\* The browser's container is removed; or its process is signalled and waited
\* for, however long that takes.
Remove ==
    /\ svc = "removing"
    /\ svc' = Ended
    /\ Removes(browser, browser')
    /\ want.driver => browser' = "gone"
    /\ UNCHANGED <<want, cancelling, video, tmpVideo, tmpLog>>

\* The recorder did not start: the browser, then the recorder.
RemoveAll ==
    /\ svc = "removingAll"
    /\ svc' = "failed"
    /\ browser' \in {browser, "gone"}
    /\ video' \in {video, "gone"}
    /\ refused' = (refused \/ Exists(browser') \/ Exists(video'))
    /\ UNCHANGED <<want, cancelling, tmpVideo, tmpLog>>

\* A container exits by itself and Docker removes it; a process ends.
Dies ==
    /\ \/ browser = "running" /\ browser' = "gone" /\ UNCHANGED video
       \/ video = "running" /\ video' = "gone" /\ UNCHANGED browser
    /\ UNCHANGED <<want, svc, cancelling, tmpVideo, tmpLog, refused>>

ServiceStep ==
    \/ CreateContainer \/ StartContainer \/ Prepare \/ PrepareFails
    \/ CreateVideo \/ StartVideo \/ StartProcess \/ Answers \/ TimesOut
    \/ Stop \/ KillVideo \/ RemoveVideo \/ CopyLogs \/ Remove \/ RemoveAll

----------------------------------------------------------------------------
\* Every variable of the service holds a value of its type.
ServiceTypeOK ==
    /\ want \in Wants
    /\ svc \in SvcStates
    /\ cancelling \in BOOLEAN
    /\ browser \in ContainerStates
    /\ video \in ContainerStates
    /\ tmpVideo \in BOOLEAN
    /\ tmpLog \in BOOLEAN
    /\ refused \in BOOLEAN

\* StartWithCancel that fails, and Cancel, leave no container or process of
\* the session behind unless Docker or the system refused to stop it.
NothingLeftRunning ==
    svc \in {"failed", "stopped"} =>
        refused \/ (~Exists(browser) /\ ~Exists(video))

\* The recorder is stopped before the browser it records is removed: no step
\* of the hub takes the browser from under a running recorder, except when
\* Docker has refused to stop the recorder.
RecorderStopsFirst ==
    [][browser = "running" /\ browser' = "gone" /\ svc' # svc
        => video # "running" \/ refused]_svcVars
=============================================================================
