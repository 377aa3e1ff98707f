------------------------------ MODULE Shutdown ------------------------------
(***************************************************************************)
(* How sessions end and how the hub does: sess.Cancel with the files and   *)
(* events it leaves to others (src/websummoner.go, 367-424), the listeners *)
(* that save metadata and upload files (src/event, src/metadata.go,        *)
(* src/upload), and run's way out on SIGTERM (src/main.go, 491-511).       *)
(*                                                                         *)
(* A DELETE answers its client and leaves Cancel to a goroutine that       *)
(* nobody waits for; the listeners are such goroutines too.  The sweep at  *)
(* the end of run calls Cancel itself, one session after the other.  When  *)
(* the process exits they all stop where they are, and containers run on.  *)
(* The log file of a session is treated as its video is and left out.      *)
(***************************************************************************)
EXTENDS Integers, FiniteSets

CONSTANTS
    Sessions,   \* sessions the hub may start, each once
    Names,      \* names a client may choose for its video
    NoName,     \* the client chose none: the session id is used
    KeepFiles   \* flag -s3-keep-files

ASSUME ShutdownAssumption ==
    /\ IsFiniteSet(Sessions)
    /\ NoName \notin Names
    /\ Names \cap Sessions = {}
    /\ KeepFiles \in BOOLEAN

VARIABLES
    stage,      \* how far run is
    life,       \* how far each session is
    sessions,   \* the session map
    asked,      \* sessions with a request in flight that may be its DELETE
    swept,      \* sessions the sweep has reached
    running,    \* sessions whose container runs
    refused,    \* sessions whose container Docker has refused to remove
    wanted,     \* capability videoName of each session
    temp,       \* sessions whose video has its temporary name
    stuck,      \* sessions whose video could not be renamed
    disk,       \* files under their last name: the artifact each path holds
    renamed,    \* sessions whose Caps.VideoName has been set to the last name
    upload,     \* the upload goroutine of each artifact
    opened,     \* the file each upload has open
    bucket,     \* artifacts in the bucket
    born        \* auxiliary: artifacts that came to be

hubVars == <<stage, sessions, asked, swept>>
serviceVars == <<running, refused, wanted>>
fileVars == <<temp, stuck, disk, renamed, upload, opened, bucket, born>>
vars == <<hubVars, life, serviceVars, fileVars>>

----------------------------------------------------------------------------
Artifacts == {"video", "metadata"} \X Sessions
Video(s) == <<"video", s>>
Metadata(s) == <<"metadata", s>>
Nothing == <<"none">>

LastName(s) == IF wanted[s] = NoName THEN s ELSE wanted[s]
Paths == {"video", "metadata"} \X (Sessions \cup Names)
PathOf(a) == <<a[1], IF a[1] = "video" THEN LastName(a[2]) ELSE a[2]>>

\* No other session's file goes by the same name.
Own(a) == \A b \in Artifacts \ {a} : PathOf(b) # PathOf(a)

Up == stage \notin {"exited", "failed"}

\* http.Server counts these connections as active.
Active ==
    asked # {} \/ \E s \in Sessions : life[s] \in {"starting", "deleting"}

LifeStates == {"absent", "starting", "dropped", "live", "deleting", "canceling",
               "renaming", "telling", "ended"}

Becomes(s, from, to) ==
    /\ Up
    /\ life[s] = from
    /\ life' = [life EXCEPT ![s] = to]

Init ==
    /\ stage = "serving"
    /\ life = [s \in Sessions |-> "absent"]
    /\ sessions = {}
    /\ asked = {}
    /\ swept = {}
    /\ running = {}
    /\ refused = {}
    /\ wanted \in [Sessions -> Names \cup {NoName}]
    /\ temp = {}
    /\ stuck = {}
    /\ disk = [p \in Paths |-> Nothing]
    /\ renamed = {}
    /\ upload = [a \in Artifacts |-> "none"]
    /\ opened = [a \in Artifacts |-> Nothing]
    /\ bucket = {}
    /\ born = {}

----------------------------------------------------------------------------
(* Requests, as far as they keep a connection active.                      *)

\* A request for a new session waits, is being served, ...
Arrive(s) ==
    /\ stage = "serving"
    /\ Becomes(s, "absent", "starting")
    /\ UNCHANGED <<hubVars, serviceVars, fileVars>>

\* ...fails, ...
StartFails(s) ==
    /\ Becomes(s, "starting", "dropped")
    /\ UNCHANGED <<hubVars, serviceVars, fileVars>>

\* ...or puts the session, whose recorder may or may not make a video.
Started(s) ==
    /\ Becomes(s, "starting", "live")
    /\ sessions' = sessions \cup {s}
    /\ running' = running \cup {s}
    /\ \E made \in SUBSET {s} :
        /\ temp' = temp \cup made
        /\ born' = born \cup {Video(m) : m \in made}
    /\ UNCHANGED <<stage, asked, swept, refused, wanted, stuck, disk, renamed,
                   upload, opened, bucket>>

\* A client, or the idle timer, sends a request while there is a listener.
Ask(s) ==
    /\ stage = "serving"
    /\ s \in sessions \ asked
    /\ asked' = asked \cup {s}
    /\ UNCHANGED <<stage, life, sessions, swept, serviceVars, fileVars>>

CommandEnds(s) ==
    /\ Up
    /\ s \in asked
    /\ asked' = asked \ {s}
    /\ UNCHANGED <<stage, life, sessions, swept, serviceVars, fileVars>>

\* It is a DELETE: off the map, and on to the driver.
Delete(s) ==
    /\ Becomes(s, "live", "deleting")
    /\ s \in asked
    /\ asked' = asked \ {s}
    /\ sessions' = sessions \ {s}
    /\ UNCHANGED <<stage, swept, serviceVars, fileVars>>

\* The client has its answer; `done <- cancel` wakes the goroutine.
Answered(s) ==
    /\ Becomes(s, "deleting", "canceling")
    /\ UNCHANGED <<hubVars, serviceVars, fileVars>>

----------------------------------------------------------------------------
(* sess.Cancel, as a goroutine after a DELETE or as a call of the sweep.   *)

\* A plausible fault: the event is sent when the container is stopped.
StopContainerTells(s) ==
    /\ Becomes(s, "canceling", "renaming")
    /\ running' = running \ {s}
    /\ upload' = [upload EXCEPT ![Metadata(s)] = "due"]
    /\ UNCHANGED <<hubVars, refused, wanted, temp, stuck, disk, renamed, opened,
                   bucket, born>>

StopContainer(s) ==
    /\ Becomes(s, "canceling", "renaming")
    /\ running' = running \ {s}
    /\ UNCHANGED <<hubVars, refused, wanted, fileVars>>

\* Docker refuses: that is logged, and Cancel goes on.
StopRefused(s) ==
    /\ Becomes(s, "canceling", "renaming")
    /\ refused' = refused \cup {s}
    /\ UNCHANGED <<hubVars, running, wanted, fileVars>>

\* The name in the capabilities is changed before the file's.
SetsName(s) ==
    /\ Becomes(s, "renaming", "telling")
    /\ renamed' = IF wanted[s] = NoName THEN renamed \cup {s} ELSE renamed
    /\ UNCHANGED <<hubVars, serviceVars, opened, bucket, born>>

\* The video gets its last name and event.FileCreated starts the upload.
Rename(s) ==
    /\ SetsName(s)
    /\ s \in temp
    /\ temp' = temp \ {s}
    /\ disk' = [disk EXCEPT ![PathOf(Video(s))] = Video(s)]
    /\ upload' = [upload EXCEPT ![Video(s)] = "queued"]
    /\ UNCHANGED stuck

\* os.Rename fails, there being no video or in spite of one: that is logged.
RenameFails(s) ==
    /\ SetsName(s)
    /\ stuck' = stuck \cup (temp \cap {s})
    /\ UNCHANGED <<temp, disk, upload>>

\* event.SessionStopped starts the goroutine that saves the metadata.
SessionStopped(s) ==
    /\ Becomes(s, "telling", "ended")
    /\ upload' = [upload EXCEPT ![Metadata(s)] = "due"]
    /\ UNCHANGED <<hubVars, serviceVars, temp, stuck, disk, renamed, opened,
                   bucket, born>>

----------------------------------------------------------------------------
(* The listeners: goroutines of their own.                                 *)

UploadStep(a, from, to) ==
    /\ Up
    /\ upload[a] = from
    /\ upload' = [upload EXCEPT ![a] = to]
    /\ UNCHANGED <<hubVars, life, serviceVars, temp, stuck, renamed>>

\* OnSessionStopped writes the file and reports it as created.
SaveMetadata(s) ==
    /\ UploadStep(Metadata(s), "due", "queued")
    /\ disk' = [disk EXCEPT ![PathOf(Metadata(s))] = Metadata(s)]
    /\ born' = born \cup {Metadata(s)}
    /\ UNCHANGED <<opened, bucket>>

\* Upload: the file is open...
OpenFile(a) ==
    /\ UploadStep(a, "queued", "sending")
    /\ disk[PathOf(a)] # Nothing
    /\ opened' = [opened EXCEPT ![a] = disk[PathOf(a)]]
    /\ UNCHANGED <<disk, bucket, born>>

\* ...and sent; then it is removed by name, ...
Send(a) ==
    /\ UploadStep(a, "sending", IF KeepFiles THEN "ended" ELSE "removing")
    /\ bucket' = bucket \cup {opened[a]}
    /\ UNCHANGED <<disk, opened, born>>

RemoveFile(a) ==
    /\ UploadStep(a, "removing", "ended")
    /\ disk' = [disk EXCEPT ![PathOf(a)] = Nothing]
    /\ UNCHANGED <<opened, bucket, born>>

\* A fault: the file is removed whatever became of the upload.
GiveUpRemoves(a) ==
    /\ \E from \in {"queued", "sending"} : UploadStep(a, from, "removing")
    /\ UNCHANGED <<disk, opened, bucket, born>>

\* ...unless no pattern wants it, it is not there, or S3 fails.
GiveUp(a) ==
    /\ \E from \in {"queued", "sending"} : UploadStep(a, from, "ended")
    /\ UNCHANGED <<disk, opened, bucket, born>>

----------------------------------------------------------------------------
(* run: the signal, server.Shutdown, the sweep and the exit.               *)

Run(from, to) ==
    /\ stage = from
    /\ stage' = to
    /\ UNCHANGED <<life, sessions, asked, swept, serviceVars, fileVars>>

Signal == Run("serving", "draining")

Drained == ~Active /\ Run("draining", "sweeping")

\* A fault: the deadline is looked at when the connections are gone.
GraceOverLate == ~Active /\ Run("draining", "failed")

\* Shutdown returns the context's error, run returns it, main exits at once: it
\* looks at the connections twice a second at most, and counts a new one that
\* has sent nothing, so the deadline can pass although no request is left.
GraceOver == Run("draining", "failed")

\* A fault: the sweep takes the session off the map it ranges over.
SweepRemoves(s) ==
    /\ stage = "sweeping"
    /\ s \in sessions \ swept
    /\ Becomes(s, "live", "canceling")
    /\ swept' = swept \cup {s}
    /\ sessions' = sessions \ {s}
    /\ UNCHANGED <<stage, asked, serviceVars, fileVars>>

\* sessions.Each calls Cancel and waits for it.
Sweep(s) ==
    /\ stage = "sweeping"
    /\ s \in sessions \ swept
    /\ \A t \in swept : life[t] = "ended"
    /\ Becomes(s, "live", "canceling")
    /\ swept' = swept \cup {s}
    /\ UNCHANGED <<stage, sessions, asked, serviceVars, fileVars>>

\* A fault: the sweep starts a goroutine for each Cancel.
ExitAtOnce == sessions \subseteq swept /\ Run("sweeping", "exited")

Exit ==
    /\ sessions \subseteq swept
    /\ \A t \in swept : life[t] = "ended"
    /\ Run("sweeping", "exited")

----------------------------------------------------------------------------
Cancel(s) ==
    \/ StopContainer(s) \/ StopRefused(s)
    \/ Rename(s) \/ RenameFails(s) \/ SessionStopped(s)

Next ==
    \/ Signal \/ Drained \/ GraceOver \/ Exit
    \/ \E s \in Sessions :
        \/ Arrive(s) \/ StartFails(s) \/ Started(s)
        \/ Ask(s) \/ CommandEnds(s) \/ Delete(s) \/ Answered(s)
        \/ Sweep(s) \/ Cancel(s) \/ SaveMetadata(s)
    \/ \E a \in Artifacts :
        OpenFile(a) \/ Send(a) \/ RemoveFile(a) \/ GiveUp(a)

Spec == Init /\ [][Next]_vars

(***************************************************************************)
(* run and Cancel go on; the grace period is a timer.  Requests may take   *)
(* for ever: a driver may hang, a request may wait for a slot that no      *)
(* DELETE can free any more.  That Cancel goes on is an assumption about   *)
(* what it waits for without a timeout: that Docker answers and a driver   *)
(* process ends on SIGINT.                                                 *)
(***************************************************************************)
Fairness ==
    /\ WF_vars(Drained \/ GraceOver)
    /\ WF_vars(Exit \/ \E s \in Sessions : Sweep(s))
    /\ \A s \in Sessions : WF_vars(Cancel(s))

FairSpec == Spec /\ Fairness

----------------------------------------------------------------------------
\* Every variable holds a value of its type.
TypeOK ==
    /\ stage \in {"serving", "draining", "sweeping", "exited", "failed"}
    /\ life \in [Sessions -> LifeStates]
    /\ sessions \subseteq Sessions
    /\ asked \subseteq Sessions
    /\ swept \subseteq sessions
    /\ running \subseteq Sessions
    /\ refused \subseteq Sessions
    /\ wanted \in [Sessions -> Names \cup {NoName}]
    /\ temp \subseteq Sessions
    /\ stuck \subseteq Sessions
    /\ disk \in [Paths -> Artifacts \cup {Nothing}]
    /\ renamed \subseteq Sessions
    /\ upload \in [Artifacts -> {"none", "due", "queued", "sending", "removing", "ended"}]
    /\ opened \in [Artifacts -> Artifacts \cup {Nothing}]
    /\ bucket \subseteq Artifacts
    /\ born \subseteq Artifacts

\* A file with a name of its own is never lost: at any moment, and wherever the
\* process is stopped, it is on disk or in the bucket.
ArtifactSafe ==
    \A a \in born : Own(a) =>
        \/ a = Video(a[2]) /\ a[2] \in temp
        \/ disk[PathOf(a)] = a
        \/ a \in bucket

\* Whoever finds the metadata of a session finds its container stopped and its
\* video under its last name, or in the bucket, and if not then because Docker
\* refused the one or the system the other: nothing Cancel does to the session
\* comes after, and a pipeline may start from the metadata.
MetadataLast ==
    \A s \in Sessions : Metadata(s) \in born =>
        /\ s \in running => s \in refused
        /\ s \in temp => s \in stuck

\* A clean exit leaves no container behind, but those that Docker refused to
\* remove and those whose DELETE had been answered and whose Cancel nobody
\* waited for.
CleanExitStops ==
    stage = "exited" =>
        \A s \in running \ refused : life[s] = "canceling" /\ s \notin sessions

\* After SIGTERM the process ends, whatever its clients do and however long the
\* drivers take to answer them.
ShutdownEnds == stage = "draining" ~> ~Up

\* What the session-metadata guide is for: the capabilities in the metadata
\* name the video that was recorded.
MetadataNamesVideo ==
    \A s \in Sessions :
        {Metadata(s), Video(s)} \subseteq born => s \in renamed
=============================================================================
