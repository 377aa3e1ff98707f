--------------------------- MODULE ShutdownProofs ---------------------------
(***************************************************************************)
(* Proofs about Shutdown, for any sessions and any names their clients     *)
(* choose: no artifact with a name of its own is lost, a clean exit leaves *)
(* only the containers whose Cancel nobody waited for, and metadata come   *)
(* last.                                                                   *)
(***************************************************************************)
EXTENDS Shutdown, TLAPS

USE ShutdownAssumption

FileTypes ==
    /\ wanted \in [Sessions -> Names \cup {NoName}]
    /\ disk \in [Paths -> Artifacts \cup {Nothing}]
    /\ upload \in [Artifacts -> {"none", "due", "queued", "sending", "removing", "ended"}]
    /\ opened \in [Artifacts -> Artifacts \cup {Nothing}]
    /\ born \subseteq Artifacts

\* A file lies under the path of its artifact.
DiskInPlace == \A p \in Paths : disk[p] # Nothing => PathOf(disk[p]) = p

\* The upload of an artifact with a name of its own has its own file open, and
\* removes it only after it has been sent.
UploadsOwn ==
    \A a \in Artifacts : Own(a) =>
        /\ upload[a] = "sending" => opened[a] = a
        /\ upload[a] = "removing" => a \in bucket

FInv == FileTypes /\ DiskInPlace /\ UploadsOwn /\ ArtifactSafe

\* Every artifact has a path.
LEMMA PathTypes ==
    ASSUME wanted \in [Sessions -> Names \cup {NoName}]
    PROVE  \A a \in Artifacts : PathOf(a) \in Paths
<1> TAKE a \in Artifacts
<1>1. PICK k \in {"video", "metadata"}, s \in Sessions : a = <<k, s>>
  BY DEF Artifacts
<1>2. LastName(s) \in Sessions \cup Names
  BY DEF LastName
<1> QED
  BY <1>1, <1>2 DEF PathOf, Paths

\* Videos and metadata are different artifacts, each of its session.
LEMMA ArtifactTypes ==
    /\ Nothing \notin Artifacts
    /\ \A s \in Sessions : Video(s) \in Artifacts /\ Metadata(s) \in Artifacts
    /\ \A s \in Sessions, t \in Sessions : Video(s) # Metadata(t)
    /\ \A a \in Artifacts : a[2] \in Sessions
    /\ \A s \in Sessions : Video(s)[2] = s /\ Metadata(s)[2] = s
BY DEF Nothing, Artifacts, Video, Metadata

\* At first there are no files.
LEMMA InitFInv == Init => FInv
BY PathTypes, ArtifactTypes
   DEF Init, FInv, FileTypes, DiskInPlace, UploadsOwn, ArtifactSafe

\* A step that leaves the files alone leaves what is known of them.
LEMMA FilesAlone == FInv /\ UNCHANGED <<wanted, fileVars>> => FInv'
<1> SUFFICES ASSUME FInv, UNCHANGED <<wanted, fileVars>> PROVE FInv'
  OBVIOUS
<1>1. /\ wanted' = wanted /\ temp' = temp /\ disk' = disk /\ upload' = upload
      /\ opened' = opened /\ bucket' = bucket /\ born' = born
  BY DEF fileVars
<1>2. \A a : PathOf(a)' = PathOf(a)
  BY <1>1 DEF PathOf, LastName
<1>3. \A a : Own(a)' <=> Own(a)
  BY <1>2 DEF Own
<1>4. FileTypes' /\ DiskInPlace' /\ UploadsOwn' /\ ArtifactSafe'
  BY <1>1, <1>2, <1>3 DEF FInv, FileTypes, DiskInPlace, UploadsOwn, ArtifactSafe
<1> QED
  BY <1>4 DEF FInv

\* No step of Cancel, of an upload or of run loses an artifact.
LEMMA NextFInv == FInv /\ [Next]_vars => FInv'
<1> SUFFICES ASSUME FInv, [Next]_vars PROVE FInv'
  OBVIOUS
<1> USE PathTypes, ArtifactTypes
<1>1. wanted' = wanted
  BY DEF Next, vars, hubVars, serviceVars, Signal, Drained, GraceOver, Exit, Run,
         Arrive, StartFails, Started, Ask, CommandEnds, Delete, Answered, Sweep,
         Cancel, StopContainer, StopRefused, SetsName, Rename, RenameFails,
         SessionStopped, SaveMetadata, OpenFile, Send, RemoveFile, GiveUp, UploadStep
<1>2. (\A a : PathOf(a)' = PathOf(a)) /\ (\A a : Own(a)' <=> Own(a))
  <2>1. \A a : PathOf(a)' = PathOf(a)
    BY <1>1 DEF PathOf, LastName
  <2> QED
    BY <2>1 DEF Own
<1>3. /\ wanted \in [Sessions -> Names \cup {NoName}]
      /\ disk \in [Paths -> Artifacts \cup {Nothing}]
      /\ upload \in [Artifacts -> {"none", "due", "queued", "sending", "removing", "ended"}]
      /\ opened \in [Artifacts -> Artifacts \cup {Nothing}]
      /\ born \subseteq Artifacts
  BY DEF FInv, FileTypes
<1>4. \A a \in Artifacts, b \in Artifacts : Own(a) /\ PathOf(b) = PathOf(a) => b = a
  BY DEF Own
<1>5. \A a \in Artifacts : PathOf(a) \in Paths
  BY <1>3
<1> USE <1>1, <1>2, <1>3, <1>4, <1>5
<1>6. ASSUME NEW s \in Sessions, Started(s) PROVE FInv'
  <2>1. PICK made \in SUBSET {s} :
          temp' = temp \cup made /\ born' = born \cup {Video(m) : m \in made}
    BY <1>6 DEF Started
  <2>2. UNCHANGED <<disk, upload, opened, bucket>>
    BY <1>6 DEF Started
  <2>3. FileTypes' /\ DiskInPlace' /\ UploadsOwn'
    BY <2>1, <2>2 DEF FInv, FileTypes, DiskInPlace, UploadsOwn
  <2>4. ArtifactSafe'
    BY <2>1, <2>2 DEF FInv, ArtifactSafe
  <2> QED
    BY <2>3, <2>4 DEF FInv
<1>7. ASSUME NEW s \in Sessions, Rename(s) PROVE FInv'
  <2>1. /\ temp' = temp \ {s}
        /\ disk' = [disk EXCEPT ![PathOf(Video(s))] = Video(s)]
        /\ upload' = [upload EXCEPT ![Video(s)] = "queued"]
        /\ UNCHANGED <<opened, bucket, born>>
    BY <1>7 DEF Rename, SetsName
  <2>2. FileTypes'
    BY <2>1 DEF FileTypes
  <2>3. DiskInPlace'
    BY <2>1 DEF FInv, DiskInPlace
  <2>4. UploadsOwn'
    BY <2>1 DEF FInv, UploadsOwn
  <2>5. ArtifactSafe'
    <3> SUFFICES ASSUME NEW a \in born, Own(a)
                 PROVE  \/ a = Video(a[2]) /\ a[2] \in temp'
                        \/ disk'[PathOf(a)] = a
                        \/ a \in bucket
      BY <2>1 DEF ArtifactSafe
    <3>1. CASE a = Video(s)
      BY <3>1, <2>1
    <3>2. CASE a # Video(s)
      <4>1. PathOf(a) # PathOf(Video(s))
        BY <3>2
      <4>2. a = Video(a[2]) => a[2] # s
        BY <3>2
      <4> QED
        BY <4>1, <4>2, <2>1 DEF FInv, ArtifactSafe
    <3> QED
      BY <3>1, <3>2
  <2> QED
    BY <2>2, <2>3, <2>4, <2>5 DEF FInv
<1>8. ASSUME NEW s \in Sessions, SessionStopped(s) PROVE FInv'
  <2>1. /\ upload' = [upload EXCEPT ![Metadata(s)] = "due"]
        /\ UNCHANGED <<temp, disk, opened, bucket, born>>
    BY <1>8 DEF SessionStopped
  <2>2. FileTypes' /\ DiskInPlace' /\ UploadsOwn' /\ ArtifactSafe'
    BY <2>1 DEF FInv, FileTypes, DiskInPlace, UploadsOwn, ArtifactSafe
  <2> QED
    BY <2>2 DEF FInv
<1>9. ASSUME NEW s \in Sessions, SaveMetadata(s) PROVE FInv'
  <2>1. /\ disk' = [disk EXCEPT ![PathOf(Metadata(s))] = Metadata(s)]
        /\ upload' = [upload EXCEPT ![Metadata(s)] = "queued"]
        /\ born' = born \cup {Metadata(s)}
        /\ UNCHANGED <<temp, opened, bucket>>
    BY <1>9 DEF SaveMetadata, UploadStep
  <2>2. FileTypes' /\ UploadsOwn'
    BY <2>1 DEF FInv, FileTypes, UploadsOwn
  <2>3. DiskInPlace'
    BY <2>1 DEF FInv, DiskInPlace
  <2>4. ArtifactSafe'
    BY <2>1 DEF FInv, ArtifactSafe
  <2> QED
    BY <2>2, <2>3, <2>4 DEF FInv
<1>10. ASSUME NEW a \in Artifacts,
              OpenFile(a) \/ Send(a) \/ RemoveFile(a) \/ GiveUp(a)
       PROVE  FInv'
  <2>1. UNCHANGED <<temp, born>>
    BY <1>10 DEF OpenFile, Send, RemoveFile, GiveUp, UploadStep
  <2>2. CASE OpenFile(a)
    <3>1. /\ upload' = [upload EXCEPT ![a] = "sending"]
          /\ opened' = [opened EXCEPT ![a] = disk[PathOf(a)]]
          /\ disk[PathOf(a)] # Nothing /\ UNCHANGED <<disk, bucket>>
      BY <2>2 DEF OpenFile, UploadStep
    <3>2. Own(a) => disk[PathOf(a)] = a
      BY <3>1 DEF FInv, DiskInPlace
    <3>3. FileTypes' /\ DiskInPlace' /\ ArtifactSafe'
      BY <2>1, <3>1 DEF FInv, FileTypes, DiskInPlace, ArtifactSafe
    <3>4. UploadsOwn'
      BY <3>1, <3>2 DEF FInv, UploadsOwn
    <3> QED
      BY <3>3, <3>4 DEF FInv
  <2>3. CASE Send(a)
    <3>1. /\ upload[a] = "sending"
          /\ upload' = [upload EXCEPT ![a] = IF KeepFiles THEN "ended" ELSE "removing"]
          /\ bucket' = bucket \cup {opened[a]} /\ UNCHANGED <<disk, opened>>
      BY <2>3 DEF Send, UploadStep
    <3>2. FileTypes' /\ DiskInPlace' /\ ArtifactSafe'
      BY <2>1, <3>1 DEF FInv, FileTypes, DiskInPlace, ArtifactSafe
    <3>3. UploadsOwn'
      BY <3>1 DEF FInv, UploadsOwn
    <3> QED
      BY <3>2, <3>3 DEF FInv
  <2>4. CASE RemoveFile(a)
    <3>1. /\ upload[a] = "removing"
          /\ upload' = [upload EXCEPT ![a] = "ended"]
          /\ disk' = [disk EXCEPT ![PathOf(a)] = Nothing]
          /\ UNCHANGED <<opened, bucket>>
      BY <2>4 DEF RemoveFile, UploadStep
    <3>2. FileTypes' /\ DiskInPlace' /\ UploadsOwn'
      BY <2>1, <3>1 DEF FInv, FileTypes, DiskInPlace, UploadsOwn
    <3>3. ArtifactSafe'
      <4> SUFFICES ASSUME NEW b \in born, Own(b)
                   PROVE  \/ b = Video(b[2]) /\ b[2] \in temp
                          \/ disk'[PathOf(b)] = b
                          \/ b \in bucket
        BY <2>1, <3>1 DEF ArtifactSafe
      <4>1. CASE b = a
        BY <4>1, <3>1 DEF FInv, UploadsOwn
      <4>2. CASE b # a
        BY <4>2, <3>1 DEF FInv, ArtifactSafe
      <4> QED
        BY <4>1, <4>2
    <3> QED
      BY <3>2, <3>3 DEF FInv
  <2>5. CASE GiveUp(a)
    <3>1. /\ upload' = [upload EXCEPT ![a] = "ended"]
          /\ UNCHANGED <<disk, opened, bucket>>
      BY <2>5 DEF GiveUp, UploadStep
    <3>2. FileTypes' /\ DiskInPlace' /\ UploadsOwn' /\ ArtifactSafe'
      BY <2>1, <3>1 DEF FInv, FileTypes, DiskInPlace, UploadsOwn, ArtifactSafe
    <3> QED
      BY <3>2 DEF FInv
  <2> QED
    BY <1>10, <2>2, <2>3, <2>4, <2>5
<1>11. ASSUME NEW s \in Sessions, RenameFails(s) PROVE FInv'
  <2>1. UNCHANGED <<temp, disk, upload, opened, bucket, born>>
    BY <1>11 DEF RenameFails, SetsName
  <2>2. FileTypes' /\ DiskInPlace' /\ UploadsOwn' /\ ArtifactSafe'
    BY <2>1 DEF FInv, FileTypes, DiskInPlace, UploadsOwn, ArtifactSafe
  <2> QED
    BY <2>2 DEF FInv
<1>12. ASSUME NEW s \in Sessions,
              \/ Arrive(s) \/ StartFails(s) \/ Ask(s) \/ CommandEnds(s)
              \/ Delete(s) \/ Answered(s) \/ Sweep(s)
              \/ StopContainer(s) \/ StopRefused(s)
       PROVE  FInv'
  BY <1>12, FilesAlone DEF Arrive, StartFails, Ask, CommandEnds, Delete,
     Answered, Sweep, StopContainer, StopRefused
<1>13. CASE Signal \/ Drained \/ GraceOver \/ Exit \/ UNCHANGED vars
  BY <1>13, FilesAlone DEF Signal, Drained, GraceOver, Exit, Run, vars
<1> QED
  BY <1>6, <1>7, <1>8, <1>9, <1>10, <1>11, <1>12, <1>13 DEF Next, Cancel

\* For any sessions and names: an artifact with a name of its own is on disk or
\* in the bucket, at any moment at which the process may be stopped.
THEOREM ArtifactsSafe == Spec => []ArtifactSafe
<1>1. FInv => ArtifactSafe
  BY DEF FInv
<1> QED
  BY <1>1, InitFInv, NextFInv, PTL DEF Spec
----------------------------------------------------------------------------
(* What a clean exit leaves behind.                                        *)

HubTypes ==
    /\ stage \in {"serving", "draining", "sweeping", "exited", "failed"}
    /\ life \in [Sessions -> LifeStates]
    /\ sessions \subseteq Sessions
    /\ swept \subseteq sessions
    /\ running \subseteq Sessions

\* A container runs from the start of its session to its Cancel, if not longer.
RunningLives ==
    \A s \in running \ refused : life[s] \in {"live", "deleting", "canceling"}

\* A session that nobody has deleted or swept is on the map.
LiveOnMap == \A s \in Sessions : life[s] = "live" => s \in sessions

\* No request is in flight when the sweep begins, and none can start.
SweepAlone ==
    /\ stage \in {"sweeping", "exited"} => ~Active
    /\ stage \in {"serving", "draining"} => swept = {}

\* The sweep has ended every session on the map when run returns.
ExitSwept ==
    stage = "exited" => sessions \subseteq swept /\ \A t \in swept : life[t] = "ended"

HInv == HubTypes /\ RunningLives /\ LiveOnMap /\ SweepAlone /\ ExitSwept

\* At first the hub serves, without sessions.
LEMMA InitHInv == Init => HInv
BY DEF Init, HInv, HubTypes, RunningLives, LiveOnMap, SweepAlone, ExitSwept,
       LifeStates, Active

\* No step leaves a container without a session that lives or is deleted.
LEMMA NextHInv == HInv /\ [Next]_vars => HInv'
<1> SUFFICES ASSUME HInv, [Next]_vars PROVE HInv'
  OBVIOUS
<1> USE DEF HInv, HubTypes, RunningLives, LiveOnMap, SweepAlone, ExitSwept,
            LifeStates, Active, hubVars, serviceVars, Becomes, Up
<1>1. ASSUME NEW s \in Sessions, Arrive(s) \/ StartFails(s) \/ Started(s)
      PROVE  HInv'
  BY <1>1 DEF Arrive, StartFails, Started
<1>2. ASSUME NEW s \in Sessions, Ask(s) \/ CommandEnds(s)
      PROVE  HInv'
  BY <1>2 DEF Ask, CommandEnds
<1>3. ASSUME NEW s \in Sessions, Delete(s) \/ Answered(s)
      PROVE  HInv'
  <2>1. CASE Delete(s)
    <3>1. stage \in {"serving", "draining"} /\ swept = {}
      BY <2>1 DEF Delete
    <3> QED
      BY <3>1, <2>1 DEF Delete
  <2>2. CASE Answered(s)
    BY <2>2 DEF Answered
  <2> QED
    BY <1>3, <2>1, <2>2
<1>4. ASSUME NEW s \in Sessions, Sweep(s)
      PROVE  HInv'
  BY <1>4 DEF Sweep
<1>5. ASSUME NEW s \in Sessions, Cancel(s)
      PROVE  HInv'
  <2>1. CASE StopContainer(s) \/ StopRefused(s)
    BY <2>1 DEF StopContainer, StopRefused
  <2>2. CASE Rename(s) \/ RenameFails(s) \/ SessionStopped(s)
    BY <2>2 DEF Rename, RenameFails, SetsName, SessionStopped
  <2> QED
    BY <1>5, <2>1, <2>2 DEF Cancel
<1>6. ASSUME NEW s \in Sessions, SaveMetadata(s)
      PROVE  HInv'
  BY <1>6 DEF SaveMetadata, UploadStep
<1>7. ASSUME NEW a \in Artifacts, OpenFile(a) \/ Send(a) \/ RemoveFile(a) \/ GiveUp(a)
      PROVE  HInv'
  BY <1>7 DEF OpenFile, Send, RemoveFile, GiveUp, UploadStep
<1>8. CASE Signal \/ Drained \/ GraceOver \/ Exit
  BY <1>8 DEF Signal, Drained, GraceOver, Exit, Run
<1>9. CASE UNCHANGED vars
  BY <1>9 DEF vars
<1> QED
  BY <1>1, <1>2, <1>3, <1>4, <1>5, <1>6, <1>7, <1>8, <1>9 DEF Next

\* For any sessions: when run returns without an error, every container that is
\* left was refused by Docker or belongs to a session off the map whose Cancel
\* was never waited for.
THEOREM CleanExit == Spec => []CleanExitStops
<1>1. HInv => CleanExitStops
  BY DEF HInv, HubTypes, RunningLives, LiveOnMap, SweepAlone, ExitSwept,
         Active, CleanExitStops
<1> QED
  BY <1>1, InitHInv, NextHInv, PTL DEF Spec
----------------------------------------------------------------------------
(* The order of what a session leaves behind.                              *)

\* Metadata are written, and their upload begins, when Cancel is through.
MetadataAfterCancel ==
    \A s \in Sessions :
        upload[Metadata(s)] # "none" \/ Metadata(s) \in born => life[s] = "ended"

\* A video has its temporary name until Cancel renames it, or tries to.
TempLives ==
    \A s \in temp \ stuck :
        life[s] \in {"live", "deleting", "canceling", "renaming"}

RInv ==
    /\ asked \subseteq Sessions /\ temp \subseteq Sessions
    /\ refused \subseteq Sessions /\ stuck \subseteq Sessions
    /\ renamed \subseteq Sessions /\ bucket \subseteq Artifacts
    /\ \A a \in Artifacts : upload[a] = "sending" => opened[a] # Nothing
    /\ MetadataAfterCancel
    /\ TempLives

MInv == FInv /\ HInv /\ RInv

\* At first there are neither temporary files nor metadata.
LEMMA InitMInv == Init => MInv
<1> SUFFICES ASSUME Init PROVE MInv
  OBVIOUS
<1>1. FInv /\ HInv
  BY InitFInv, InitHInv
<1>2. /\ asked \subseteq Sessions /\ temp \subseteq Sessions
      /\ refused \subseteq Sessions /\ stuck \subseteq Sessions
      /\ renamed \subseteq Sessions /\ bucket \subseteq Artifacts
      /\ \A a \in Artifacts : upload[a] = "sending" => opened[a] # Nothing
  BY DEF Init
<1>3. MetadataAfterCancel /\ TempLives
  BY ArtifactTypes DEF Init, MetadataAfterCancel, TempLives
<1> QED
  BY <1>1, <1>2, <1>3 DEF MInv, RInv

\* Cancel renames the video before its metadata are due.
LEMMA NextRInv == MInv /\ [Next]_vars => RInv'
<1> SUFFICES ASSUME MInv, [Next]_vars PROVE RInv'
  OBVIOUS
<1>1. /\ life \in [Sessions -> LifeStates] /\ born \subseteq Artifacts
      /\ disk \in [Paths -> Artifacts \cup {Nothing}]
      /\ upload \in [Artifacts -> {"none", "due", "queued", "sending", "removing", "ended"}]
      /\ opened \in [Artifacts -> Artifacts \cup {Nothing}]
      /\ sessions \subseteq Sessions
      /\ wanted \in [Sessions -> Names \cup {NoName}]
  BY DEF MInv, FInv, FileTypes, HInv, HubTypes
<1>2. \A a \in Artifacts : PathOf(a) \in Paths
  BY <1>1, PathTypes
<1> USE <1>1, <1>2, ArtifactTypes
    DEF MInv, RInv, MetadataAfterCancel, TempLives, LifeStates, hubVars,
        serviceVars, fileVars, Becomes
<1>3. ASSUME NEW s \in Sessions, Arrive(s) \/ StartFails(s) \/ Ask(s) \/ CommandEnds(s)
      PROVE  RInv'
  BY <1>3 DEF Arrive, StartFails, Ask, CommandEnds
<1>4. ASSUME NEW s \in Sessions, Started(s)
      PROVE  RInv'
  <2>1. PICK made \in SUBSET {s} :
          temp' = temp \cup made /\ born' = born \cup {Video(m) : m \in made}
    BY <1>4 DEF Started
  <2>2. \A t \in Sessions : Metadata(t) \in born' => Metadata(t) \in born
    BY <2>1
  <2> QED
    BY <1>4, <2>1, <2>2 DEF Started
<1>5. ASSUME NEW s \in Sessions, Delete(s) \/ Answered(s) \/ Sweep(s)
      PROVE  RInv'
  BY <1>5 DEF Delete, Answered, Sweep
<1>6. ASSUME NEW s \in Sessions, Cancel(s)
      PROVE  RInv'
  <2>1. CASE StopContainer(s) \/ StopRefused(s)
    BY <2>1 DEF StopContainer, StopRefused
  <2>2. CASE Rename(s)
    BY <2>2 DEF Rename, SetsName
  <2>3. CASE RenameFails(s)
    BY <2>3 DEF RenameFails, SetsName
  <2>4. CASE SessionStopped(s)
    <3>1. \A t \in Sessions : t # s => Metadata(t) # Metadata(s)
      OBVIOUS
    <3> QED
      BY <2>4, <3>1 DEF SessionStopped
  <2> QED
    BY <1>6, <2>1, <2>2, <2>3, <2>4 DEF Cancel
<1>7. ASSUME NEW s \in Sessions, SaveMetadata(s)
      PROVE  RInv'
  <2>1. \A t \in Sessions : t # s => Metadata(t) # Metadata(s)
    OBVIOUS
  <2> QED
    BY <1>7, <2>1 DEF SaveMetadata, UploadStep
<1>8. ASSUME NEW a \in Artifacts, OpenFile(a) \/ Send(a) \/ RemoveFile(a) \/ GiveUp(a)
      PROVE  RInv'
  <2>1. /\ upload[a] # "none" /\ UNCHANGED <<life, temp, stuck, refused, asked, renamed, born>>
        /\ \A b \in Artifacts : b # a => upload'[b] = upload[b]
    BY <1>8 DEF OpenFile, Send, RemoveFile, GiveUp, UploadStep
  <2>2. MetadataAfterCancel' /\ TempLives'
    BY <2>1
  <2>3. bucket' \subseteq Artifacts
    BY <1>8 DEF OpenFile, Send, RemoveFile, GiveUp, UploadStep
  <2>4. \A b \in Artifacts : upload'[b] = "sending" => opened'[b] # Nothing
    BY <1>8 DEF OpenFile, Send, RemoveFile, GiveUp, UploadStep
  <2> QED
    BY <2>1, <2>2, <2>3, <2>4
<1>9. CASE Signal \/ Drained \/ GraceOver \/ Exit
  BY <1>9 DEF Signal, Drained, GraceOver, Exit, Run
<1>10. CASE UNCHANGED vars
  BY <1>10 DEF vars
<1> QED
  BY <1>3, <1>4, <1>5, <1>6, <1>7, <1>8, <1>9, <1>10 DEF Next

\* The three invariants together are inductive.
LEMMA NextMInv == MInv /\ [Next]_vars => MInv'
BY NextFInv, NextHInv, NextRInv DEF MInv

\* Every variable of the hub's end keeps its type.
THEOREM TypeCorrect == Spec => []TypeOK
<1>1. MInv => TypeOK
  BY DEF MInv, RInv, FInv, FileTypes, HInv, HubTypes, TypeOK
<1> QED
  BY <1>1, InitMInv, NextMInv, PTL DEF Spec

\* For any sessions and names: metadata appear only when Cancel has stopped the
\* container of their session and renamed its video, or been refused it.
THEOREM MetadataComesLast == Spec => []MetadataLast
<1>1. MInv => MetadataLast
  BY ArtifactTypes
     DEF MInv, RInv, FInv, FileTypes, HInv, HubTypes, RunningLives, MetadataAfterCancel,
         TempLives, MetadataLast
<1> QED
  BY <1>1, InitMInv, NextMInv, PTL DEF Spec
=============================================================================
