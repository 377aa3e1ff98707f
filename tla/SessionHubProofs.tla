-------------------------- MODULE SessionHubProofs --------------------------
(***************************************************************************)
(* Proofs about SessionHub, for any finite sets of sessions and handlers   *)
(* and any positive limit: the slots are accounted for whatever the        *)
(* handlers race on, and no running container is forgotten.                *)
(***************************************************************************)
EXTENDS SessionHub, FiniteSetTheorems, TLAPS

USE HubAssumption

\* The states of a create handler that has put its session.
PutStates == PuttingStates \cup {"created"}

\* A handler serves a request exactly when it is not idle.
JobsServed ==
    \A h \in Handlers : pc[h] # "idle" => job[h] \in Jobs

\* A session on the map, or given back, has been put; it is not both.
MapSound ==
    /\ \A s \in sessions : create[s] \in PutStates /\ s \notin freed
    /\ \A s \in freed : create[s] \in PutStates

\* A handler that took a session off the map is alone in that, and the slot
\* it still has to give back has not been given back.
OwnersSound ==
    /\ \A h \in owner :
         /\ pc[h] \in {"releaseLimit", "releaseUsed", "forwarding"}
         /\ create[job[h].sid] \in PutStates
         /\ job[h].sid \notin sessions
         /\ pc[h] = "releaseLimit" => job[h].sid \notin freed
    /\ \A g, h \in owner : job[g].sid = job[h].sid => g = h

Support == TypeOK /\ JobsServed /\ MapSound /\ OwnersSound

IInv == Support /\ SlotsAccounted /\ ContainersOwned

\* The holders of slots are finitely many.
LEMMA HoldersFinite ==
    IsFiniteSet(SlotHolders) /\ Cardinality(SlotHolders) \in Nat
BY FS_Subset, FS_CardinalityType DEF SlotHolders

\* A hub without sessions meets the invariant.
LEMMA InitIInv == Init => IInv
<1> SUFFICES ASSUME Init PROVE IInv
  OBVIOUS
<1> USE DEF Init
<1>1. TypeOK
  BY DEF TypeOK, CreateStates, StartingStates, PuttingStates, HandlerStates
<1>2. JobsServed /\ MapSound /\ OwnersSound /\ ContainersOwned
  BY DEF JobsServed, MapSound, OwnersSound, ContainersOwned
<1>3. SlotHolders = {}
  BY DEF SlotHolders, StartingStates, PuttingStates
<1>4. SlotsAccounted
  <2>1. /\ {s \in Sessions : create[s] = "created"} = {}
        /\ {h \in Handlers : pc[h] = "releaseUsed"} = {}
    OBVIOUS
  <2> QED
    BY <1>3, <2>1, FS_EmptySet DEF SlotsAccounted, LimitAccounted, UsedAccounted
<1> QED
  BY <1>1, <1>2, <1>4 DEF IInv, Support

----------------------------------------------------------------------------
(* The supporting invariant.                                               *)

\* No step leaves the types; limit is received from only when it holds a token.
LEMMA TypeStep == Support /\ [Next]_vars => TypeOK'
<1> SUFFICES ASSUME Support, [Next]_vars PROVE TypeOK'
  OBVIOUS
<1> USE DEF Support, TypeOK, JobsServed, CreateStates, StartingStates, PuttingStates,
        HandlerStates, createVars, handlerVars, auxVars, Becomes, Step
<1>1. ASSUME NEW s \in Sessions, Admit(s)
      PROVE  TypeOK'
  BY <1>1 DEF Admit
<1>2. ASSUME NEW s \in Sessions, Start(s)
      PROVE  TypeOK'
  BY <1>2 DEF Start
<1>3. ASSUME NEW s \in Sessions, StartFails(s)
      PROVE  TypeOK'
  BY <1>3 DEF StartFails
<1>4. ASSUME NEW s \in Sessions, AttemptFails(s)
      PROVE  TypeOK'
  BY <1>4 DEF AttemptFails
<1>5. ASSUME NEW s \in Sessions, CancelAndCleanup(s)
      PROVE  TypeOK'
  BY <1>5 DEF CancelAndCleanup
<1>6. ASSUME NEW s \in Sessions, Respond(s)
      PROVE  TypeOK'
  BY <1>6 DEF Respond
<1>7. ASSUME NEW s \in Sessions, ArmTimer(s)
      PROVE  TypeOK'
  BY <1>7 DEF ArmTimer
<1>8. ASSUME NEW s \in Sessions, Put(s)
      PROVE  TypeOK'
  BY <1>8 DEF Put
<1>9. ASSUME NEW s \in Sessions, Created(s)
      PROVE  TypeOK'
  BY <1>9 DEF Created
<1>10. ASSUME NEW h \in Handlers, NEW s \in Sessions,
             NEW kind \in {"delete", "touch"}, Request(h, kind, s)
      PROVE  TypeOK'
  BY <1>10 DEF Request, Serve, Jobs, Kinds
<1>11. ASSUME NEW h \in Handlers, NEW s \in Sessions, Fire(h, s)
      PROVE  TypeOK'
  BY <1>11 DEF Fire, Serve, Jobs, Kinds
<1>12. ASSUME NEW h \in Handlers, NotFound(h)
      PROVE  TypeOK'
  BY <1>12 DEF NotFound, Jobs
<1>13. ASSUME NEW h \in Handlers, Found(h)
      PROVE  TypeOK'
  BY <1>13 DEF Found, Jobs
<1>14. ASSUME NEW h \in Handlers, Touch(h)
      PROVE  TypeOK'
  BY <1>14 DEF Touch, Jobs
<1>15. ASSUME NEW h \in Handlers, Remove(h)
      PROVE  TypeOK'
  BY <1>15 DEF Remove, Jobs
<1>16. ASSUME NEW h \in Handlers, ReleaseLimit(h)
      PROVE  TypeOK'
  BY <1>16 DEF ReleaseLimit, Jobs
<1>17. ASSUME NEW h \in Handlers, ReleaseUsed(h)
      PROVE  TypeOK'
  BY <1>17 DEF ReleaseUsed, Jobs
<1>18. ASSUME NEW h \in Handlers, Cancel(h)
      PROVE  TypeOK'
  BY <1>18 DEF Cancel, Jobs
<1>19. ASSUME NEW s \in Sessions,
             \/ DialRefused(s) \/ DialFound(s)
             \/ Dialed(s) \/ Handshaken(s)
      PROVE  TypeOK'
  BY <1>19 DEF DialRefused, DialFound, Dialed, Handshaken
<1>20. CASE UNCHANGED vars
  BY <1>20 DEF vars
<1> QED
  BY <1>1, <1>2, <1>3, <1>4, <1>5, <1>6, <1>7, <1>8, <1>9, <1>10, <1>11, <1>12,
     <1>13, <1>14, <1>15, <1>16, <1>17, <1>18, <1>19, <1>20
     DEF Next, CreateStep, FinishCreate, HandlerStep, Serving

\* A handler keeps its request until it is idle again.
LEMMA JobsStep == Support /\ [Next]_vars => JobsServed'
<1> SUFFICES ASSUME Support, [Next]_vars PROVE JobsServed'
  OBVIOUS
<1> USE DEF Support, TypeOK, JobsServed, createVars, handlerVars, auxVars, Becomes, Step
<1>1. ASSUME NEW s \in Sessions, Admit(s)
      PROVE  JobsServed'
  BY <1>1 DEF Admit
<1>2. ASSUME NEW s \in Sessions, Start(s)
      PROVE  JobsServed'
  BY <1>2 DEF Start
<1>3. ASSUME NEW s \in Sessions, StartFails(s)
      PROVE  JobsServed'
  BY <1>3 DEF StartFails
<1>4. ASSUME NEW s \in Sessions, AttemptFails(s)
      PROVE  JobsServed'
  BY <1>4 DEF AttemptFails
<1>5. ASSUME NEW s \in Sessions, CancelAndCleanup(s)
      PROVE  JobsServed'
  BY <1>5 DEF CancelAndCleanup
<1>6. ASSUME NEW s \in Sessions, Respond(s)
      PROVE  JobsServed'
  BY <1>6 DEF Respond
<1>7. ASSUME NEW s \in Sessions, ArmTimer(s)
      PROVE  JobsServed'
  BY <1>7 DEF ArmTimer
<1>8. ASSUME NEW s \in Sessions, Put(s)
      PROVE  JobsServed'
  BY <1>8 DEF Put
<1>9. ASSUME NEW s \in Sessions, Created(s)
      PROVE  JobsServed'
  BY <1>9 DEF Created
<1>10. ASSUME NEW h \in Handlers, NEW s \in Sessions,
             NEW kind \in {"delete", "touch"}, Request(h, kind, s)
      PROVE  JobsServed'
  BY <1>10 DEF Request, Serve, Jobs, Kinds
<1>11. ASSUME NEW h \in Handlers, NEW s \in Sessions, Fire(h, s)
      PROVE  JobsServed'
  BY <1>11 DEF Fire, Serve, Jobs, Kinds
<1>12. ASSUME NEW h \in Handlers, NotFound(h)
      PROVE  JobsServed'
  BY <1>12 DEF NotFound, Jobs
<1>13. ASSUME NEW h \in Handlers, Found(h)
      PROVE  JobsServed'
  BY <1>13 DEF Found, Jobs
<1>14. ASSUME NEW h \in Handlers, Touch(h)
      PROVE  JobsServed'
  BY <1>14 DEF Touch, Jobs
<1>15. ASSUME NEW h \in Handlers, Remove(h)
      PROVE  JobsServed'
  BY <1>15 DEF Remove, Jobs
<1>16. ASSUME NEW h \in Handlers, ReleaseLimit(h)
      PROVE  JobsServed'
  BY <1>16 DEF ReleaseLimit, Jobs
<1>17. ASSUME NEW h \in Handlers, ReleaseUsed(h)
      PROVE  JobsServed'
  BY <1>17 DEF ReleaseUsed, Jobs
<1>18. ASSUME NEW h \in Handlers, Cancel(h)
      PROVE  JobsServed'
  BY <1>18 DEF Cancel, Jobs
<1>19. ASSUME NEW s \in Sessions,
             \/ DialRefused(s) \/ DialFound(s)
             \/ Dialed(s) \/ Handshaken(s)
      PROVE  JobsServed'
  BY <1>19 DEF DialRefused, DialFound, Dialed, Handshaken
<1>20. CASE UNCHANGED vars
  BY <1>20 DEF vars
<1> QED
  BY <1>1, <1>2, <1>3, <1>4, <1>5, <1>6, <1>7, <1>8, <1>9, <1>10, <1>11, <1>12,
     <1>13, <1>14, <1>15, <1>16, <1>17, <1>18, <1>19, <1>20
     DEF Next, CreateStep, FinishCreate, HandlerStep, Serving

\* A session is put once, and given back only after it left the map.
LEMMA MapStep == Support /\ [Next]_vars => MapSound'
<1> SUFFICES ASSUME Support, [Next]_vars PROVE MapSound'
  OBVIOUS
<1> USE DEF Support, TypeOK, JobsServed, createVars, handlerVars, auxVars, Becomes, Step,
        MapSound, OwnersSound, PutStates, PuttingStates
<1>1. ASSUME NEW s \in Sessions, Admit(s)
      PROVE  MapSound'
  BY <1>1 DEF Admit
<1>2. ASSUME NEW s \in Sessions, Start(s)
      PROVE  MapSound'
  BY <1>2 DEF Start
<1>3. ASSUME NEW s \in Sessions, StartFails(s)
      PROVE  MapSound'
  BY <1>3 DEF StartFails
<1>4. ASSUME NEW s \in Sessions, AttemptFails(s)
      PROVE  MapSound'
  BY <1>4 DEF AttemptFails
<1>5. ASSUME NEW s \in Sessions, CancelAndCleanup(s)
      PROVE  MapSound'
  BY <1>5 DEF CancelAndCleanup
<1>6. ASSUME NEW s \in Sessions, Respond(s)
      PROVE  MapSound'
  BY <1>6 DEF Respond
<1>7. ASSUME NEW s \in Sessions, ArmTimer(s)
      PROVE  MapSound'
  BY <1>7 DEF ArmTimer
<1>8. ASSUME NEW s \in Sessions, Put(s)
      PROVE  MapSound'
  BY <1>8 DEF Put
<1>9. ASSUME NEW s \in Sessions, Created(s)
      PROVE  MapSound'
  BY <1>9 DEF Created
<1>10. ASSUME NEW h \in Handlers, NEW s \in Sessions,
             NEW kind \in {"delete", "touch"}, Request(h, kind, s)
      PROVE  MapSound'
  BY <1>10 DEF Request, Serve, Jobs, Kinds
<1>11. ASSUME NEW h \in Handlers, NEW s \in Sessions, Fire(h, s)
      PROVE  MapSound'
  BY <1>11 DEF Fire, Serve, Jobs, Kinds
<1>12. ASSUME NEW h \in Handlers, NotFound(h)
      PROVE  MapSound'
  BY <1>12 DEF NotFound, Jobs
<1>13. ASSUME NEW h \in Handlers, Found(h)
      PROVE  MapSound'
  BY <1>13 DEF Found, Jobs
<1>14. ASSUME NEW h \in Handlers, Touch(h)
      PROVE  MapSound'
  BY <1>14 DEF Touch, Jobs
<1>15. ASSUME NEW h \in Handlers, Remove(h)
      PROVE  MapSound'
  BY <1>15 DEF Remove, Jobs
<1>16. ASSUME NEW h \in Handlers, ReleaseLimit(h)
      PROVE  MapSound'
  BY <1>16 DEF ReleaseLimit, Jobs
<1>17. ASSUME NEW h \in Handlers, ReleaseUsed(h)
      PROVE  MapSound'
  BY <1>17 DEF ReleaseUsed, Jobs
<1>18. ASSUME NEW h \in Handlers, Cancel(h)
      PROVE  MapSound'
  BY <1>18 DEF Cancel, Jobs
<1>19. ASSUME NEW s \in Sessions,
             \/ DialRefused(s) \/ DialFound(s)
             \/ Dialed(s) \/ Handshaken(s)
      PROVE  MapSound'
  BY <1>19 DEF DialRefused, DialFound, Dialed, Handshaken
<1>20. CASE UNCHANGED vars
  BY <1>20 DEF vars
<1> QED
  BY <1>1, <1>2, <1>3, <1>4, <1>5, <1>6, <1>7, <1>8, <1>9, <1>10, <1>11, <1>12,
     <1>13, <1>14, <1>15, <1>16, <1>17, <1>18, <1>19, <1>20
     DEF Next, CreateStep, FinishCreate, HandlerStep, Serving

\* Only the handler that finds the session on the map becomes its owner.
LEMMA OwnersStep == Support /\ [Next]_vars => OwnersSound'
<1> SUFFICES ASSUME Support, [Next]_vars PROVE OwnersSound'
  OBVIOUS
<1> USE DEF Support, TypeOK, JobsServed, createVars, handlerVars, auxVars, Becomes, Step,
        MapSound, OwnersSound, PutStates, PuttingStates, Locked
<1>1. ASSUME NEW s \in Sessions, Admit(s)
      PROVE  OwnersSound'
  BY <1>1 DEF Admit
<1>2. ASSUME NEW s \in Sessions, Start(s)
      PROVE  OwnersSound'
  BY <1>2 DEF Start
<1>3. ASSUME NEW s \in Sessions, StartFails(s)
      PROVE  OwnersSound'
  BY <1>3 DEF StartFails
<1>4. ASSUME NEW s \in Sessions, AttemptFails(s)
      PROVE  OwnersSound'
  BY <1>4 DEF AttemptFails
<1>5. ASSUME NEW s \in Sessions, CancelAndCleanup(s)
      PROVE  OwnersSound'
  BY <1>5 DEF CancelAndCleanup
<1>6. ASSUME NEW s \in Sessions, Respond(s)
      PROVE  OwnersSound'
  BY <1>6 DEF Respond
<1>7. ASSUME NEW s \in Sessions, ArmTimer(s)
      PROVE  OwnersSound'
  BY <1>7 DEF ArmTimer
<1>8. ASSUME NEW s \in Sessions, Put(s)
      PROVE  OwnersSound'
  BY <1>8 DEF Put
<1>9. ASSUME NEW s \in Sessions, Created(s)
      PROVE  OwnersSound'
  BY <1>9 DEF Created
<1>10. ASSUME NEW h \in Handlers, NEW s \in Sessions,
             NEW kind \in {"delete", "touch"}, Request(h, kind, s)
      PROVE  OwnersSound'
  BY <1>10 DEF Request, Serve, Jobs, Kinds
<1>11. ASSUME NEW h \in Handlers, NEW s \in Sessions, Fire(h, s)
      PROVE  OwnersSound'
  BY <1>11 DEF Fire, Serve, Jobs, Kinds
<1>12. ASSUME NEW h \in Handlers, NotFound(h)
      PROVE  OwnersSound'
  BY <1>12 DEF NotFound, Jobs
<1>13. ASSUME NEW h \in Handlers, Found(h)
      PROVE  OwnersSound'
  BY <1>13 DEF Found, Jobs
<1>14. ASSUME NEW h \in Handlers, Touch(h)
      PROVE  OwnersSound'
  BY <1>14 DEF Touch, Jobs
<1>15. ASSUME NEW h \in Handlers, Remove(h)
      PROVE  OwnersSound'
  BY <1>15 DEF Remove, Jobs
<1>16. ASSUME NEW h \in Handlers, ReleaseLimit(h)
      PROVE  OwnersSound'
  BY <1>16 DEF ReleaseLimit, Jobs
<1>17. ASSUME NEW h \in Handlers, ReleaseUsed(h)
      PROVE  OwnersSound'
  BY <1>17 DEF ReleaseUsed, Jobs
<1>18. ASSUME NEW h \in Handlers, Cancel(h)
      PROVE  OwnersSound'
  BY <1>18 DEF Cancel, Jobs
<1>19. ASSUME NEW s \in Sessions,
             \/ DialRefused(s) \/ DialFound(s)
             \/ Dialed(s) \/ Handshaken(s)
      PROVE  OwnersSound'
  <2>1. UNCHANGED <<pc, job, owner, sessions, freed>>
    BY <1>19 DEF DialRefused, DialFound, Dialed, Handshaken
  <2>2. \A t \in Sessions : create[t] \in PutStates => create'[t] \in PutStates
    BY <1>19 DEF DialRefused, DialFound, Dialed, Handshaken
  <2>3. \A h \in owner : h \in Handlers /\ job[h].sid \in Sessions
    BY DEF Jobs
  <2> HIDE DEF PutStates, PuttingStates
  <2> QED
    BY <2>1, <2>2, <2>3
<1>20. CASE UNCHANGED vars
  BY <1>20 DEF vars
<1> QED
  BY <1>1, <1>2, <1>3, <1>4, <1>5, <1>6, <1>7, <1>8, <1>9, <1>10, <1>11, <1>12,
     <1>13, <1>14, <1>15, <1>16, <1>17, <1>18, <1>19, <1>20
     DEF Next, CreateStep, FinishCreate, HandlerStep, Serving

----------------------------------------------------------------------------
(* Containers.                                                             *)

\* A container stays somebody's: create's, the map's or its owner's.
LEMMA ContainersStep ==
    Support /\ ContainersOwned /\ [Next]_vars => ContainersOwned'
<1> SUFFICES ASSUME Support, ContainersOwned, [Next]_vars
             PROVE  ContainersOwned'
  OBVIOUS
<1> USE DEF Support, TypeOK, JobsServed, createVars, handlerVars, auxVars, Becomes, Step,
        MapSound, OwnersSound, PutStates, PuttingStates, ContainersOwned, Stopping
<1>1. ASSUME NEW s \in Sessions, Admit(s)
      PROVE  ContainersOwned'
  BY <1>1 DEF Admit
<1>2. ASSUME NEW s \in Sessions, Start(s)
      PROVE  ContainersOwned'
  BY <1>2 DEF Start
<1>3. ASSUME NEW s \in Sessions, StartFails(s)
      PROVE  ContainersOwned'
  BY <1>3 DEF StartFails
<1>4. ASSUME NEW s \in Sessions, AttemptFails(s)
      PROVE  ContainersOwned'
  BY <1>4 DEF AttemptFails
<1>5. ASSUME NEW s \in Sessions, CancelAndCleanup(s)
      PROVE  ContainersOwned'
  BY <1>5 DEF CancelAndCleanup
<1>6. ASSUME NEW s \in Sessions, Respond(s)
      PROVE  ContainersOwned'
  BY <1>6 DEF Respond
<1>7. ASSUME NEW s \in Sessions, ArmTimer(s)
      PROVE  ContainersOwned'
  BY <1>7 DEF ArmTimer
<1>8. ASSUME NEW s \in Sessions, Put(s)
      PROVE  ContainersOwned'
  BY <1>8 DEF Put
<1>9. ASSUME NEW s \in Sessions, Created(s)
      PROVE  ContainersOwned'
  BY <1>9 DEF Created
<1>10. ASSUME NEW h \in Handlers, NEW s \in Sessions,
             NEW kind \in {"delete", "touch"}, Request(h, kind, s)
      PROVE  ContainersOwned'
  BY <1>10 DEF Request, Serve, Jobs, Kinds
<1>11. ASSUME NEW h \in Handlers, NEW s \in Sessions, Fire(h, s)
      PROVE  ContainersOwned'
  BY <1>11 DEF Fire, Serve, Jobs, Kinds
<1>12. ASSUME NEW h \in Handlers, NotFound(h)
      PROVE  ContainersOwned'
  BY <1>12 DEF NotFound, Jobs
<1>13. ASSUME NEW h \in Handlers, Found(h)
      PROVE  ContainersOwned'
  BY <1>13 DEF Found, Jobs
<1>14. ASSUME NEW h \in Handlers, Touch(h)
      PROVE  ContainersOwned'
  BY <1>14 DEF Touch, Jobs
<1>15. ASSUME NEW h \in Handlers, Remove(h)
      PROVE  ContainersOwned'
  BY <1>15 DEF Remove, Jobs
<1>16. ASSUME NEW h \in Handlers, ReleaseLimit(h)
      PROVE  ContainersOwned'
  BY <1>16 DEF ReleaseLimit, Jobs
<1>17. ASSUME NEW h \in Handlers, ReleaseUsed(h)
      PROVE  ContainersOwned'
  BY <1>17 DEF ReleaseUsed, Jobs
<1>18. ASSUME NEW h \in Handlers, Cancel(h)
      PROVE  ContainersOwned'
  BY <1>18 DEF Cancel, Jobs
<1>19. ASSUME NEW s \in Sessions,
             \/ DialRefused(s) \/ DialFound(s)
             \/ Dialed(s) \/ Handshaken(s)
      PROVE  ContainersOwned'
  BY <1>19 DEF DialRefused, DialFound, Dialed, Handshaken
<1>20. CASE UNCHANGED vars
  BY <1>20 DEF vars
<1> QED
  BY <1>1, <1>2, <1>3, <1>4, <1>5, <1>6, <1>7, <1>8, <1>9, <1>10, <1>11, <1>12,
     <1>13, <1>14, <1>15, <1>16, <1>17, <1>18, <1>19, <1>20
     DEF Next, CreateStep, FinishCreate, HandlerStep, Serving

----------------------------------------------------------------------------
(* Slots.                                                                  *)

\* A session that takes a slot, or gives its own back, is one holder more or
\* less; nothing else touches the holders.
LEMMA OneHolderMore ==
    ASSUME NEW s \in Sessions, s \notin SlotHolders,
           SlotHolders' = SlotHolders \cup {s},
           LimitAccounted, limit \in Nat, stolen \in Nat,
           limit' + stolen' = limit + stolen + 1
    PROVE  LimitAccounted'
<1>1. Cardinality(SlotHolders \cup {s}) = Cardinality(SlotHolders) + 1
  BY HoldersFinite, FS_AddElement
<1>2. LimitAccounted' <=> limit' + stolen' = Cardinality(SlotHolders \cup {s})
  BY DEF LimitAccounted
<1> QED
  BY <1>1, <1>2 DEF LimitAccounted

\* The same for a session that gives its slot back.
LEMMA OneHolderLess ==
    ASSUME NEW s \in Sessions, s \in SlotHolders,
           SlotHolders' = SlotHolders \ {s},
           LimitAccounted, limit \in Nat, stolen \in Nat,
           limit' + stolen' = limit + stolen - 1
    PROVE  LimitAccounted'
<1>1. Cardinality(SlotHolders \ {s}) = Cardinality(SlotHolders) - 1
  BY HoldersFinite, FS_RemoveElement
<1>2. LimitAccounted' <=> limit' + stolen' = Cardinality(SlotHolders \ {s})
  BY DEF LimitAccounted
<1> QED
  BY <1>1, <1>2 DEF LimitAccounted

\* The same for a step that leaves the holders alone.
LEMMA SameHolders ==
    ASSUME SlotHolders' = SlotHolders, LimitAccounted,
           limit' + stolen' = limit + stolen
    PROVE  LimitAccounted'
BY DEF LimitAccounted

\* Every step moves limit by as much as the holders, or counts as stolen.
LEMMA SlotsStep ==
    Support /\ LimitAccounted /\ [Next]_vars => LimitAccounted'
<1> SUFFICES ASSUME Support, LimitAccounted, [Next]_vars
             PROVE  LimitAccounted'
  OBVIOUS
<1> USE DEF Support, TypeOK, MapSound, StartingStates, PutStates, PuttingStates,
        createVars, handlerVars, auxVars, Becomes
<1>1. ASSUME NEW s \in Sessions, Admit(s)
      PROVE  LimitAccounted'
  <2>1. /\ s \notin SlotHolders
        /\ SlotHolders' = SlotHolders \cup {s}
        /\ limit' + stolen' = limit + stolen + 1
    BY <1>1 DEF Admit, SlotHolders
  <2> QED
    BY <2>1, OneHolderMore
<1>2. ASSUME NEW s \in Sessions, StartFails(s) \/ AttemptFails(s)
      PROVE  LimitAccounted'
  <2>1. /\ s \in SlotHolders
        /\ SlotHolders' = SlotHolders \ {s}
        /\ limit' + stolen' = limit + stolen - 1
    BY <1>2 DEF StartFails, AttemptFails, SlotHolders
  <2> QED
    BY <2>1, OneHolderLess
<1>3. ASSUME NEW s \in Sessions,
             \/ Start(s) \/ CancelAndCleanup(s) \/ Respond(s)
             \/ ArmTimer(s) \/ Put(s)
             \/ DialRefused(s) \/ DialFound(s) \/ Dialed(s) \/ Handshaken(s)
             \/ Created(s)
      PROVE  LimitAccounted'
  <2>1. SlotHolders' = SlotHolders /\ UNCHANGED <<limit, stolen>>
    BY <1>3 DEF Start, CancelAndCleanup, Respond, ArmTimer, Put,
                DialRefused, DialFound, Dialed, Handshaken, Created, SlotHolders
  <2> QED
    BY <2>1, SameHolders
<1>4. ASSUME NEW h \in Handlers, ReleaseLimit(h)
      PROVE  LimitAccounted'
  <2>1. CASE h \in owner
    <3>1. job[h].sid \in Sessions
      BY <1>4 DEF ReleaseLimit, Step, JobsServed, Jobs
    <3>2. /\ job[h].sid \in SlotHolders
          /\ SlotHolders' = SlotHolders \ {job[h].sid}
          /\ limit' + stolen' = limit + stolen - 1
      BY <1>4, <2>1, <3>1 DEF ReleaseLimit, Step, OwnersSound, SlotHolders
    <3> QED
      BY <3>1, <3>2, OneHolderLess
  <2>2. CASE h \notin owner
    <3>1. SlotHolders' = SlotHolders /\ limit' + stolen' = limit + stolen
      BY <1>4, <2>2 DEF ReleaseLimit, SlotHolders
    <3> QED
      BY <3>1, SameHolders
  <2> QED
    BY <2>1, <2>2
<1>5. ASSUME NEW h \in Handlers,
             \/ NotFound(h) \/ Found(h) \/ Touch(h) \/ Remove(h)
             \/ ReleaseUsed(h) \/ Cancel(h)
      PROVE  LimitAccounted'
  <2>1. SlotHolders' = SlotHolders /\ UNCHANGED <<limit, stolen>>
    BY <1>5 DEF NotFound, Found, Touch, Remove, ReleaseUsed, Cancel,
                SlotHolders
  <2> QED
    BY <2>1, SameHolders
<1>6. ASSUME NEW h \in Handlers, NEW s \in Sessions,
             \/ \E kind \in {"delete", "touch"} : Request(h, kind, s)
             \/ Fire(h, s)
      PROVE  LimitAccounted'
  <2>1. SlotHolders' = SlotHolders /\ UNCHANGED <<limit, stolen>>
    BY <1>6 DEF Request, Fire, Serve, SlotHolders
  <2> QED
    BY <2>1, SameHolders
<1>7. CASE UNCHANGED vars
  <2>1. SlotHolders' = SlotHolders /\ UNCHANGED <<limit, stolen>>
    BY <1>7 DEF vars, SlotHolders
  <2> QED
    BY <2>1, SameHolders
<1> QED
  BY <1>1, <1>2, <1>3, <1>4, <1>5, <1>6, <1>7
     DEF Next, CreateStep, FinishCreate, HandlerStep, Serving

\* The sessions that were counted, and the DELETEs that have a slot given back
\* and still take a token for it.
Counted == {s \in Sessions : create[s] = "created"}
Taking == {h \in Handlers : pc[h] = "releaseUsed"}

\* What the used channel counts is finite.
LEMMA UsedSetsFinite ==
    ASSUME Support
    PROVE  /\ IsFiniteSet(Counted) /\ Cardinality(Counted) \in Nat
           /\ IsFiniteSet(Taking) /\ Cardinality(Taking) \in Nat
           /\ IsFiniteSet(freed) /\ Cardinality(freed) \in Nat
BY FS_Subset, FS_CardinalityType DEF Counted, Taking, Support, TypeOK

\* A step that leaves all of it alone keeps the account.
LEMMA SameUsed ==
    ASSUME UsedAccounted, UNCHANGED <<used, freed, stolen>>,
           Counted' = Counted, Taking' = Taking
    PROVE  UsedAccounted'
BY DEF UsedAccounted, Counted, Taking

\* A token is sent to used when its session is counted and taken when a slot is
\* given back, whoever gives it back.
LEMMA UsedStep ==
    Support /\ UsedAccounted /\ [Next]_vars => UsedAccounted'
<1> SUFFICES ASSUME Support, UsedAccounted, [Next]_vars
             PROVE  UsedAccounted'
  OBVIOUS
<1> USE DEF Support, TypeOK, createVars, handlerVars, auxVars, Becomes, Step
<1>1. UsedAccounted <=> used + Cardinality(freed) + stolen
                          = Cardinality(Counted) + Cardinality(Taking)
  BY DEF UsedAccounted, Counted, Taking
<1>2. UsedAccounted' <=> used' + Cardinality(freed') + stolen'
                           = Cardinality(Counted') + Cardinality(Taking')
  BY DEF UsedAccounted, Counted, Taking
<1>3. ASSUME NEW s \in Sessions,
             \/ Admit(s) \/ Start(s) \/ StartFails(s) \/ AttemptFails(s)
             \/ CancelAndCleanup(s) \/ Respond(s) \/ ArmTimer(s) \/ Put(s)
             \/ DialRefused(s) \/ DialFound(s) \/ Dialed(s) \/ Handshaken(s)
      PROVE  UsedAccounted'
  <2>1. UNCHANGED <<used, freed, stolen, pc>>
    BY <1>3
       DEF Admit, Start, StartFails, AttemptFails, CancelAndCleanup, Respond,
                ArmTimer, Put, DialRefused, DialFound, Dialed, Handshaken
  <2>2. Counted' = Counted
    BY <1>3
       DEF Admit, Start, StartFails, AttemptFails, CancelAndCleanup, Respond,
                ArmTimer, Put, DialRefused, DialFound, Dialed, Handshaken, Counted
  <2> QED
    BY <2>1, <2>2, SameUsed DEF Taking
<1>4. ASSUME NEW s \in Sessions, Created(s) PROVE UsedAccounted'
  <2>1. s \notin Counted /\ Counted' = Counted \cup {s} /\ Taking' = Taking
    BY <1>4 DEF Created, Counted, Taking
  <2>2. Cardinality(Counted') = Cardinality(Counted) + 1
    BY <2>1, UsedSetsFinite, FS_AddElement
  <2>3. used' = used + 1 /\ UNCHANGED <<freed, stolen>>
    BY <1>4 DEF Created
  <2> QED
    BY <1>1, <1>2, <2>1, <2>2, <2>3, UsedSetsFinite
<1>5. ASSUME NEW h \in Handlers, ReleaseLimit(h) PROVE UsedAccounted'
  <2>1. h \notin Taking /\ Taking' = Taking \cup {h} /\ Counted' = Counted
    BY <1>5 DEF ReleaseLimit, Counted, Taking
  <2>2. Cardinality(Taking') = Cardinality(Taking) + 1
    BY <2>1, UsedSetsFinite, FS_AddElement
  <2>3. Cardinality(freed') + stolen' = Cardinality(freed) + stolen + 1
    <3>1. CASE h \in owner
      <4>1. job[h].sid \notin freed /\ freed' = freed \cup {job[h].sid}
        BY <1>5, <3>1 DEF ReleaseLimit, OwnersSound
      <4>2. Cardinality(freed') = Cardinality(freed) + 1
        BY <4>1, UsedSetsFinite, FS_AddElement
      <4> QED
        BY <1>5, <3>1, <4>2, UsedSetsFinite DEF ReleaseLimit
    <3>2. CASE h \notin owner
      BY <1>5, <3>2, UsedSetsFinite DEF ReleaseLimit
    <3> QED
      BY <3>1, <3>2
  <2>4. stolen' \in Nat /\ Cardinality(freed') \in Nat /\ UNCHANGED used
    <3>1. UNCHANGED used /\ stolen' \in Nat
      BY <1>5 DEF ReleaseLimit
    <3>2. IsFiniteSet(freed')
      BY <1>5, UsedSetsFinite, FS_AddElement DEF ReleaseLimit
    <3> QED
      BY <3>1, <3>2, FS_CardinalityType
  <2> QED
    BY <1>1, <1>2, <2>1, <2>2, <2>3, <2>4, UsedSetsFinite
<1>6. ASSUME NEW h \in Handlers, ReleaseUsed(h) PROVE UsedAccounted'
  <2>1. h \in Taking /\ Taking' = Taking \ {h} /\ Counted' = Counted
    BY <1>6 DEF ReleaseUsed, Counted, Taking
  <2>2. Cardinality(Taking') = Cardinality(Taking) - 1
    BY <2>1, UsedSetsFinite, FS_RemoveElement
  <2>3. used' = used - 1 /\ UNCHANGED <<freed, stolen>>
    BY <1>6 DEF ReleaseUsed
  <2> QED
    BY <1>1, <1>2, <2>1, <2>2, <2>3, UsedSetsFinite
<1>7. ASSUME NEW h \in Handlers, NotFound(h) \/ Found(h) \/ Touch(h)
                                 \/ Remove(h) \/ Cancel(h)
      PROVE  UsedAccounted'
  <2>1. UNCHANGED <<used, freed, stolen, create>>
    BY <1>7 DEF NotFound, Found, Touch, Remove, Cancel
  <2>2. Taking' = Taking
    BY <1>7 DEF NotFound, Found, Touch, Remove, Cancel, Taking
  <2> QED
    BY <2>1, <2>2, SameUsed DEF Counted
<1>8. ASSUME NEW h \in Handlers, NEW s \in Sessions,
             \/ \E kind \in {"delete", "touch"} : Request(h, kind, s)
             \/ Fire(h, s)
      PROVE  UsedAccounted'
  <2>1. UNCHANGED <<used, freed, stolen, create>>
    BY <1>8 DEF Request, Fire, Serve
  <2>2. Taking' = Taking
    BY <1>8 DEF Request, Fire, Serve, Taking
  <2> QED
    BY <2>1, <2>2, SameUsed DEF Counted
<1>9. CASE UNCHANGED vars
  BY <1>9, SameUsed DEF vars, Counted, Taking
<1> QED
  BY <1>3, <1>4, <1>5, <1>6, <1>7, <1>8, <1>9 DEF Next, CreateStep, FinishCreate, HandlerStep, Serving

----------------------------------------------------------------------------
\* The inductive invariant holds in every reachable state of the hub.
THEOREM Invariance == Spec => []IInv
<1>1. IInv /\ [Next]_vars => IInv'
  BY TypeStep, JobsStep, MapStep, OwnersStep, ContainersStep, SlotsStep,
     UsedStep
     DEF IInv, Support, SlotsAccounted
<1> QED
  BY <1>1, InitIInv, PTL DEF Spec

\* No failure path of create, and no race between the timer, the client and a
\* second DELETE, loses a token of either channel or takes one unaccounted.
THEOREM SlotsConserved == Spec => []SlotsAccounted
BY Invariance, PTL DEF IInv

\* The hub exceeds its limit by no more than the second releases.
THEOREM OverCommit == Spec => []OverCommitBounded
<1>1. IInv => OverCommitBounded
  BY HoldersFinite
     DEF IInv, Support, TypeOK, SlotsAccounted, LimitAccounted, OverCommitBounded
<1> QED
  BY <1>1, Invariance, PTL

\* Every running container is a session's, or some handler is about to stop
\* it: create's failure paths and deletion forget none.
THEOREM NoForgottenContainer == Spec => []ContainersOwned
BY Invariance, PTL DEF IInv

----------------------------------------------------------------------------
(* Timers.                                                                 *)

\* A DELETE of the session is on its way to it.
Expiring(h, s) ==
    pc[h] \in {"lookup", "locking"} /\ job[h].sid = s /\ job[h].kind # "touch"

\* The same before the session is put: its timer runs, or fired too early.
TimedBeforePut(s) ==
    \/ s \in armed
    \/ s \in lapsed
    \/ \E h \in Handlers :
         pc[h] = "lookup" /\ job[h].sid = s /\ job[h].kind = "expire"

\* A handler past sessions.Get serves a session that was put.
TimersSound ==
    /\ \A h \in Handlers : pc[h] = "locking" => create[job[h].sid] \in PutStates
    /\ \A s \in Sessions : create[s] = "putting" => TimedBeforePut(s)
    /\ \A s \in sessions :
         \/ s \in armed
         \/ s \in lapsed
         \/ \E h \in Handlers : Expiring(h, s)

\* At first there is no session to expire.
LEMMA TimersInit == Init => TimersSound
BY DEF Init, TimersSound

\* A timer is closed only by what starts another or deletes the session.
LEMMA TimersStep == Support /\ TimersSound /\ [Next]_vars => TimersSound'
<1> SUFFICES ASSUME Support, TimersSound, [Next]_vars PROVE TimersSound'
  OBVIOUS
<1> USE DEF Support, TypeOK, JobsServed, MapSound, TimersSound, TimedBeforePut,
        Expiring, PutStates, PuttingStates, createVars, handlerVars, auxVars,
        Becomes, Step, Jobs
<1>1. ASSUME NEW s \in Sessions, Admit(s)
      PROVE  TimersSound'
  BY <1>1 DEF Admit
<1>2. ASSUME NEW s \in Sessions, Start(s)
      PROVE  TimersSound'
  BY <1>2 DEF Start
<1>3. ASSUME NEW s \in Sessions, StartFails(s)
      PROVE  TimersSound'
  BY <1>3 DEF StartFails
<1>4. ASSUME NEW s \in Sessions, AttemptFails(s)
      PROVE  TimersSound'
  BY <1>4 DEF AttemptFails
<1>5. ASSUME NEW s \in Sessions, CancelAndCleanup(s)
      PROVE  TimersSound'
  BY <1>5 DEF CancelAndCleanup
<1>6. ASSUME NEW s \in Sessions, Respond(s)
      PROVE  TimersSound'
  BY <1>6 DEF Respond
<1>7. ASSUME NEW s \in Sessions, ArmTimer(s)
      PROVE  TimersSound'
  BY <1>7 DEF ArmTimer
<1>8. ASSUME NEW s \in Sessions, Put(s)
      PROVE  TimersSound'
  BY <1>8 DEF Put
<1>9. ASSUME NEW s \in Sessions, DialRefused(s)
      PROVE  TimersSound'
  BY <1>9 DEF DialRefused
<1>10. ASSUME NEW s \in Sessions, DialFound(s)
      PROVE  TimersSound'
  BY <1>10 DEF DialFound
<1>11. ASSUME NEW s \in Sessions, Dialed(s) \/ Handshaken(s)
      PROVE  TimersSound'
  BY <1>11 DEF Dialed, Handshaken
<1>12. ASSUME NEW s \in Sessions, Created(s)
      PROVE  TimersSound'
  BY <1>12 DEF Created
<1>13. ASSUME NEW h \in Handlers, NEW s \in Sessions,
             NEW kind \in {"delete", "touch"}, Request(h, kind, s)
      PROVE  TimersSound'
  BY <1>13 DEF Request, Serve, Kinds
<1>14. ASSUME NEW h \in Handlers, NEW s \in Sessions, Fire(h, s)
      PROVE  TimersSound'
  BY <1>14 DEF Fire, Serve, Kinds
<1>15. ASSUME NEW h \in Handlers, NotFound(h)
      PROVE  TimersSound'
  BY <1>15 DEF NotFound
<1>16. ASSUME NEW h \in Handlers, Found(h)
      PROVE  TimersSound'
  BY <1>16 DEF Found
<1>17. ASSUME NEW h \in Handlers, Touch(h)
      PROVE  TimersSound'
  BY <1>17 DEF Touch
<1>18. ASSUME NEW h \in Handlers, Remove(h)
      PROVE  TimersSound'
  BY <1>18 DEF Remove
<1>19. ASSUME NEW h \in Handlers, ReleaseLimit(h)
      PROVE  TimersSound'
  BY <1>19 DEF ReleaseLimit
<1>20. ASSUME NEW h \in Handlers, ReleaseUsed(h)
      PROVE  TimersSound'
  BY <1>20 DEF ReleaseUsed
<1>21. ASSUME NEW h \in Handlers, Cancel(h)
      PROVE  TimersSound'
  BY <1>21 DEF Cancel
<1>22. CASE UNCHANGED vars
  BY <1>22 DEF vars
<1> QED
  BY <1>1, <1>2, <1>3, <1>4, <1>5, <1>6, <1>7, <1>8, <1>9, <1>10, <1>11, <1>12,
     <1>13, <1>14, <1>15, <1>16, <1>17, <1>18, <1>19, <1>20, <1>21, <1>22
     DEF Next, CreateStep, FinishCreate, HandlerStep, Serving

\* A session on the map can still expire by itself: touching it, streaming
\* from it and recording it re-arm its timer, and a timer that has fired has a
\* DELETE under way, unless it fired before the session was put.
THEOREM ExpiryHolds == Spec => []LiveSessionExpires
<1>1. TimersSound => LiveSessionExpires
  BY DEF TimersSound, Expiring, LiveSessionExpires
<1>2. IInv /\ TimersSound /\ [Next]_vars => TimersSound'
  BY TimersStep DEF IInv
<1> QED
  BY <1>1, <1>2, TimersInit, Invariance, PTL DEF Spec

\* "Not ready" is the truth unless a slot has been released twice: sessions on
\* the map hold slots.
THEOREM NotReadySound == Spec => []NotReadyMeansFull
<1>1. IInv => NotReadyMeansFull
  <2> SUFFICES ASSUME IInv, ~Ready, stolen = 0 PROVE limit = Size
    BY DEF NotReadyMeansFull
  <2>1. sessions \subseteq SlotHolders
    BY DEF IInv, Support, TypeOK, MapSound, PutStates, PuttingStates,
           StartingStates,
           SlotHolders
  <2>2. /\ IsFiniteSet(sessions) /\ Cardinality(sessions) \in Nat
        /\ Cardinality(sessions) <= Cardinality(SlotHolders)
    BY <2>1, HoldersFinite, FS_Subset, FS_CardinalityType
  <2>3. limit = Cardinality(SlotHolders) /\ limit \in 0..Size
    BY DEF IInv, Support, TypeOK, SlotsAccounted, LimitAccounted
  <2> QED
    BY <2>2, <2>3 DEF Ready
<1> QED
  BY <1>1, Invariance, PTL

----------------------------------------------------------------------------
(* Who can hang in queue.Release, with sess.Lock held.                     *)

\* Without a race of two DELETEs of one session, the limit channel never keeps a
\* DELETE waiting, and the used channel only until creates that are being
\* recorded are counted.
THEOREM HangsOnlyBehindCreate == Spec => []WaitsForCreate
<1>1. ASSUME IInv PROVE WaitsForCreate
  <2> SUFFICES ASSUME NEW h \in owner, Blocked(h), stolen = 0,
                      \A s \in freed : create[s] \notin PuttingStates
               PROVE  FALSE
    BY DEF WaitsForCreate
  <2> USE <1>1 DEF IInv, Support, TypeOK
  <2>1. h \in Handlers /\ job[h].sid \in Sessions
    BY DEF OwnersSound, JobsServed, Jobs
  <2>2. CASE pc[h] = "releaseLimit" /\ limit = 0
    <3>1. job[h].sid \in SlotHolders
      BY <2>1, <2>2
         DEF OwnersSound, SlotHolders, PutStates, PuttingStates, StartingStates
    <3>2. Cardinality(SlotHolders) = 0
      BY <2>2 DEF SlotsAccounted, LimitAccounted
    <3> QED
      BY <3>1, <3>2, HoldersFinite, FS_EmptySet
  <2>3. CASE pc[h] = "releaseUsed" /\ used = 0
    <3>1. freed \subseteq Counted
      BY DEF MapSound, PutStates, Counted
    <3>2. Cardinality(freed) <= Cardinality(Counted)
      BY <3>1, UsedSetsFinite, FS_Subset
    <3>3. h \in Taking /\ Cardinality(Taking) # 0
      BY <2>1, <2>3, UsedSetsFinite, FS_EmptySet DEF Taking
    <3>4. Cardinality(freed) = Cardinality(Counted) + Cardinality(Taking)
      BY <2>3, UsedSetsFinite DEF SlotsAccounted, UsedAccounted, Counted, Taking
    <3> QED
      BY <3>2, <3>3, <3>4, UsedSetsFinite
  <2> QED
    BY <2>2, <2>3 DEF Blocked
<1> QED
  BY <1>1, Invariance, PTL

----------------------------------------------------------------------------
(* Until a second DELETE, the hub is a slot pool.                          *)

\* The promise of the queue, read at the sessions and not at the requests.
Slots == INSTANCE SlotPool WITH Parties <- Sessions, holders <- SlotHolders

\* What a step does to the holders: one session takes a slot that is free, one
\* gives its own back, or they stay.
LEMMA HoldersMove ==
    ASSUME Support, [Next]_vars
    PROVE  \/ \E s \in Sessions \ SlotHolders :
                limit < Size /\ SlotHolders' = SlotHolders \cup {s}
           \/ \E s \in SlotHolders : SlotHolders' = SlotHolders \ {s}
           \/ SlotHolders' = SlotHolders
<1> USE DEF Support, TypeOK, MapSound, StartingStates, PutStates, PuttingStates,
        createVars, handlerVars, auxVars, Becomes
<1>1. ASSUME NEW s \in Sessions, Admit(s)
      PROVE  /\ s \notin SlotHolders /\ limit < Size
             /\ SlotHolders' = SlotHolders \cup {s}
  BY <1>1 DEF Admit, SlotHolders
<1>2. ASSUME NEW s \in Sessions, StartFails(s) \/ AttemptFails(s)
      PROVE  s \in SlotHolders /\ SlotHolders' = SlotHolders \ {s}
  BY <1>2 DEF StartFails, AttemptFails, SlotHolders
<1>3. ASSUME NEW s \in Sessions,
             \/ Start(s) \/ CancelAndCleanup(s) \/ Respond(s)
             \/ ArmTimer(s) \/ Put(s)
             \/ DialRefused(s) \/ DialFound(s) \/ Dialed(s) \/ Handshaken(s)
             \/ Created(s)
      PROVE  SlotHolders' = SlotHolders
  BY <1>3 DEF Start, CancelAndCleanup, Respond, ArmTimer, Put,
     DialRefused, DialFound, Dialed, Handshaken, Created, SlotHolders
<1>4. ASSUME NEW h \in Handlers, ReleaseLimit(h), h \in owner
      PROVE  /\ job[h].sid \in SlotHolders
             /\ SlotHolders' = SlotHolders \ {job[h].sid}
  <2>1. job[h].sid \in Sessions
    BY <1>4 DEF ReleaseLimit, Step, JobsServed, Jobs
  <2> QED
    BY <1>4, <2>1 DEF ReleaseLimit, Step, OwnersSound, SlotHolders
<1>5. ASSUME NEW h \in Handlers,
             \/ NotFound(h) \/ Found(h) \/ Touch(h) \/ Remove(h)
             \/ ReleaseLimit(h) /\ h \notin owner
             \/ ReleaseUsed(h) \/ Cancel(h)
      PROVE  SlotHolders' = SlotHolders
  BY <1>5 DEF NotFound, Found, Touch, Remove, ReleaseLimit, ReleaseUsed,
     Cancel, SlotHolders
<1>6. ASSUME NEW h \in Handlers, NEW s \in Sessions,
             \/ \E kind \in {"delete", "touch"} : Request(h, kind, s)
             \/ Fire(h, s)
      PROVE  SlotHolders' = SlotHolders
  BY <1>6 DEF Request, Fire, Serve, SlotHolders
<1>7. CASE UNCHANGED vars
  BY <1>7 DEF vars, SlotHolders
<1>8. ASSUME NEW s \in Sessions, Admit(s) \/ CreateStep(s)
      PROVE  \/ \E t \in Sessions \ SlotHolders :
                  limit < Size /\ SlotHolders' = SlotHolders \cup {t}
             \/ \E t \in SlotHolders : SlotHolders' = SlotHolders \ {t}
             \/ SlotHolders' = SlotHolders
  BY <1>1, <1>2, <1>3, <1>8 DEF CreateStep, FinishCreate
<1>9. ASSUME NEW h \in Handlers, HandlerStep(h)
      PROVE  \/ \E t \in SlotHolders : SlotHolders' = SlotHolders \ {t}
             \/ SlotHolders' = SlotHolders
  BY <1>4, <1>5, <1>9 DEF HandlerStep, Serving
<1> QED
  BY <1>6, <1>7, <1>8, <1>9 DEF Next

\* As long as no slot has been released a second time, every step of the hub is
\* a step of the slot pool or leaves its holders alone: the races of create,
\* timers and clients over one session break nothing of what -limit promises
\* but in the one way that stolen counts.
THEOREM PoolUntilSecondRelease ==
    Spec => /\ Slots!Init
            /\ [][stolen = 0 => [Slots!Next]_SlotHolders]_vars
<1>1. Init => Slots!Init
  BY DEF Init, Slots!Init, SlotHolders, StartingStates, PuttingStates
<1>2. ASSUME IInv, [Next]_vars, stolen = 0
      PROVE  [Slots!Next]_SlotHolders
  <2>1. CASE \E s \in Sessions \ SlotHolders :
               limit < Size /\ SlotHolders' = SlotHolders \cup {s}
    <3>1. PICK s \in Sessions \ SlotHolders :
            limit < Size /\ SlotHolders' = SlotHolders \cup {s}
      BY <2>1
    <3>2. Cardinality(SlotHolders) < Size
      BY <1>2, <3>1, HoldersFinite
         DEF IInv, Support, TypeOK, SlotsAccounted, LimitAccounted
    <3>3. Slots!Cardinality(SlotHolders) = Cardinality(SlotHolders)
      BY DEF Slots!Cardinality, Cardinality
    <3>4. Slots!Take(s)
      BY <3>1, <3>2, <3>3 DEF Slots!Take
    <3> QED
      BY <3>4 DEF Slots!Next
  <2>2. CASE \E s \in SlotHolders : SlotHolders' = SlotHolders \ {s}
    <3>1. PICK s \in SlotHolders : SlotHolders' = SlotHolders \ {s}
      BY <2>2
    <3>2. s \in Sessions /\ Slots!GiveBack(s)
      BY <3>1 DEF Slots!GiveBack, SlotHolders
    <3> QED
      BY <3>2 DEF Slots!Next
  <2> QED
    BY <1>2, <2>1, <2>2, HoldersMove DEF IInv
<1> QED
  BY <1>1, <1>2, Invariance, PTL DEF Spec

\* A hub no session of which is deleted twice is a slot pool.
THEOREM Refinement == Spec /\ [](stolen = 0) => Slots!Spec
<1>1. stolen = 0 /\ [stolen = 0 => [Slots!Next]_SlotHolders]_vars
        => [Slots!Next]_SlotHolders
  <2>1. (UNCHANGED vars) => SlotHolders' = SlotHolders
    BY DEF vars, SlotHolders
  <2> QED
    BY <2>1
<1> QED
  BY <1>1, PoolUntilSecondRelease, PTL DEF Slots!Spec
=============================================================================
