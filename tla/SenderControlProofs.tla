------------------------- MODULE SenderControlProofs -------------------------
(***************************************************************************)
(* Theorems about SenderControl, for any number of threads that serve      *)
(* requests at the same time: what survives the end of the process, that   *)
(* every start and stop of the sender is announced, that the sender        *)
(* follows the settings once a request had it to itself, and that nobody   *)
(* waits for a lock that is not given back.                                *)
(***************************************************************************)
EXTENDS SenderControl, TLAPS

(* Where a thread may be, and where it may go from Save.                   *)
PlacesOK ==
    /\ at \in [Controllers -> Places]
    /\ after \in [Controllers -> {"idle", "toggle", "apply", "overrideport", "activateleg",
                                  "setleg"}]

(* The store: the settings in memory are complete, and the thread in Save  *)
(* holds its lock.  A process that has ended by std::terminate leaves the  *)
(* store as it was.                                                        *)
StoreShape ==
    /\ saver \in Controllers \cup {Null}
    /\ config = [k \in Keys |-> config[k]]
    /\ (\A c \in Controllers : at[c] # "dead")
          => \A c \in Controllers : at[c] = "write" <=> saver = c

(* Once no change waits for its Save, loading the file would give the      *)
(* settings in memory.                                                     *)
FileCurrent ==
    ~unsaved /\ (\A c \in Controllers : at[c] \notin {"save", "write", "dead"})
        => MergeDefaults(file) = config

StoreInv == PlacesOK /\ StoreShape /\ FileCurrent

LEMMA StoreInit == Init => StoreInv
  BY ControlAssumption
  DEF Init, Load, StoreInv, PlacesOK, StoreShape, FileCurrent, Places, MergeDefaults

(* Only Save leaves the places "save" and "write", and a step that changes *)
(* settings goes there or counts as unsaved.                               *)
LEMMA StoreStep == StoreInv /\ [Next]_vars => StoreInv'
<1> SUFFICES ASSUME StoreInv, [Next]_vars PROVE StoreInv'
  OBVIOUS
<1> USE ControlAssumption
    DEF StoreInv, PlacesOK, StoreShape, FileCurrent, Places, storeVars, requestVars,
        Goto, SaveThen, Saved, Return, StoreFree
<1>1. ASSUME NEW c \in Controllers, WebPost(c) PROVE StoreInv'
  BY <1>1 DEF WebPost, Change, Merged
<1>2. ASSUME NEW c \in Controllers, WebPostThrows(c) PROVE StoreInv'
  BY <1>2 DEF WebPostThrows, ChangeThrows, Merged
<1>3. ASSUME NEW c \in Controllers, PatchSender(c) PROVE StoreInv'
  BY <1>3 DEF PatchSender
<1>4. ASSUME NEW c \in Controllers, SaveBegin(c) PROVE StoreInv'
  BY <1>4 DEF SaveBegin, SaveOpen, SaveFails
<1>5. ASSUME NEW c \in Controllers, SaveEnd(c) PROVE StoreInv'
  <2>1. MergeDefaults(config) = config
    BY DEF MergeDefaults
  <2>2. QED
    BY <1>5, <2>1 DEF SaveEnd, SaveWrite
<1>6. ASSUME NEW c \in Controllers, WebReadToggle(c) \/ WebToggle(c) PROVE StoreInv'
  BY <1>6 DEF WebReadToggle, WebToggle
<1>7. ASSUME NEW c \in Controllers, ActivateOverride(c) \/ ActivateOverridePort(c)
      PROVE  StoreInv'
  BY <1>7 DEF ActivateOverride, ActivateOverridePort, Override, Change, Merged
<1>8. ASSUME NEW c \in Controllers, ActivateLeg(c) \/ ActivateEnable(c) PROVE StoreInv'
  BY <1>8 DEF ActivateLeg, ActivateEnable, Override, Change, Merged
<1>9. ASSUME NEW c \in Controllers, ActivateSetLeg(c) \/ ApplySender(c) PROVE StoreInv'
  BY <1>9 DEF ActivateSetLeg, ApplySender
<1>10. ASSUME NEW c \in Controllers,
              StopFlag(c) \/ StopJoin(c) \/ StopJoined(c) \/ StopClose(c)
       PROVE  StoreInv'
  BY <1>10 DEF StopFlag, StopJoin, StopJoined, StopClose
<1>11. ASSUME NEW c \in Controllers, ConfigureOpen(c) PROVE StoreInv'
  BY <1>11 DEF ConfigureOpen
<1>12. ASSUME NEW c \in Controllers, ConfigureStart(c) \/ BumpVersion(c) PROVE StoreInv'
  BY <1>12 DEF ConfigureStart, BumpVersion
<1>13. ASSUME NEW c \in Controllers, ConfigureSpawn(c) PROVE StoreInv'
  BY <1>13 DEF ConfigureSpawn
<1>14. CASE SendLoopEnds \/ SendLoopSticks
  BY <1>14 DEF SendLoopEnds, SendLoopSticks
<1>15. CASE Restart
  BY <1>15 DEF Restart, Reload, MergeDefaults
<1>16. CASE UNCHANGED vars
  BY <1>16 DEF vars
<1>17. QED
  BY <1>1, <1>2, <1>3, <1>4, <1>5, <1>6, <1>7, <1>8, <1>9, <1>10, <1>11, <1>12, <1>13,
     <1>14, <1>15, <1>16 DEF Next, Serve, Save

(* A process that ends while no change waits to be saved comes up with the *)
(* settings it had, for any number of threads that change settings at the  *)
(* same time: Update and Save of Config take the lock separately, but Save *)
(* writes what is in memory when it holds it.                              *)
THEOREM SettingsSurvive == Spec => RestartKeepsSettings
<1>1. StoreInv /\ [Next]_vars
        => [Restart => \/ config' = config
                       \/ unsaved
                       \/ \E t \in Controllers : at[t] \in {"save", "write", "dead"}]_vars
  BY DEF StoreInv, FileCurrent, Restart, Reload
<1>2. QED
  BY <1>1, StoreInit, StoreStep, PTL DEF Spec, RestartKeepsSettings

----------------------------------------------------------------------------
(* A start or stop that has not been announced has a request that will     *)
(* announce it: one that joins or is past the join, or one that will join  *)
(* the thread, since a join only throws when another request has joined    *)
(* or is joining.                                                          *)
Announcer ==
    dirty => \/ \E c \in Controllers :
                   at[c] \in {"joining", "close", "open", "start", "spawn", "bump", "dead"}
             \/ joinable /\ \E c \in Controllers : at[c] = "join"

(* A thread that runs can be joined.                                       *)
EngineInv ==
    /\ PlacesOK
    /\ live => joinable
    /\ Announcer

LEMMA EngineInit == Init => EngineInv
  BY DEF Init, EngineInv, Announcer, PlacesOK, Places

LEMMA EngineStep == EngineInv /\ StoreInv /\ [Next]_vars => EngineInv'
<1> SUFFICES ASSUME EngineInv, StoreInv, [Next]_vars PROVE EngineInv'
  OBVIOUS
<1>0. PlacesOK'
  BY StoreStep DEF StoreInv
<1> USE <1>0 DEF EngineInv, Announcer, PlacesOK, engineVars, requestVars, storeVars, restVars,
        Goto, Return, SaveThen, Saved
<1>1. ASSUME NEW c \in Controllers, WebPost(c) \/ WebPostThrows(c) \/ PatchSender(c)
      PROVE  EngineInv'
  BY <1>1 DEF WebPost, WebPostThrows, PatchSender
<1>2. ASSUME NEW c \in Controllers, SaveBegin(c) \/ SaveEnd(c) PROVE EngineInv'
  BY <1>2 DEF SaveBegin, SaveEnd
<1>3. ASSUME NEW c \in Controllers, WebReadToggle(c) \/ WebToggle(c) \/ ActivateSetLeg(c)
      PROVE  EngineInv'
  BY <1>3 DEF WebReadToggle, WebToggle, ActivateSetLeg
<1>4. ASSUME NEW c \in Controllers, ActivateOverride(c) \/ ActivateOverridePort(c)
                                       \/ ActivateLeg(c) \/ ActivateEnable(c)
      PROVE  EngineInv'
  BY <1>4 DEF ActivateOverride, ActivateOverridePort, ActivateLeg, ActivateEnable, Override
<1>5. ASSUME NEW c \in Controllers, ApplySender(c) PROVE EngineInv'
  BY <1>5 DEF ApplySender
<1>6. ASSUME NEW c \in Controllers, StopFlag(c) PROVE EngineInv'
  BY <1>6 DEF StopFlag
<1>7. ASSUME NEW c \in Controllers, StopJoin(c) PROVE EngineInv'
  BY <1>7 DEF StopJoin
<1>8. ASSUME NEW c \in Controllers, StopJoined(c) PROVE EngineInv'
  BY <1>8 DEF StopJoined
<1>9. ASSUME NEW c \in Controllers, StopClose(c) PROVE EngineInv'
  BY <1>9 DEF StopClose
<1>10. ASSUME NEW c \in Controllers, ConfigureOpen(c) PROVE EngineInv'
  BY <1>10 DEF ConfigureOpen
<1>11. ASSUME NEW c \in Controllers, ConfigureStart(c) \/ BumpVersion(c) PROVE EngineInv'
  BY <1>11 DEF ConfigureStart, BumpVersion
<1>12. ASSUME NEW c \in Controllers, ConfigureSpawn(c) PROVE EngineInv'
  BY <1>12 DEF ConfigureSpawn
<1>13. CASE SendLoopEnds \/ SendLoopSticks
  BY <1>13 DEF SendLoopEnds, SendLoopSticks
<1>14. CASE Restart
  BY <1>14 DEF Restart
<1>15. CASE UNCHANGED vars
  BY <1>15 DEF vars
<1>16. QED
  BY <1>1, <1>2, <1>3, <1>4, <1>5, <1>6, <1>7, <1>8, <1>9, <1>10, <1>11, <1>12, <1>13,
     <1>14, <1>15 DEF Next, Serve, Save

(* Every start and stop of the sender has been announced when no request   *)
(* is being served, for any number of requests at the same time, those     *)
(* whose join or whose ApplySender throws included.                        *)
THEOREM RequestsBump == Spec => []ChangesBumped
<1>1. EngineInv => ChangesBumped
  BY DEF EngineInv, Announcer, ChangesBumped, Idle
<1>2. QED
  BY <1>1, StoreInit, StoreStep, EngineInit, EngineStep, PTL DEF Spec
----------------------------------------------------------------------------
(* The sender is as the configuration wants it, or as it wants it but for  *)
(* the leg switch.                                                         *)
Applied == \/ failed /\ ~run
           \/ Unusable(config)
           \/ /\ run = config.enabled
              /\ run => dest = Destination(config) /\ leg = config.leg
Unswitched == \/ failed /\ ~run
              \/ Unusable(config)
              \/ run = config.enabled /\ (run => dest = Destination(config))

(* The values that are tested for their truth, and one snapshot a thread.  *)
Flags ==
    /\ snap = [c \in Controllers |-> snap[c]]
    /\ run \in BOOLEAN /\ joinable \in BOOLEAN
    /\ config.enabled \in BOOLEAN /\ staged.enabled \in BOOLEAN
    /\ "enabled" \in DOMAIN file => file.enabled \in BOOLEAN

(* At most one request is being served.                                    *)
Solo ==
    \A c \in Controllers, d \in Controllers :
        c # d /\ at[c] \notin {"idle", "dead"} => at[d] = "idle"

(* What a request that has the sender to itself has done, by the place it  *)
(* has come to: an update of the leg switch alone leaves the rest applied; *)
(* any other request has read the settings by the time it stops the sender *)
(* and applies them when it starts it.                                     *)
Progress(c) ==
    /\ at[c] = "bump" => partial \/ Applied
    /\ at[c] \in {"toggle", "switch"} => partial \/ Unswitched
    /\ at[c] \in {"save", "write"} =>
          after[c] # "idle" /\ (after[c] = "toggle" => partial \/ Unswitched)
    /\ at[c] \in {"switch", "stop", "join", "joining", "close", "open"} =>
          partial \/ snap[c] = config
    /\ at[c] \in {"join", "joining", "close", "open", "start"} => ~run
    /\ at[c] = "join" => joinable
    /\ at[c] \in {"close", "open", "start", "spawn"} => ~joinable
    /\ at[c] = "open" => snap[c].enabled /\ sockets = 0
    /\ at[c] \in {"start", "spawn"} =>
          partial \/ (config.enabled /\ dest = Destination(config) /\ leg = config.leg)
    /\ at[c] = "spawn" => run

Quiet ==
    /\ Solo
    /\ Idle => partial \/ Applied
    /\ \A c \in Controllers : Progress(c)

FollowInv == StoreInv /\ EngineInv /\ Flags /\ (~crossed => Quiet)

(* A start of the process, the first one or another, applies what it has   *)
(* loaded.                                                                 *)
LEMMA StartedApplied ==
    ASSUME NEW s, s.enabled \in BOOLEAN, NEW e \in Started(s)
    PROVE  /\ e.run \in BOOLEAN
           /\ \/ e.failed /\ ~e.run
              \/ Unusable(s)
              \/ e.run = s.enabled /\ (e.run => e.leg = s.leg)
<1>1. CASE s.enabled /\ ~Unusable(s)
  <2>1. PICK n \in 0..Legs : e = [run |-> n = Legs, sockets |-> n,
                                 leg |-> IF n = 0 THEN TRUE ELSE s.leg, failed |-> n < Legs]
    BY <1>1, Zenon DEF Started
  <2>2. e.run = (n = Legs) /\ e.failed = (n < Legs) /\ e.leg = IF n = 0 THEN TRUE ELSE s.leg
    BY <2>1, Zenon
  <2>3. CASE n = Legs
    <3>1. e.run = TRUE
      BY <2>2, <2>3, Zenon
    <3>2. e.leg = s.leg
      BY <2>2, <2>3 DEF Legs
    <3>3. QED
      BY <1>1, <3>1, <3>2
  <2>4. CASE n < Legs
    <3>1. n # Legs
      BY <2>4 DEF Legs
    <3>2. e.failed = TRUE /\ e.run = FALSE
      BY <2>2, <2>4, <3>1, Zenon
    <3>3. QED
      BY <3>2
  <2>5. QED
    BY <2>3, <2>4 DEF Legs
<1>2. CASE ~(s.enabled /\ ~Unusable(s))
  <2>1. e = [run |-> FALSE, sockets |-> 0, leg |-> TRUE, failed |-> FALSE]
    BY <1>2, Zenon DEF Started
  <2>2. QED
    BY <1>2, <2>1
<1>3. QED
  BY <1>1, <1>2

LEMMA FlagsStep == ASSUME Flags, StoreInv, [Next]_vars PROVE Flags'
<1> USE ControlAssumption, InputAssumption
    DEF Flags, StoreInv, StoreShape, storeVars, requestVars, engineVars, Goto, SaveThen, Saved,
        Return, Forget
<1>1. ASSUME NEW c \in Controllers, WebPost(c) PROVE Flags'
  BY <1>1 DEF WebPost, Change, Merged, Values, Keys
<1>2. ASSUME NEW c \in Controllers, WebPostThrows(c) PROVE Flags'
  BY <1>2 DEF WebPostThrows, ChangeThrows, Merged, Values, Keys
<1>3. ASSUME NEW c \in Controllers, PatchSender(c) PROVE Flags'
  BY <1>3 DEF PatchSender, Merged, Params, Keys
<1>4. ASSUME NEW c \in Controllers, SaveBegin(c) PROVE Flags'
  BY <1>4 DEF SaveBegin, SaveOpen, SaveFails, Empty
<1>5. ASSUME NEW c \in Controllers, SaveEnd(c) PROVE Flags'
  BY <1>5 DEF SaveEnd, SaveWrite, Empty
<1>6. ASSUME NEW c \in Controllers, WebReadToggle(c) \/ WebToggle(c) PROVE Flags'
  BY <1>6 DEF WebReadToggle, WebToggle
<1>7. ASSUME NEW c \in Controllers, ActivateOverride(c) \/ ActivateOverridePort(c)
      PROVE  Flags'
  BY <1>7 DEF ActivateOverride, ActivateOverridePort, Override, Change, Merged, Keys
<1>8. ASSUME NEW c \in Controllers, ActivateLeg(c) \/ ActivateEnable(c) PROVE Flags'
  BY <1>8 DEF ActivateLeg, ActivateEnable, Override, Change, Merged, Keys
<1>9. ASSUME NEW c \in Controllers, ActivateSetLeg(c) \/ ApplySender(c) PROVE Flags'
  BY <1>9 DEF ActivateSetLeg, ApplySender
<1>10. ASSUME NEW c \in Controllers,
              StopFlag(c) \/ StopJoin(c) \/ StopJoined(c) \/ StopClose(c)
       PROVE  Flags'
  BY <1>10 DEF StopFlag, StopJoin, StopJoined, StopClose
<1>11. ASSUME NEW c \in Controllers,
              ConfigureOpen(c) \/ ConfigureStart(c) \/ ConfigureSpawn(c) \/ BumpVersion(c)
       PROVE  Flags'
  BY <1>11 DEF ConfigureOpen, ConfigureStart, ConfigureSpawn, BumpVersion
<1>12. CASE SendLoopEnds \/ SendLoopSticks \/ UNCHANGED vars
  BY <1>12 DEF SendLoopEnds, SendLoopSticks, vars
<1>13. CASE Restart
  <2>1. config'.enabled \in BOOLEAN
    BY <1>13 DEF Restart, Reload, MergeDefaults, Keys, Defaults
  <2>2. PICK e \in Started(config') : run' = e.run /\ joinable' = e.run
    BY <1>13 DEF Restart
  <2>3. e.run \in BOOLEAN
    BY <2>1, <2>2, StartedApplied
  <2>4. QED
    BY <1>13, <2>1, <2>2, <2>3 DEF Restart, Reload, Unstaged
<1>14. QED
  BY <1>1, <1>2, <1>3, <1>4, <1>5, <1>6, <1>7, <1>8, <1>9, <1>10, <1>11, <1>12, <1>13
  DEF Next, Serve, Save

(* At most one request is being served after a step unless requests have   *)
(* crossed.                                                                *)
LEMMA SoloStep == ASSUME FollowInv, [Next]_vars, ~crossed' PROVE Solo'
<1> USE DEF FollowInv, Quiet, Solo, StoreInv, PlacesOK, engineVars, requestVars, storeVars,
        restVars, Goto, Return, SaveThen, Saved, Alone
<1>1. ASSUME NEW c \in Controllers, WebPost(c) \/ WebPostThrows(c) \/ PatchSender(c)
      PROVE  Solo'
  <2>1. CASE WebPost(c)
    <3>1. crossed' = (crossed \/ ~Alone(c))
      BY <2>1, Zenon DEF WebPost
    <3>2. ~crossed /\ Alone(c)
      BY <3>1, Zenon
    <3>3. QED
      BY <2>1, <3>2 DEF WebPost
  <2>2. CASE WebPostThrows(c)
    BY <2>2 DEF WebPostThrows
  <2>3. CASE PatchSender(c) /\ UNCHANGED <<at, crossed>>
    BY <2>3
  <2>4. CASE PatchSender(c) /\ Goto(c, "override") /\ crossed' = (crossed \/ ~Alone(c))
    <3>1. ~crossed /\ Alone(c)
      BY <2>4, Zenon
    <3>2. QED
      BY <2>4, <3>1
  <2>5. QED
    BY <1>1, <2>1, <2>2, <2>3, <2>4 DEF PatchSender
<1>2. ASSUME NEW c \in Controllers, SaveBegin(c) \/ SaveEnd(c) PROVE Solo'
  BY <1>2 DEF SaveBegin, SaveEnd
<1>3. ASSUME NEW c \in Controllers, WebReadToggle(c) \/ WebToggle(c) \/ ActivateSetLeg(c)
      PROVE  Solo'
  BY <1>3 DEF WebReadToggle, WebToggle, ActivateSetLeg
<1>4. ASSUME NEW c \in Controllers, ActivateOverride(c) \/ ActivateOverridePort(c)
                                       \/ ActivateLeg(c) \/ ActivateEnable(c)
      PROVE  Solo'
  BY <1>4 DEF ActivateOverride, ActivateOverridePort, ActivateLeg, ActivateEnable, Override
<1>5. ASSUME NEW c \in Controllers, ApplySender(c) PROVE Solo'
  <2>1. crossed' = (crossed /\ ~Alone(c))
    BY <1>5, Zenon DEF ApplySender
  <2>2. ~crossed \/ Alone(c)
    BY <2>1, Zenon
  <2>3. QED
    BY <1>5, <2>2 DEF ApplySender
<1>6. ASSUME NEW c \in Controllers,
             StopFlag(c) \/ StopJoin(c) \/ StopJoined(c) \/ StopClose(c)
      PROVE  Solo'
  BY <1>6 DEF StopFlag, StopJoin, StopJoined, StopClose
<1>7. ASSUME NEW c \in Controllers,
             ConfigureOpen(c) \/ ConfigureStart(c) \/ ConfigureSpawn(c) \/ BumpVersion(c)
      PROVE  Solo'
  BY <1>7 DEF ConfigureOpen, ConfigureStart, ConfigureSpawn, BumpVersion
<1>8. CASE SendLoopEnds \/ SendLoopSticks \/ UNCHANGED vars
  BY <1>8 DEF SendLoopEnds, SendLoopSticks, vars
<1>9. CASE Restart
  BY <1>9 DEF Restart
<1>10. QED
  BY <1>1, <1>2, <1>3, <1>4, <1>5, <1>6, <1>7, <1>8, <1>9 DEF Next, Serve, Save

(* A request that has the sender to itself makes progress; the others are  *)
(* idle, about which Progress says nothing.                                *)
LEMMA QuietStep == ASSUME FollowInv, [Next]_vars, ~crossed' PROVE Quiet'
<1>0. Solo' /\ Flags'
  BY SoloStep, FlagsStep DEF FollowInv
<1> USE <1>0 DEF FollowInv, EngineInv, Flags, Quiet, Solo, Idle, Progress, Applied, Unswitched,
        storeVars, requestVars, engineVars, restVars, Goto, SaveThen, Saved, Return, PlacesOK,
        StoreInv, Alone, Forget, Unusable, Destination
<1>1. ASSUME NEW c \in Controllers, WebPost(c) PROVE Quiet'
  BY <1>1 DEF WebPost, Change, Merged, Keys, StoreShape
<1>2. ASSUME NEW c \in Controllers, WebPostThrows(c) PROVE Quiet'
  BY <1>2 DEF WebPostThrows, ChangeThrows
<1>3. ASSUME NEW c \in Controllers, PatchSender(c) PROVE Quiet'
  BY <1>3 DEF PatchSender
<1>4. ASSUME NEW c \in Controllers, SaveBegin(c) PROVE Quiet'
  BY <1>4 DEF SaveBegin, SaveOpen, SaveFails
<1>5. ASSUME NEW c \in Controllers, SaveEnd(c) PROVE Quiet'
  BY <1>5 DEF SaveEnd, SaveWrite
<1>6. ASSUME NEW c \in Controllers, WebReadToggle(c) PROVE Quiet'
  BY <1>6 DEF WebReadToggle
<1>7. ASSUME NEW c \in Controllers, WebToggle(c) PROVE Quiet'
  BY <1>7 DEF WebToggle
<1>8. ASSUME NEW c \in Controllers, ActivateOverride(c) \/ ActivateOverridePort(c)
      PROVE  Quiet'
  BY <1>8 DEF ActivateOverride, ActivateOverridePort, Override, Change
<1>9. ASSUME NEW c \in Controllers, ActivateLeg(c) \/ ActivateEnable(c) PROVE Quiet'
  BY <1>9 DEF ActivateLeg, ActivateEnable, Override, Change
<1>10. ASSUME NEW c \in Controllers, ActivateSetLeg(c) PROVE Quiet'
  BY <1>10 DEF ActivateSetLeg
<1>11. ASSUME NEW c \in Controllers, ApplySender(c) PROVE Quiet'
  BY <1>11 DEF ApplySender
<1>12. ASSUME NEW c \in Controllers, StopFlag(c) PROVE Quiet'
  BY <1>12 DEF StopFlag
<1>13. ASSUME NEW c \in Controllers, StopJoin(c) PROVE Quiet'
  BY <1>13 DEF StopJoin
<1>14. ASSUME NEW c \in Controllers, StopJoined(c) PROVE Quiet'
  BY <1>14 DEF StopJoined
<1>15. ASSUME NEW c \in Controllers, StopClose(c) PROVE Quiet'
  BY <1>15 DEF StopClose
<1>16. ASSUME NEW c \in Controllers, ConfigureOpen(c) PROVE Quiet'
  BY <1>16 DEF ConfigureOpen, Legs
<1>17. ASSUME NEW c \in Controllers, ConfigureStart(c) PROVE Quiet'
  <2>1. /\ at' = [at EXCEPT ![c] = "spawn"] /\ run' = TRUE /\ at[c] = "start"
        /\ UNCHANGED <<config, after, snap, joinable, sockets, dest, leg, partial, crossed>>
    BY <1>17 DEF ConfigureStart
  <2>2. ASSUME NEW d \in Controllers PROVE Progress(d)'
    <3>1. CASE d = c
      BY <2>1, <3>1
    <3>2. CASE d # c
      BY <2>1, <3>2
    <3>3. QED
      BY <3>1, <3>2
  <2>3. ~Idle'
    BY <2>1
  <2>4. QED
    BY <2>2, <2>3
<1>18. ASSUME NEW c \in Controllers, ConfigureSpawn(c) PROVE Quiet'
  BY <1>18 DEF ConfigureSpawn
<1>19. ASSUME NEW c \in Controllers, BumpVersion(c) PROVE Quiet'
  BY <1>19 DEF BumpVersion
<1>20. CASE SendLoopEnds \/ SendLoopSticks \/ UNCHANGED vars
  BY <1>20 DEF SendLoopEnds, SendLoopSticks, vars
<1>21. CASE Restart
  BY <1>21, StartedApplied DEF Restart
<1>22. QED
  BY <1>1, <1>2, <1>3, <1>4, <1>5, <1>6, <1>7, <1>8, <1>9, <1>10, <1>11, <1>12, <1>13,
     <1>14, <1>15, <1>16, <1>17, <1>18, <1>19, <1>20, <1>21
  DEF Next, Serve, Save

LEMMA FollowInit == Init => FollowInv
<1> SUFFICES ASSUME Init PROVE FollowInv
  OBVIOUS
<1>1. StoreInv /\ EngineInv
  BY StoreInit, EngineInit
<1>2. "enabled" \in DOMAIN file => file.enabled \in BOOLEAN
  <2>1. file = Empty \/ file = [enabled |-> TRUE]
    BY DEF Init, Load, FirstFiles
  <2>2. CASE file = Empty
    BY <2>2 DEF Empty
  <2>3. CASE file = [enabled |-> TRUE]
    BY <2>3
  <2>4. QED
    BY <2>1, <2>2, <2>3
<1>3. config.enabled \in BOOLEAN
  BY <1>2 DEF Init, Load, MergeDefaults, Keys, Defaults
<1>4. PICK e \in Started(config) :
            /\ run = e.run /\ joinable = e.run /\ leg = e.leg /\ failed = e.failed
  BY DEF Init
<1>5. Flags
  BY <1>2, <1>3, <1>4, StartedApplied DEF Init, Flags, Unstaged
<1>6. Applied
  BY <1>3, <1>4, StartedApplied DEF Applied, Init
<1>7. Quiet
  BY <1>6 DEF Quiet, Solo, Progress, Init
<1>8. QED
  BY <1>1, <1>5, <1>7 DEF FollowInv

LEMMA FollowStep == FollowInv /\ [Next]_vars => FollowInv'
  BY StoreStep, EngineStep, FlagsStep, QuietStep DEF FollowInv

(* Whatever requests have been served at the same time and have left the   *)
(* sender in whichever state, from the next ApplySender that has it to     *)
(* itself the sender is at the end of each request as the configuration    *)
(* wants it, until requests cross again; for any updates and any number of *)
(* threads and restarts.                                                   *)
THEOREM RequestsFollowConfig == Spec => []SenderFollowsConfig
<1>1. FollowInv => SenderFollowsConfig
  BY DEF FollowInv, Quiet, Applied, SenderFollowsConfig
<1>2. QED
  BY <1>1, FollowInit, FollowStep, PTL DEF Spec

----------------------------------------------------------------------------
(* A lock has a holder that is being served; so that Save does not end a   *)
(* request that holds one, it goes on to another place.                    *)
LockInv ==
    /\ saver # Null => at[saver] \in {"write", "dead"}
    /\ holder # Null => holder \in Controllers /\ at[holder] # "idle"
    /\ \A c \in Controllers : at[c] \in {"save", "write"} => after[c] # "idle"

LEMMA LockStep == ASSUME LockInv, StoreInv, [Next]_vars PROVE LockInv'
<1>0. PlacesOK'
  BY StoreStep DEF StoreInv
<1> USE <1>0, ControlAssumption
    DEF LockInv, StoreInv, StoreShape, PlacesOK, engineVars, requestVars, storeVars, restVars,
        Goto, Return, SaveThen, Saved, StoreFree
<1>1. ASSUME NEW c \in Controllers, WebPost(c) PROVE LockInv'
  BY <1>1 DEF WebPost, Change
<1>2. ASSUME NEW c \in Controllers, WebPostThrows(c) \/ PatchSender(c) PROVE LockInv'
  <2>1. CASE WebPostThrows(c)
    BY <2>1 DEF WebPostThrows, ChangeThrows
  <2>2. CASE PatchSender(c)
    <3>1. /\ UNCHANGED <<saver, after>> /\ at[c] = "idle"
          /\ \/ at' = [at EXCEPT ![c] = "override"] /\ holder' = c
             \/ UNCHANGED <<at, holder>>
      BY <2>2 DEF PatchSender
    <3>2. QED
      BY <3>1
  <2>3. QED
    BY <1>2, <2>1, <2>2
<1>3. ASSUME NEW c \in Controllers, SaveBegin(c) PROVE LockInv'
  BY <1>3 DEF SaveBegin, SaveOpen, SaveFails
<1>4. ASSUME NEW c \in Controllers, SaveEnd(c) PROVE LockInv'
  BY <1>4 DEF SaveEnd, SaveWrite
<1>5. ASSUME NEW c \in Controllers, WebReadToggle(c) \/ WebToggle(c) \/ ActivateSetLeg(c)
      PROVE  LockInv'
  BY <1>5 DEF WebReadToggle, WebToggle, ActivateSetLeg
<1>6. ASSUME NEW c \in Controllers, ActivateOverride(c) \/ ActivateOverridePort(c)
      PROVE  LockInv'
  BY <1>6 DEF ActivateOverride, ActivateOverridePort, Override, Change
<1>7. ASSUME NEW c \in Controllers, ActivateLeg(c) \/ ActivateEnable(c) PROVE LockInv'
  BY <1>7 DEF ActivateLeg, ActivateEnable, Override, Change
<1>8. ASSUME NEW c \in Controllers,
             ApplySender(c) \/ StopFlag(c) \/ StopJoin(c) \/ StopJoined(c) \/ StopClose(c)
      PROVE  LockInv'
  BY <1>8 DEF ApplySender, StopFlag, StopJoin, StopJoined, StopClose
<1>9. ASSUME NEW c \in Controllers,
             ConfigureOpen(c) \/ ConfigureStart(c) \/ ConfigureSpawn(c) \/ BumpVersion(c)
      PROVE  LockInv'
  BY <1>9 DEF ConfigureOpen, ConfigureStart, ConfigureSpawn, BumpVersion
<1>10. CASE SendLoopEnds \/ SendLoopSticks \/ UNCHANGED vars
  BY <1>10 DEF SendLoopEnds, SendLoopSticks, vars
<1>11. CASE Restart
  BY <1>11 DEF Restart, Reload
<1>12. QED
  BY <1>1, <1>2, <1>3, <1>4, <1>5, <1>6, <1>7, <1>8, <1>9, <1>10, <1>11
  DEF Next, Serve, Save

(* No lock is left behind by a request that has been served or has thrown, *)
(* and the thread that a Stop joins has been told to end unless requests   *)
(* have crossed, for any number of them and of locks taken in turn.        *)
THEOREM RequestsWait == Spec => []WaitsEnd
<1>1. Init => FollowInv /\ LockInv
  BY FollowInit DEF Init, Load, LockInv
<1>2. FollowInv /\ LockInv /\ [Next]_vars => (FollowInv /\ LockInv)'
  BY FollowStep, LockStep DEF FollowInv
<1>3. FollowInv /\ LockInv => WaitsEnd
  BY DEF FollowInv, LockInv, Quiet, Progress, WaitsEnd
<1>4. QED
  BY <1>1, <1>2, <1>3, PTL DEF Spec
==============================================================================
