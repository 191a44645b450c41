---------------------------- MODULE SenderControl ----------------------------
(***************************************************************************)
(* How requests reach the sender: POST /api/config of the web server and   *)
(* PATCH of the IS-05 connection API (src/src/nmos/connection.cpp) change  *)
(* the configuration and call ApplySender of main, which stops the sender  *)
(* or configures it anew (src/src/rtp/rtpsender.cpp).                      *)
(*                                                                         *)
(* Both servers have a pool of threads.  A request is served by one of the *)
(* Controllers; m_mutex of the ConnectionApi keeps IS-05 requests apart,   *)
(* nothing keeps them apart from those of the web server, nor these from   *)
(* each other.  m_mutex of the sender guards its settings and sockets, but *)
(* neither m_bRun nor m_thread.                                            *)
(*                                                                         *)
(* The settings are whether the sender is enabled, an address, the port    *)
(* and the switch of one leg (address and switch of the other leg are      *)
(* alike).  The port stands for every setting that ApplySender converts    *)
(* from JSON: it may be of a type that cannot be converted (the page sends *)
(* null for a field that is empty).  They are kept by ConfigStore; the     *)
(* process may end at any time and starts again with what the file holds.  *)
(***************************************************************************)
EXTENDS Integers

CONSTANTS Controllers,  \* threads that serve requests
          Addrs,        \* addresses
          Ports,        \* ports
          Bad,          \* a port that cannot be converted
          Null,         \* json null or "auto"; no controller
          Faults,       \* what may go wrong: "throw" (an update), "save" (of the
                        \* settings), "stick" (the sending thread sleeps for good)
          Posts,        \* updates that web clients post
          Patches       \* values that IS-05 clients stage

Legs == 2

Keys == {"enabled", "addr", "port", "leg"}

(* The values of a setting, and what IS-05 may stage for it.               *)
Values == [enabled |-> BOOLEAN, addr |-> Addrs, port |-> Ports \cup {Bad}, leg |-> BOOLEAN]

Params == [enabled |-> BOOLEAN, addr |-> Addrs \cup {Null}, port |-> Ports \cup {Null},
           leg |-> BOOLEAN]

ASSUME ControlAssumption ==
    /\ Null \notin Addrs \cup Ports \cup Controllers \cup {Bad}
    /\ Bad \notin Ports
    /\ Addrs # {} /\ Ports # {}
    /\ Faults \subseteq {"throw", "save", "stick"}

(* An update and a patch have values for some of the keys.                 *)
ASSUME InputAssumption ==
    /\ \A p \in Posts : DOMAIN p \subseteq Keys /\ \A k \in DOMAIN p : p[k] \in Values[k]
    /\ \A p \in Patches : DOMAIN p \subseteq Keys /\ \A k \in DOMAIN p : p[k] \in Params[k]

DefaultPort == CHOOSE p \in Ports : TRUE

Defaults == [enabled |-> FALSE, addr |-> CHOOSE a \in Addrs : TRUE,
             port |-> DefaultPort, leg |-> TRUE]

VARIABLES
    config, file, saver, unsaved,    \* of ConfigStore
    staged,    \* m_jsSenderStaged
    holder,    \* the controller that holds m_mutex of the ConnectionApi, or Null
    at,        \* per thread: the step it is at
    after,     \* per thread: the step that follows Save
    snap,      \* per thread: the settings it has read, or Null
    run,       \* m_bRun
    joinable,  \* m_thread.joinable()
    live,      \* SendLoop is running
    stuck,     \* SendLoop sleeps for good
    sockets,   \* the number of m_vSockets
    dest,      \* the address and port of m_vLegs and m_nPort
    leg,       \* m_abLegEnabled of the leg
    \* history, read by properties only
    failed,    \* the last Configure could not open a socket
    dirty,     \* IsRunning has changed since the last BumpVersion
    partial,   \* an update that threw has not been followed by ApplySender
    crossed    \* a request has begun while another was being served, and no
               \* ApplySender has had the sender to itself since

INSTANCE ConfigStore

storeVars == <<config, file, saver, unsaved>>
engineVars == <<run, joinable, live, stuck, sockets, dest, leg, failed>>
restVars == <<dirty, partial, crossed>>
vars == <<storeVars, staged, holder, at, after, snap, engineVars, restVars>>

(* What is staged at first: no address, the port 5004.                     *)
Unstaged == [enabled |-> FALSE, addr |-> Null, port |-> DefaultPort, leg |-> TRUE]

(* The file of the first start: missing, or of a version that had no other *)
(* settings.                                                               *)
FirstFiles == {Empty, [enabled |-> TRUE]}

Destination(s) == <<s.addr, s.port>>

(* ApplySender throws: a setting it needs has the wrong type.              *)
Unusable(s) == s.enabled /\ s.port = Bad

(* ApplySender of main at the start: the sender starts or, when a socket   *)
(* cannot be opened, does not.                                             *)
Started(s) ==
    IF s.enabled /\ ~Unusable(s)
      THEN {[run |-> n = Legs, sockets |-> n, leg |-> IF n = 0 THEN TRUE ELSE s.leg,
             failed |-> n < Legs] : n \in 0..Legs}
      ELSE {[run |-> FALSE, sockets |-> 0, leg |-> TRUE, failed |-> FALSE]}

(* main has loaded the file and started the parts.                         *)
Init ==
    /\ \E f \in FirstFiles : Load(f)
    /\ staged = Unstaged
    /\ holder = Null
    /\ at = [t \in Controllers |-> "idle"]
    /\ after = [t \in Controllers |-> "idle"]
    /\ snap = [t \in Controllers |-> Null]
    /\ \E e \in Started(config) :
          /\ run = e.run /\ joinable = e.run /\ live = e.run
          /\ sockets = e.sockets /\ leg = e.leg /\ failed = e.failed
    /\ dest = Destination(config)
    /\ stuck = FALSE
    /\ dirty = FALSE /\ partial = FALSE /\ crossed = FALSE

(* The process is killed, or has ended itself, and is started again.  What *)
(* ApplySender throws here nobody catches: the process ends at once.       *)
Restart ==
    /\ Reload
    /\ staged' = Unstaged
    /\ holder' = Null
    /\ at' = [t \in Controllers |-> IF Unusable(config') THEN "dead" ELSE "idle"]
    /\ after' = [t \in Controllers |-> "idle"]
    /\ snap' = [t \in Controllers |-> Null]
    /\ \E e \in Started(config') :
          /\ run' = e.run /\ joinable' = e.run /\ live' = e.run
          /\ sockets' = e.sockets /\ leg' = e.leg /\ failed' = e.failed
    /\ dest' = Destination(config')
    /\ stuck' = FALSE
    /\ dirty' = FALSE /\ partial' = FALSE /\ crossed' = FALSE

Goto(t, where) == at' = [at EXCEPT ![t] = where]

(* The thread goes on to Save and from there to next.                      *)
SaveThen(t, next) ==
    /\ Goto(t, "save")
    /\ after' = [after EXCEPT ![t] = next]

(* The thread is done with the settings it has read.                       *)
Forget(t) == snap' = [snap EXCEPT ![t] = Null]

Saved(t) ==
    /\ Goto(t, after[t])
    /\ after' = [after EXCEPT ![t] = "idle"]

(* The request has been served or has thrown; its lock on the              *)
(* ConnectionApi is released.                                              *)
Return(c) ==
    /\ Goto(c, "idle")
    /\ Forget(c)
    /\ holder' = IF holder = c THEN Null ELSE holder

(* No other request is being served.                                       *)
Alone(c) == \A t \in Controllers \ {c} : at[t] = "idle"

SenderMutexFree == \A c \in Controllers : at[c] \notin {"start", "spawn"}

----------------------------------------------------------------------------
(* Save, called by Update and by SetValue.                                 *)
SaveBegin(t) ==
    /\ at[t] = "save"
    /\ \/ SaveOpen(t) /\ Goto(t, "write") /\ UNCHANGED after
       \/ SaveFails /\ Saved(t)
    /\ UNCHANGED <<staged, holder, snap, engineVars, restVars>>

SaveEnd(t) ==
    /\ at[t] = "write"
    /\ SaveWrite(t)
    /\ Saved(t)
    /\ UNCHANGED <<staged, holder, snap, engineVars, restVars>>

(* HandleApi: Config::Update with any of the sender's settings, changed or *)
(* not, then the callback of main.  An update of nothing but leg switches  *)
(* does not restart the sender.                                            *)
WebPost_AnyToggle(c) ==
    /\ at[c] = "idle"
    /\ \E p \in Posts :
          /\ Change(DOMAIN p, p)
          /\ SaveThen(c, IF "leg" \in DOMAIN p THEN "toggle" ELSE "apply")
    /\ crossed' = (crossed \/ ~Alone(c))
    /\ UNCHANGED <<staged, holder, snap, engineVars, dirty, partial>>

WebPost(c) ==
    /\ at[c] = "idle"
    /\ \E p \in Posts :
          /\ Change(DOMAIN p, p)
          /\ SaveThen(c, IF DOMAIN p = {"leg"} THEN "toggle" ELSE "apply")
    /\ crossed' = (crossed \/ ~Alone(c))
    /\ UNCHANGED <<staged, holder, snap, engineVars, dirty, partial>>

(* An update that throws is answered with an error and applied to nothing. *)
(* Bound: one key before the bad one, and one such update until the next   *)
(* ApplySender and the next Save.                                          *)
WebPostThrows(c) ==
    /\ at[c] = "idle" /\ ~partial /\ ~unsaved
    /\ \E p \in Posts : \E k \in DOMAIN p : ChangeThrows({k}, p)
    /\ partial' = TRUE
    /\ UNCHANGED <<staged, holder, at, after, snap, engineVars, dirty, crossed>>

(* The switch is read from the configuration and then set.                 *)
WebReadToggle(c) ==
    /\ at[c] = "toggle" /\ StoreFree
    /\ snap' = [snap EXCEPT ![c] = config]
    /\ Goto(c, "switch")
    /\ UNCHANGED <<storeVars, staged, holder, after, engineVars, restVars>>

WebToggle(c) ==
    /\ at[c] = "switch"
    /\ leg' = snap[c].leg
    /\ Goto(c, "bump") /\ Forget(c)
    /\ UNCHANGED <<storeVars, staged, holder, after, run, joinable, live, stuck,
                   sockets, dest, failed, restVars>>

----------------------------------------------------------------------------
(* PatchSender: any of the values is staged; with activate_immediate the   *)
(* activation follows under the same lock.                                 *)
PatchSender(c) ==
    /\ at[c] = "idle"
    /\ holder = Null
    /\ \E p \in Patches : staged' = Merged(staged, DOMAIN p, p)
    /\ \/ Goto(c, "override") /\ holder' = c /\ crossed' = (crossed \/ ~Alone(c))
       \/ UNCHANGED <<at, holder, crossed>>
    /\ UNCHANGED <<storeVars, after, snap, engineVars, dirty, partial>>

(* SetValue with the staged value of a key, when it has one.               *)
Override(c, key, next) ==
    /\ IF staged[key] = Null
         THEN Goto(c, next) /\ UNCHANGED <<storeVars, after>>
         ELSE Change({key}, staged) /\ SaveThen(c, next)
    /\ UNCHANGED <<staged, holder, snap, engineVars, restVars>>

(* ActivateSender: a staged address goes to the configuration, then the    *)
(* staged port, which is a number unless a client has staged another ...   *)
ActivateOverride(c) == at[c] = "override" /\ Override(c, "addr", "overrideport")

ActivateOverridePort(c) == at[c] = "overrideport" /\ Override(c, "port", "activateleg")

(* ... then the staged leg switch to the configuration and the sender ...  *)
ActivateLeg(c) == at[c] = "activateleg" /\ Override(c, "leg", "setleg")

ActivateSetLeg(c) ==
    /\ at[c] = "setleg"
    /\ leg' = staged.leg
    /\ Goto(c, "enable")
    /\ UNCHANGED <<storeVars, staged, holder, after, snap, run, joinable, live, stuck,
                   sockets, dest, failed, restVars>>

(* ... and the callback onSender stores master_enable and applies it.      *)
ActivateEnable(c) == at[c] = "enable" /\ Override(c, "enabled", "apply")

----------------------------------------------------------------------------
(* What a step of Stop or Configure leaves alone.                          *)
requestVars == <<storeVars, staged, after, partial, crossed>>

(* ApplySender reads the settings and converts them, which may throw: then *)
(* the request ends with the sender as it was, nothing stopped and no      *)
(* BumpVersion.  Otherwise Stop or Configure follows, which begins with    *)
(* Stop.                                                                   *)
ApplySender(c) ==
    /\ at[c] = "apply" /\ StoreFree
    /\ partial' = FALSE
    /\ crossed' = (crossed /\ ~Alone(c))
    /\ \/ /\ ~Unusable(config)
          /\ snap' = [snap EXCEPT ![c] = config]
          /\ Goto(c, "stop")
          /\ UNCHANGED holder
       \/ Unusable(config) /\ Return(c)
    /\ UNCHANGED <<storeVars, staged, after, engineVars, dirty>>

(* Stop: m_bRun is reset and the thread joined without a lock.             *)
StopFlag_KeepsRun(c) ==
    /\ at[c] = "stop"
    /\ Goto(c, IF joinable THEN "join" ELSE "close")
    /\ UNCHANGED <<requestVars, snap, holder, engineVars, dirty>>

StopFlag(c) ==
    /\ at[c] = "stop"
    /\ run' = FALSE
    /\ dirty' = (dirty \/ run)
    /\ Goto(c, IF joinable THEN "join" ELSE "close")
    /\ UNCHANGED <<requestVars, snap, holder, joinable, live, stuck, sockets, dest, leg,
                   failed>>

(* A thread that has been joined, or that another waits for, cannot be     *)
(* joined: that throws and ends the request.                               *)
StopJoin(c) ==
    /\ at[c] = "join"
    /\ IF joinable /\ \A t \in Controllers : at[t] # "joining"
         THEN Goto(c, "joining") /\ UNCHANGED <<holder, snap>>
         ELSE Return(c)
    /\ UNCHANGED <<requestVars, engineVars, dirty>>

StopJoined(c) ==
    /\ at[c] = "joining" /\ ~live
    /\ joinable' = FALSE
    /\ Goto(c, "close")
    /\ UNCHANGED <<requestVars, snap, holder, run, live, stuck, sockets, dest, leg, failed,
                   dirty>>

StopClose_ReturnsEarly(c) ==
    /\ at[c] = "close" /\ SenderMutexFree
    /\ sockets' = 0
    /\ \/ snap[c].enabled /\ Goto(c, "open") /\ UNCHANGED snap
       \/ ~snap[c].enabled /\ Goto(c, "idle") /\ Forget(c)
    /\ failed' = FALSE
    /\ UNCHANGED <<requestVars, holder, run, joinable, live, stuck, dest, leg, dirty>>

StopClose(c) ==
    /\ at[c] = "close" /\ SenderMutexFree
    /\ sockets' = 0
    /\ \/ snap[c].enabled /\ Goto(c, "open") /\ UNCHANGED snap
       \/ ~snap[c].enabled /\ Goto(c, "bump") /\ Forget(c)
    /\ failed' = FALSE
    /\ UNCHANGED <<requestVars, holder, run, joinable, live, stuck, dest, leg, dirty>>

(* Configure takes the lock again: a socket is added for each leg, and the *)
(* switch with the number of the socket set.  When one cannot be opened    *)
(* the sockets opened so far are kept; without a source or a leg nothing   *)
(* is set at all.  Sockets another request has left shift the numbers: a   *)
(* switch beyond the array is written past its end (into padding).         *)
ConfigureOpen(c) ==
    /\ at[c] = "open" /\ SenderMutexFree
    /\ \E n \in 0..Legs :
          /\ dest' \in {Destination(snap[c])} \cup IF n = 0 THEN {dest} ELSE {}
          /\ sockets' = sockets + n
          /\ failed' = (n < Legs)
          /\ leg' \in (IF n > 0 /\ sockets < Legs THEN {snap[c].leg} ELSE {})
                      \cup (IF n = Legs /\ sockets = 0 THEN {} ELSE {leg})
          /\ Goto(c, IF n = Legs THEN "start" ELSE "bump")
    /\ Forget(c)
    /\ UNCHANGED <<requestVars, holder, run, joinable, live, stuck, dirty>>

ConfigureStart(c) ==
    /\ at[c] = "start"
    /\ run' = TRUE
    /\ dirty' = (dirty \/ ~run)
    /\ Goto(c, "spawn")
    /\ UNCHANGED <<requestVars, snap, holder, joinable, live, stuck, sockets, dest, leg,
                   failed>>

(* m_thread = std::thread(...) ends the program when m_thread is joinable. *)
ConfigureSpawn(c) ==
    /\ at[c] = "spawn"
    /\ joinable' = TRUE
    /\ live' = ~joinable
    /\ stuck' = FALSE
    /\ IF joinable THEN at' = [t \in Controllers |-> "dead"] ELSE Goto(c, "bump")
    /\ UNCHANGED <<requestVars, snap, holder, run, sockets, dest, leg, failed, dirty>>

BumpVersion(c) ==
    /\ at[c] = "bump"
    /\ dirty' = FALSE
    /\ Return(c)
    /\ UNCHANGED <<requestVars, engineVars>>

(* SendLoop ends once m_bRun is FALSE, unless it sleeps until a time that  *)
(* does not come (module RtpSender), which matters only from then on.      *)
SendLoopEnds ==
    /\ live /\ ~run /\ ~stuck
    /\ live' = FALSE
    /\ UNCHANGED <<requestVars, snap, holder, at, run, joinable, stuck, sockets, dest, leg,
                   failed, dirty>>

SendLoopSticks ==
    /\ "stick" \in Faults
    /\ live /\ ~run /\ ~stuck
    /\ stuck' = TRUE
    /\ UNCHANGED <<requestVars, snap, holder, at, run, joinable, live, sockets, dest, leg,
                   failed, dirty>>

----------------------------------------------------------------------------
Serve(c) ==
    \/ WebReadToggle(c) \/ WebToggle(c)
    \/ ActivateOverride(c) \/ ActivateOverridePort(c) \/ ActivateLeg(c)
    \/ ActivateSetLeg(c) \/ ActivateEnable(c)
    \/ ApplySender(c) \/ StopFlag(c) \/ StopJoin(c) \/ StopJoined(c) \/ StopClose(c)
    \/ ConfigureOpen(c) \/ ConfigureStart(c) \/ ConfigureSpawn(c) \/ BumpVersion(c)

Save(t) == SaveBegin(t) \/ SaveEnd(t)

Next ==
    \/ \E c \in Controllers : \/ WebPost(c) \/ WebPostThrows(c) \/ PatchSender(c)
                              \/ Save(c) \/ Serve(c)
    \/ SendLoopEnds \/ SendLoopSticks
    \/ Restart

Spec == Init /\ [][Next]_vars

(* A request that has begun goes on, also when it waits for a lock that    *)
(* others take in turn, and so does the sending thread while it does not   *)
(* sleep for good; no client has to send a request.                        *)
FairSpec ==
    /\ Spec
    /\ WF_vars(SendLoopEnds)
    /\ \A c \in Controllers : SF_vars(Save(c) \/ Serve(c))

----------------------------------------------------------------------------
Places == {"idle", "save", "write", "toggle", "switch", "override", "overrideport",
           "activateleg", "setleg", "enable", "apply", "stop", "join", "joining", "close",
           "open", "start", "spawn", "bump", "dead"}

TypeOK ==
    /\ \A k \in Keys : config[k] \in Values[k] /\ staged[k] \in Params[k]
    /\ \A k \in DOMAIN file : file[k] \in Values[k]
    /\ saver \in Controllers \cup {Null}
    /\ holder \in Controllers \cup {Null}
    /\ at \in [Controllers -> Places] /\ after \in [Controllers -> Places]
    /\ \A c \in Controllers : snap[c] = Null \/ \A k \in Keys : snap[c][k] \in Values[k]
    /\ {unsaved, run, joinable, live, stuck, leg, failed, dirty, partial, crossed}
          \subseteq BOOLEAN
    /\ sockets \in Nat
    /\ dest \in Addrs \X (Ports \cup {Bad})

Idle == \A t \in Controllers : at[t] = "idle"

(* rtpsender.cpp:182 "source and sockets only change while the thread is   *)
(* stopped (Configure joins first)": SendLoop uses both without a lock.    *)
SocketsStable == [][sockets' # sockets => ~live \/ Restart]_vars

(* When no request is being served the sender runs exactly when it is      *)
(* enabled, with the configured destination and leg switch, or its last    *)
(* restart has failed: an update that takes a restart gets one, one that   *)
(* is applied live reaches the sender, from the web and from IS-05 alike,  *)
(* and a request that has the sender to itself undoes whatever requests    *)
(* served at the same time have left.  An update that threw half way is    *)
(* applied with the next one; settings of a wrong type change nothing.     *)
SenderFollowsConfig ==
    Idle /\ ~crossed
        => \/ failed /\ ~run
           \/ partial
           \/ Unusable(config)
           \/ /\ run = config.enabled
              /\ run => dest = Destination(config) /\ leg = config.leg

(* Every start and stop of the sender, a failed restart included, has been *)
(* announced to the registration thread when the requests have been        *)
(* served, however many at the same time and whichever of them threw.      *)
ChangesBumped == Idle => ~dirty

(* A process that ends while no change waits to be saved comes up with the *)
(* settings it had, whoever changed them last and however the two locks of *)
(* Update and Save were taken in turn; one that ends earlier comes up with *)
(* the settings saved before or, in the middle of Save, with the defaults. *)
RestartKeepsSettings ==
    [][Restart => \/ config' = config
                  \/ unsaved
                  \/ \E t \in Controllers : at[t] \in {"save", "write", "dead"}]_vars

(* Nobody waits for what does not come: a lock is held by a request that   *)
(* is still being served, whichever way the one before has ended, and the  *)
(* thread that Stop joins has been told to end, unless another request has *)
(* started it behind the back of this one.                                 *)
WaitsEnd ==
    /\ saver # Null => at[saver] \in {"write", "dead"}
    /\ holder # Null => at[holder] # "idle"
    /\ \A t \in Controllers : at[t] = "joining" /\ live /\ run => crossed

(* Every request is served, however many wait for the locks and the thread *)
(* at the same time, or the process has ended; or it waits for a sending   *)
(* thread that sleeps for good or that another request has started behind  *)
(* its back.                                                               *)
Served(t) == at[t] \in {"idle", "dead"}
Behind(t) == at[t] = "joining" /\ live /\ (stuck \/ (run /\ crossed))
RequestsServed == \A t \in Controllers : ~Served(t) ~> Served(t) \/ Behind(t)

(* connection.cpp:218 "apply staged destination overrides to the config":  *)
(* with clients that stage nothing but master_enable, an activation        *)
(* changes no other setting.                                               *)
Overriding ==
    \E c \in Controllers :
        at[c] \in {"override", "overrideport", "activateleg"} /\ at'[c] # at[c]
OnlyStagedOverrides ==
    [][(\A p \in Patches : DOMAIN p \subseteq {"enabled"}) /\ Overriding
          => config' = config \/ Restart]_vars
==============================================================================
