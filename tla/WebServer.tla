------------------------------ MODULE WebServer ------------------------------
(***************************************************************************)
(* The web server (src/src/web/server.cpp) beside the IS-12 server: a pool *)
(* of worker threads that serve requests and websockets, the push loop     *)
(* that sends meters and status to all websockets, and main, whose thread  *)
(* feeds the IS-12 monitors and in the end stops the web server.           *)
(*                                                                         *)
(* The status holds the IS-12 monitors (StatusJson of main, GetMonitorJson *)
(* of is12.cpp), so building it waits for m_mutex of the IS-12 server,     *)
(* which the feed holds while it writes to IS-12 clients.  The push loop   *)
(* writes to a copy of m_setClients without a lock.                        *)
(*                                                                         *)
(* A connection is the slot of the worker that serves it: the transport    *)
(* keeps the connections of a server in an array and uses them again.      *)
(***************************************************************************)
EXTENDS Is12Session

CONSTANTS Slots,        \* the workers of the web server
          SlowSlots,    \* the slots whose clients do not read
          FullEvery     \* ticks from one full status to the next

ASSUME WebAssumption == SlowSlots \subseteq Slots /\ FullEvery \in Nat \ {0}

VARIABLES
    conn,       \* per slot: "free", "ws", or "http": a GET of /api/status
    wsClients,  \* m_setClients
    push,       \* the push loop: "sleep", "build", "write", "ended"
    tick,       \* nTick % FullEvery
    targets,    \* the copy of m_setClients, without those written to
    message,    \* the revision in the status to be sent, Nothing for meters
    main,       \* main: "feed", in web.Stop "stopping" and "closing", "stopped"
    \* history, read by properties only
    shown,      \* per slot: the revision its client was sent last, or Nothing
    closed      \* the slots that were closed since the copy was made

webVars == <<conn, wsClients, push, tick, targets, message, main, shown, closed>>
allVars == <<vars, webVars>>

WebInit ==
    /\ Init
    /\ conn = [w \in Slots |-> "free"]
    /\ wsClients = {}
    /\ push = "sleep" /\ tick = 0 /\ targets = {} /\ message = Nothing
    /\ main = "feed"
    /\ shown = [w \in Slots |-> Nothing]
    /\ closed = {}

----------------------------------------------------------------------------
(* WsReady and WsClose of the web server.                                  *)
WebReady(w) ==
    /\ conn[w] = "free" /\ main \in {"feed", "stopping"}
    /\ conn' = [conn EXCEPT ![w] = "ws"]
    /\ wsClients' = wsClients \cup {w}
    /\ shown' = [shown EXCEPT ![w] = Nothing]
    /\ UNCHANGED <<vars, push, tick, targets, message, main, closed>>

WebClose_KeepsEntry(w) ==
    /\ conn[w] = "ws"
    /\ conn' = [conn EXCEPT ![w] = "free"]
    /\ closed' = closed \cup ({w} \cap targets)
    /\ UNCHANGED <<vars, wsClients, push, tick, targets, message, main, shown>>

WebClose(w) ==
    /\ conn[w] = "ws"
    /\ conn' = [conn EXCEPT ![w] = "free"]
    /\ wsClients' = wsClients \ {w}
    /\ closed' = closed \cup ({w} \cap targets)
    /\ UNCHANGED <<vars, push, tick, targets, message, main, shown>>

(* HandleApi: the status is built in the thread of the request.            *)
ApiRequest(w) ==
    /\ conn[w] = "free" /\ main \in {"feed", "stopping"}
    /\ conn' = [conn EXCEPT ![w] = "http"]
    /\ UNCHANGED <<vars, wsClients, push, tick, targets, message, main, shown, closed>>

ApiStatus(w) ==
    /\ conn[w] = "http" /\ MutexFree
    /\ conn' = [conn EXCEPT ![w] = "free"]
    /\ UNCHANGED <<vars, wsClients, push, tick, targets, message, main, shown, closed>>

----------------------------------------------------------------------------
(* PushLoop: m_bRun is read before the sleep only.                         *)
LoopHead_IgnoresStop == "sleep"

LoopHead == IF main = "feed" THEN "sleep" ELSE "ended"

PushTick ==
    /\ push = "sleep"
    /\ tick' = (tick + 1) % FullEvery
    /\ targets' = wsClients
    /\ closed' = {}
    /\ push' = IF wsClients = {} THEN LoopHead ELSE "build"
    /\ UNCHANGED <<vars, conn, wsClients, message, main, shown>>

(* Every FullEvery-th message is the status, the others are the meters.    *)
PushBuild_Counts ==
    /\ push = "build"
    /\ tick = FullEvery => MutexFree
    /\ message' = IF tick = FullEvery THEN value ELSE Nothing
    /\ push' = "write"
    /\ UNCHANGED <<vars, conn, wsClients, tick, targets, main, shown, closed>>

PushBuild ==
    /\ push = "build"
    /\ tick = 0 => MutexFree
    /\ message' = IF tick = 0 THEN value ELSE Nothing
    /\ push' = "write"
    /\ UNCHANGED <<vars, conn, wsClients, tick, targets, main, shown, closed>>

(* The write returns: the message was read, the connection is gone, or the *)
(* client did not read until the timeout.                                  *)
PushWrite(w) ==
    /\ push = "write" /\ w \in targets
    /\ targets' = targets \ {w}
    /\ shown' = IF message = Nothing \/ conn[w] # "ws" \/ w \in SlowSlots THEN shown
                ELSE [shown EXCEPT ![w] = message]
    /\ push' = IF targets' = {} THEN LoopHead ELSE "write"
    /\ message' = IF targets' = {} THEN Nothing ELSE message
    /\ closed' = closed \ {w}
    /\ UNCHANGED <<vars, conn, wsClients, tick, main>>

----------------------------------------------------------------------------
(* main: the feed ends with g_bStop, then Stop resets m_bRun, joins the    *)
(* push loop and stops the server, which takes no more connections and     *)
(* lets the workers finish.                                                *)
WebStop ==
    /\ main = "feed" /\ MutexFree
    /\ main' = "stopping"
    /\ UNCHANGED <<vars, conn, wsClients, push, tick, targets, message, shown, closed>>

WebJoin ==
    /\ main = "stopping" /\ push = "ended"
    /\ main' = "closing"
    /\ UNCHANGED <<vars, conn, wsClients, push, tick, targets, message, shown, closed>>

WebStopped ==
    /\ main = "closing"
    /\ \A w \in Slots : conn[w] # "http"
    /\ main' = "stopped"
    /\ conn' = [w \in Slots |-> "free"]
    /\ wsClients' = {}
    /\ UNCHANGED <<vars, push, tick, targets, message, shown, closed>>

(* The sessions and the feed of the IS-12 server.                          *)
Is12Step ==
    /\ \/ main = "feed" /\ Feed
       \/ \E c \in Clients : Session(c)
    /\ UNCHANGED webVars

PushLoop == PushTick \/ PushBuild \/ \E w \in Slots : PushWrite(w)

WebNext ==
    \/ Is12Step
    \/ PushLoop
    \/ \E w \in Slots : WebReady(w) \/ WebClose(w) \/ ApiRequest(w) \/ ApiStatus(w)
    \/ WebStop \/ WebJoin \/ WebStopped

(* Threads run, and every write returns: the transport ends one that the   *)
(* client does not read after its request timeout (30 s unless set).       *)
WebSpec ==
    /\ WebInit /\ [][WebNext]_allVars
    /\ WF_allVars(PushLoop) /\ WF_allVars(WebJoin \/ WebStopped)
    /\ \A w \in Slots : WF_allVars(ApiStatus(w))
    /\ \A c \in Clients : WF_allVars((NotifyWrite(c) \/ NotifyTimeout(c)) /\ UNCHANGED webVars)

----------------------------------------------------------------------------
WebTypeOK ==
    /\ TypeOK
    /\ conn \in [Slots -> {"free", "ws", "http"}]
    /\ wsClients \subseteq Slots /\ targets \subseteq Slots /\ closed \subseteq Slots
    /\ push \in {"sleep", "build", "write", "ended"} /\ tick \in 0..FullEvery - 1
    /\ message \in -1..MaxChanges /\ shown \in [Slots -> -1..MaxChanges]
    /\ main \in {"feed", "stopping", "closing", "stopped"}

(* server.cpp:114: the copy is stale for one round at most.  A message for *)
(* a websocket that was closed goes to its slot, whoever has it now, only  *)
(* when the close came after the copy of this very round.                  *)
StaleForOneRound == \A w \in targets : conn[w] = "ws" \/ w \in closed

(* A browser that reads is shown every lasting state of the monitors,      *)
(* though other browsers and IS-12 clients do not read and hold up the     *)
(* push loop and the lock the status is built under.                       *)
StatusShown ==
    \A w \in Slots \ SlowSlots, v \in 0..MaxChanges :
        conn[w] = "ws" /\ value = v
            ~> shown[w] = v \/ value # v \/ conn[w] # "ws" \/ main # "feed"

(* The web server stops, with whatever clients it has.                     *)
StopEnds == main = "stopping" ~> main = "stopped"
==============================================================================
