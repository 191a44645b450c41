------------------------------ MODULE Is12Proofs ------------------------------
(***************************************************************************)
(* Theorems about the IS-12 server: its sessions, beside the web server    *)
(* (WebServer, Is12Session), and its status monitors (Is12Monitor), for    *)
(* any number of clients, browsers and changes and a delay of any length.  *)
(***************************************************************************)
EXTENDS WebServer, Is12Monitor, TLAPS

(* What a subscriber knows and which connections are written to.           *)
(* SubscriberCurrent is not inductive: an answer that waits to be written  *)
(* may be older than what was announced since it was built.  The missing   *)
(* fact is PendingAnswers: then the client has been notified in the        *)
(* meantime, or has missed it, so writing the answer marks it as behind.   *)
(* ClosedNotWritten needs that the feed only has subscribers left to write *)
(* to, and that a connection that is closed has no subscription.           *)


(* An answer that waits for a subscriber is as new as the newest           *)
(* announcement, or the announcement has been written to the client or was *)
(* lost.                                                                   *)
PendingAnswers ==
    \A c \in subs \ toNotify : reply[c] # Nothing
        => reply[c] >= announced \/ known[c] >= announced \/ behind[c]

(* Nobody hears of a revision before the property has it, there is an      *)
(* answer only while a message is being handled, and only connections that *)
(* are open have a subscription or are written to.                         *)
Sensible ==
    /\ value >= announced
    /\ \A c \in Clients : at[c] # "answer" => reply[c] = Nothing
    /\ toNotify \subseteq subs
    /\ \A c \in Clients : at[c] = "closed" => c \notin subs /\ known[c] = Nothing

IInv == TypeOK /\ Sensible /\ PendingAnswers /\ SubscriberCurrent

LEMMA SessionInit == Init => IInv
BY SessionAssumption
DEF Init, IInv, TypeOK, Sensible, PendingAnswers, SubscriberCurrent, Nothing

LEMMA SessionStep == IInv /\ [Next]_vars => IInv'
<1> SUFFICES ASSUME IInv, [Next]_vars PROVE IInv'
  OBVIOUS
<1> USE SessionAssumption
    DEF IInv, TypeOK, Sensible, PendingAnswers, SubscriberCurrent, Nothing
<1>1. CASE UpdateProperty
  BY <1>1 DEF UpdateProperty, Notify, MutexFree
<1>a. ASSUME NEW c \in Clients, NotifyWrite(c) PROVE IInv'
  BY <1>a DEF NotifyWrite
<1>b. ASSUME NEW c \in Clients, NotifyTimeout(c) PROVE IInv'
  BY <1>b DEF NotifyTimeout
<1>2. ASSUME NEW c \in Clients, WsReady(c) PROVE IInv'
  BY <1>2 DEF WsReady, MutexFree
<1>3. ASSUME NEW c \in Clients, WsClose(c) PROVE IInv'
  BY <1>3 DEF WsClose, MutexFree
<1>4. ASSUME NEW c \in Clients, Subscribe(c) PROVE IInv'
  BY <1>4 DEF Subscribe, MutexFree
<1>5. ASSUME NEW c \in Clients, GetProperty(c) PROVE IInv'
  BY <1>5 DEF GetProperty, InCommands, MutexFree
<1>6. ASSUME NEW c \in Clients, InvokeReset(c) PROVE IInv'
  BY <1>6 DEF InvokeReset, InCommands, MutexFree
<1>7. ASSUME NEW c \in Clients, Confirm(c) PROVE IInv'
  BY <1>7 DEF Confirm
<1>8. ASSUME NEW c \in Clients, SendAnswer(c) PROVE IInv'
  <2>1. CASE reply[c] = Nothing
    BY <1>8, <2>1 DEF SendAnswer
  <2>2. CASE reply[c] # Nothing
    <3>1. /\ at' = [at EXCEPT ![c] = "idle"]
          /\ known' = [known EXCEPT ![c] = reply[c]]
          /\ behind' = [behind EXCEPT ![c] = \/ reply[c] < known[c]
                                             \/ @ /\ reply[c] < announced]
          /\ reply' = [reply EXCEPT ![c] = Nothing]
          /\ UNCHANGED <<value, subs, toNotify, announced>>
      BY <1>8, <2>2 DEF SendAnswer
    <3>2. (reply[c] < known[c] \/ (behind[c] /\ reply[c] < announced)) \in BOOLEAN
      OBVIOUS
    <3>3. behind' \in [Clients -> BOOLEAN]
      BY <3>1, <3>2
    <3>4. behind'[c] <=> (reply[c] < known[c] \/ (behind[c] /\ reply[c] < announced))
      BY <3>1
    <3>5. \A d \in Clients \ {c} : behind'[d] = behind[d] /\ known'[d] = known[d]
      BY <3>1
    <3>6. known'[c] = reply[c]
      BY <3>1
    <3>7. TypeOK' /\ Sensible'
      BY <3>1, <3>3
    <3>8. PendingAnswers'
      BY <3>1
    <3>9. c \in subs \ toNotify /\ ~behind'[c] => known'[c] >= announced
      BY <2>2, <3>4, <3>6
    <3>10. SubscriberCurrent'
      BY <3>1, <3>5, <3>9
    <3>11. QED
      BY <3>7, <3>8, <3>10
  <2>3. QED
    BY <2>1, <2>2
<1>9. ASSUME NEW c \in Clients, CommandThrows(c) PROVE IInv'
  BY <1>9 DEF CommandThrows
<1>10. CASE UNCHANGED vars
  BY <1>10 DEF vars
<1>11. QED
  BY <1>1, <1>a, <1>b, <1>2, <1>3, <1>4, <1>5, <1>6, <1>7, <1>8, <1>9, <1>10
  DEF Next, Feed, Session

(* A subscriber that has heard of the property knows the newest revision   *)
(* that was announced, unless its last answer was overtaken or it did not  *)
(* read: Notify writes under m_mutex, HandleMessage answers without it.    *)
THEOREM SubscribersStayCurrent == Spec => []SubscriberCurrent
<1>1. IInv => SubscriberCurrent
  BY DEF IInv
<1>2. QED
  BY <1>1, SessionInit, SessionStep, PTL DEF Spec

(* No connection is written to after its WsClose.                          *)
THEOREM ClosedConnections == Spec => []ClosedNotWritten
<1>1. IInv => ClosedNotWritten
  BY DEF IInv, TypeOK, Sensible, ClosedNotWritten
<1>2. QED
  BY <1>1, SessionInit, SessionStep, PTL DEF Spec

----------------------------------------------------------------------------
(* The copy of the push loop holds websockets and slots that were closed   *)
(* since it was made; m_setClients holds exactly the websockets.           *)
PushInv ==
    /\ conn \in [Slots -> {"free", "ws", "http"}]
    /\ wsClients = {w \in Slots : conn[w] = "ws"}
    /\ targets \subseteq Slots
    /\ push \in {"sleep", "ended"} => targets = {}
    /\ main \in {"closing", "stopped"} => push = "ended"
    /\ StaleForOneRound

(* A message of the push loop goes to the slot of a closed websocket only  *)
(* when the close came after the copy of the same round.                   *)
THEOREM PushStaleForOneRound == WebSpec => []StaleForOneRound
<1>1. WebInit => PushInv
  BY DEF WebInit, PushInv, StaleForOneRound
<1>2. PushInv /\ [WebNext]_allVars => PushInv'
  <2> SUFFICES ASSUME PushInv, [WebNext]_allVars PROVE PushInv'
    OBVIOUS
  <2> USE DEF PushInv, StaleForOneRound, LoopHead
  <2>1. ASSUME NEW w \in Slots, WebReady(w) PROVE PushInv'
    BY <2>1 DEF WebReady
  <2>2. ASSUME NEW w \in Slots, WebClose(w) PROVE PushInv'
    BY <2>2 DEF WebClose
  <2>3. ASSUME NEW w \in Slots, ApiRequest(w) \/ ApiStatus(w) PROVE PushInv'
    BY <2>3 DEF ApiRequest, ApiStatus
  <2>4. CASE PushTick
    BY <2>4 DEF PushTick
  <2>5. CASE PushBuild
    BY <2>5 DEF PushBuild
  <2>6. ASSUME NEW w \in Slots, PushWrite(w) PROVE PushInv'
    BY <2>6 DEF PushWrite
  <2>7. CASE WebStop \/ WebJoin
    BY <2>7 DEF WebStop, WebJoin
  <2>8. CASE WebStopped
    BY <2>8 DEF WebStopped
  <2>9. CASE Is12Step \/ UNCHANGED allVars
    BY <2>9 DEF Is12Step, allVars, webVars
  <2>10. QED
    BY <2>1, <2>2, <2>3, <2>4, <2>5, <2>6, <2>7, <2>8, <2>9 DEF WebNext, PushLoop
<1>3. PushInv => StaleForOneRound
  BY DEF PushInv
<1>4. QED
  BY <1>1, <1>2, <1>3, PTL DEF WebSpec

(* The web server does nothing to the IS-12 server but wait for its lock:  *)
(* the composition behaves like the IS-12 server by itself, so what holds  *)
(* of that holds of it.                                                    *)
THEOREM WebKeepsSessions == WebSpec => Spec
<1>1. WebInit => Init
  BY DEF WebInit
<1>2. [WebNext]_allVars => [Next]_vars
  BY DEF WebNext, allVars, Next, Is12Step, PushLoop, WebReady, WebClose, ApiRequest,
         ApiStatus, PushTick, PushBuild, PushWrite, WebStop, WebJoin, WebStopped
<1>3. QED
  BY <1>1, <1>2, PTL DEF WebSpec, Spec

----------------------------------------------------------------------------
(* The status reporting delay of the domains that the feed updates in      *)
(* every iteration.  The inductive invariant ties the pending state of     *)
(* such a domain to what the feed found: once a domain was updated, its    *)
(* pending state is the one the feed found last, and it has not been       *)
(* pending for longer than it has lasted.                                  *)
Steady == {"path", "sync"}
Place(d) == IF d = "sync" THEN 1 ELSE 2

MonitorTypes ==
    /\ monitor \in {"receiver", "sender"}
    /\ obs \in Observations(monitor) /\ todo \in 1..5
    /\ status \in [Domains -> 0..3]
    /\ pending \in [Domains -> {NoPending, 2, 3}]
    /\ since \in [Domains -> 0..DELAY] /\ lasted \in [Domains -> 0..DELAY]

(* The pending state of an updated domain is the one found last.           *)
PendingIsFound ==
    \A d \in Steady : todo > Place(d) /\ pending[d] # NoPending
                         => pending[d] = Reported(monitor, d, obs)

(* A state that is pending and found has lasted as long as it is pending.  *)
PendingHasLasted ==
    \A d \in Steady : pending[d] = Reported(monitor, d, obs) => since[d] <= lasted[d]

MonitorIInv == MonitorTypes /\ PendingIsFound /\ PendingHasLasted

(* What the feed reports of any domain, and that it always reports the     *)
(* path and the sync domain.                                               *)
LEMMA ReportedStatus ==
    ASSUME NEW m \in {"receiver", "sender"}, NEW o \in Observations(m), NEW d \in Domains
    PROVE  /\ Reported(m, d, o) \in {NoPending, 0, 1, 2, 3}
           /\ d \in Steady => Reported(m, d, o) # NoPending
<1>1. /\ o.stream \in {"stopped", "waiting", "running"}
      /\ m = "receiver" => o.legsUp \in 0..2
  BY DEF Observations
<1>2. CASE d = "sync"
  BY <1>2 DEF Reported, ReportedSync, NoPending
<1>3. CASE d # "sync" /\ m = "receiver"
  BY <1>1, <1>3 DEF Reported, ReceiverReported, NoPending, Domains, Steady
<1>4. CASE d # "sync" /\ m = "sender"
  BY <1>1, <1>4 DEF Reported, SenderReported, NoPending, Domains, Steady
<1>5. QED
  BY <1>2, <1>3, <1>4

LEMMA Shorter ==
    ASSUME NEW a \in 0..DELAY, NEW b \in 0..DELAY
    PROVE  /\ Min({a + 1, DELAY}) \in 0..DELAY
           /\ a <= b => Min({a + 1, DELAY}) <= Min({b + 1, DELAY})
<1>1. ASSUME NEW x \in 0..DELAY PROVE Min({x + 1, DELAY}) = IF x < DELAY THEN x + 1 ELSE DELAY
  BY DelayAssumption DEF Min
<1>2. QED
  BY <1>1, DelayAssumption

LEMMA MonitorIInvInit == MonitorInit => MonitorIInv
<1> SUFFICES ASSUME MonitorInit PROVE MonitorIInv
  OBVIOUS
<1>1. /\ monitor \in {"receiver", "sender"} /\ todo = 5
      /\ status = [d \in Domains |-> IF d = "link" THEN 1 ELSE 0]
      /\ pending = [d \in Domains |-> NoPending]
      /\ since = [d \in Domains |-> 0] /\ lasted = [d \in Domains |-> 0]
  BY DEF MonitorInit
<1>2. obs \in Observations(monitor)
  <2>1. CASE monitor = "receiver"
    <3>1. /\ Observations(monitor) =
                 [stream : {"stopped", "waiting", "running"},
                  clock : {"no master", "free running", "locked"},
                  moving : BOOLEAN, audio : {TRUE}, legsUp : 0..2]
          /\ 0 \in 0..2
      BY <2>1 DEF Observations
    <3>2. QED
      BY <3>1, Zenon DEF MonitorInit
  <2>2. CASE monitor = "sender"
    BY <2>2 DEF MonitorInit, Observations
  <2>3. QED
    BY <1>1, <2>1, <2>2
<1>3. MonitorTypes
  BY <1>1, <1>2, DelayAssumption DEF MonitorTypes
<1>4. PendingIsFound /\ PendingHasLasted
  BY <1>1 DEF PendingIsFound, PendingHasLasted, Steady, Domains
<1>5. QED
  BY <1>3, <1>4 DEF MonitorIInv

LEMMA ObserveStep ==
    ASSUME MonitorIInv, NEW o \in Observations(monitor), Observe(o)
    PROVE  MonitorIInv'
<1> USE DEF MonitorIInv
<1>1. MonitorTypes'
  <2>1. since' \in [Domains -> 0..DELAY] /\ lasted' \in [Domains -> 0..DELAY]
    BY Shorter, DelayAssumption DEF Observe, MonitorTypes
  <2>2. QED
    BY <2>1 DEF Observe, MonitorTypes
<1>2. PendingIsFound'
  BY DEF Observe, MonitorTypes, PendingIsFound, Steady, Place
<1>3. ASSUME NEW d \in Steady, pending'[d] = Reported(monitor', d, obs')
      PROVE  since'[d] <= lasted'[d]
  <2>1. d \in Domains /\ pending[d] # NoPending
    BY <1>3, ReportedStatus DEF Observe, MonitorTypes, Steady, Domains
  <2>2. pending[d] = Reported(monitor, d, obs)
    BY <2>1 DEF Observe, PendingIsFound, MonitorTypes, Steady, Place
  <2>3. Reported(monitor, d, o) = Reported(monitor, d, obs)
    BY <1>3, <2>2 DEF Observe
  <2>4. /\ since'[d] = Min({since[d] + 1, DELAY})
        /\ lasted'[d] = Min({lasted[d] + 1, DELAY})
    BY <2>1, <2>3 DEF Observe
  <2>5. since[d] <= lasted[d]
    BY <2>2 DEF PendingHasLasted
  <2>6. QED
    BY <2>1, <2>4, <2>5, Shorter DEF MonitorTypes
<1>4. QED
  BY <1>1, <1>2, <1>3 DEF PendingHasLasted

LEMMA UpdateStep == ASSUME MonitorIInv, Update PROVE MonitorIInv'
<1> USE DEF MonitorIInv
<1> DEFINE e == Order[todo]
           s == Reported(monitor, e, obs)
<1>1. /\ todo \in 1..4 /\ todo' = todo + 1
      /\ monitor' = monitor /\ obs' = obs /\ lasted' = lasted
      /\ IF s = NoPending THEN UNCHANGED <<status, pending, since, overall>>
                         ELSE UpdateDomain(e, s)
  BY DEF Update, Order
<1>2. e \in Domains /\ \A d \in Steady : (e = d) <=> (todo = Place(d))
  BY <1>1 DEF Order, Domains, Steady, Place
<1>3. s \in {NoPending, 0, 1, 2, 3} /\ (e \in Steady => s # NoPending)
  BY <1>2, ReportedStatus DEF MonitorTypes
<1> HIDE DEF e, s
<1>4. MonitorTypes'
  BY <1>1, <1>2, <1>3, DelayAssumption
  DEF MonitorTypes, UpdateDomain, Held, Unhealthier, NoPending
<1>5. \A d \in Domains : d # e => pending'[d] = pending[d] /\ since'[d] = since[d]
  BY <1>1, <1>2 DEF MonitorTypes, UpdateDomain
<1>6. e \in Steady => pending'[e] = NoPending \/ (pending'[e] = s /\ since'[e] <= lasted[e])
  <2> SUFFICES ASSUME e \in Steady, s # NoPending
               PROVE  pending'[e] = NoPending \/ (pending'[e] = s /\ since'[e] <= lasted[e])
    BY <1>3
  <2>1. UpdateDomain(e, s)
    BY <1>1
  <2>2. CASE ~Held(e, s)
    BY <1>2, <2>1, <2>2 DEF UpdateDomain, MonitorTypes
  <2>3. CASE Held(e, s)
    <3>1. pending'[e] = s /\ since'[e] = IF pending[e] = s THEN since[e] ELSE 0
      BY <1>2, <2>1, <2>3 DEF UpdateDomain, MonitorTypes
    <3>2. pending[e] = s => since[e] <= lasted[e]
      BY DEF PendingHasLasted, s
    <3>3. QED
      BY <1>2, <3>1, <3>2 DEF MonitorTypes
  <2>4. QED
    BY <2>2, <2>3
<1>7. PendingIsFound'
  BY <1>1, <1>2, <1>5, <1>6 DEF PendingIsFound, MonitorTypes, Steady, Domains, Place, s
<1>8. PendingHasLasted'
  <2> SUFFICES ASSUME NEW d \in Steady, pending'[d] = Reported(monitor, d, obs)
               PROVE  since'[d] <= lasted[d]
    BY <1>1 DEF PendingHasLasted
  <2>1. pending'[d] # NoPending
    BY ReportedStatus DEF MonitorTypes, Steady, Domains
  <2>2. CASE d = e
    BY <1>6, <2>1, <2>2
  <2>3. CASE d # e
    BY <1>5, <2>3 DEF PendingHasLasted, Steady, Domains
  <2>4. QED
    BY <2>2, <2>3
<1>9. QED
  BY <1>4, <1>7, <1>8

(* What the status of a steady domain does in a step.                      *)
LEMMA StepPersisted ==
    ASSUME MonitorIInv, [MonitorNext]_monitorVars, NEW d \in Steady
    PROVE  Persisted(d)
<1> SUFFICES ASSUME status'[d] > 1, status'[d] > status[d] PROVE lasted[d] >= DELAY
  BY DEF Persisted
<1> USE DEF MonitorIInv
<1>1. d \in Domains /\ status[d] \in 0..3
  BY DEF MonitorTypes, Steady, Domains
<1>2. CASE Update
  <2> DEFINE e == Order[todo]
             s == Reported(monitor, e, obs)
  <2>1. todo \in 1..4 /\ (s = NoPending \/ UpdateDomain(e, s)) /\ (s = NoPending => status' = status)
    BY <1>2 DEF Update, Order
  <2>2. e \in Domains
    BY <2>1 DEF Order, Domains
  <2> HIDE DEF s, e
  <2>3. UpdateDomain(e, s)
    BY <1>1, <2>1
  <2>4. ~Held(e, s) /\ d = e /\ status'[d] = s
    BY <1>1, <2>2, <2>3 DEF UpdateDomain, MonitorTypes
  <2>5. Unhealthier(e, s)
    BY <2>4 DEF Unhealthier
  <2>6. pending[d] = s /\ since[d] >= DELAY
    BY <1>1, <2>4, <2>5, DelayAssumption DEF Held, MonitorTypes
  <2>7. since[d] <= lasted[d]
    BY <2>4, <2>6 DEF PendingHasLasted, s
  <2>8. QED
    BY <1>1, <2>6, <2>7, DelayAssumption DEF MonitorTypes
<1>3. CASE ~Update
  BY <1>1, <1>3 DEF MonitorNext, Observe, monitorVars
<1>4. QED
  BY <1>2, <1>3

(* Every step of the feed keeps the invariant.                             *)
LEMMA MonitorIInvStep == MonitorIInv /\ [MonitorNext]_monitorVars => MonitorIInv'
<1> SUFFICES ASSUME MonitorIInv, [MonitorNext]_monitorVars PROVE MonitorIInv'
  OBVIOUS
<1>1. CASE UNCHANGED monitorVars
  BY <1>1 DEF monitorVars, MonitorIInv, MonitorTypes, PendingIsFound, PendingHasLasted
<1>2. QED
  BY <1>1, ObserveStep, UpdateStep DEF MonitorNext

(* is12.cpp:346: neither the path nor the sync status gets worse before    *)
(* the worse state has persisted for the delay, whatever the delay is and  *)
(* however the states flap.                                                *)
THEOREM WorseOnlyWhenPersisted == MonitorSpec => PathAndSyncPersisted
<1>1. MonitorIInv /\ [MonitorNext]_monitorVars => [Persisted("path") /\ Persisted("sync")]_monitorVars
  BY StepPersisted DEF Steady
<1>2. QED
  BY <1>1, MonitorIInvStep, MonitorIInvInit, PTL DEF MonitorSpec, PathAndSyncPersisted

----------------------------------------------------------------------------
(* What RecomputeOverall makes of any status.                              *)
Worst(st, n) ==
    /\ (n = 0) = (st["path"] = 0)
    /\ n # 0 => (\E d \in Domains : st[d] = n) /\ \A d \in Domains : st[d] <= n

LEMMA OverallOfStatus ==
    ASSUME NEW st \in [Domains -> 0..3]
    PROVE  Worst(st, RecomputeOverall(st))
<1> DEFINE S == {st[d] : d \in Domains}
<1>1. \A d \in Domains : st[d] \in 0..3
  OBVIOUS
<1>2. PICK m \in S : \A y \in S : m >= y
  <2>1. \E d \in Domains : \A c \in Domains : st[d] >= st[c]
    BY <1>1 DEF Domains
  <2>2. QED
    BY <2>1
<1>3. Max(S) \in S /\ \A y \in S : Max(S) >= y
  BY <1>2 DEF Max
<1>4. CASE st["path"] = 0
  BY <1>4 DEF Worst, RecomputeOverall
<1>5. CASE st["path"] # 0
  <2>1. RecomputeOverall(st) = Max(S)
    BY <1>5 DEF RecomputeOverall
  <2>2. PICK d \in Domains : Max(S) = st[d]
    BY <1>3
  <2>3. \A c \in Domains : st[c] <= Max(S)
    BY <1>1, <1>3, <2>2
  <2>4. Max(S) # 0
    BY <1>1, <1>5, <2>2, <2>3 DEF Domains
  <2> HIDE DEF S
  <2>5. QED
    BY <1>5, <2>1, <2>2, <2>3, <2>4 DEF Worst
<1>6. QED
  BY <1>4, <1>5

(* is12.cpp:381: the overall status is recomputed with every change of a   *)
(* domain, so at all times it is inactive exactly when the path is and     *)
(* else the status of the worst domain.                                    *)
THEOREM OverallStaysWorst == MonitorSpec => []OverallIsWorst
<1> DEFINE Inv == status \in [Domains -> 0..3] /\ overall = RecomputeOverall(status)
<1>1. MonitorInit => MonitorIInv /\ Inv
  BY MonitorIInvInit DEF MonitorInit, Inv, RecomputeOverall, Domains, MonitorIInv, MonitorTypes
<1>2. MonitorIInv /\ [MonitorNext]_monitorVars => MonitorIInv'
  BY MonitorIInvStep
<1>3. MonitorIInv /\ Inv /\ [MonitorNext]_monitorVars => Inv'
  <2> SUFFICES ASSUME MonitorIInv, Inv, [MonitorNext]_monitorVars PROVE Inv'
    OBVIOUS
  <2>1. MonitorIInv'
    BY <1>2
  <2>2. status' \in [Domains -> 0..3]
    BY <2>1 DEF MonitorIInv, MonitorTypes
  <2>3. \/ status' = status /\ overall' = overall
        \/ overall' = RecomputeOverall(status')
    BY DEF MonitorNext, Observe, Update, UpdateDomain, monitorVars
  <2>4. QED
    BY <2>2, <2>3
<1>4. Inv => OverallIsWorst
  BY OverallOfStatus DEF Worst, OverallIsWorst
<1>5. QED
  BY <1>1, <1>2, <1>3, <1>4, PTL DEF MonitorSpec
===============================================================================
