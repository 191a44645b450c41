----------------------------- MODULE Is12Monitor -----------------------------
(***************************************************************************)
(* The receiver and the sender monitor of the IS-12 server                 *)
(* (src/src/nmos/is12.cpp) and the loop of main that feeds them once a     *)
(* second (src/src/main.cpp).  Each status domain holds a less healthy     *)
(* state back until it has persisted for the status reporting delay; the   *)
(* overall status is the worst of the active domains.                      *)
(*                                                                         *)
(* The monitors share no state, so a behaviour follows one of them.  An    *)
(* iteration of the feed looks at the stream and the clock once and then   *)
(* updates the domains one by one; m_mutex is free in between.  Time is    *)
(* counted in iterations.                                                  *)
(***************************************************************************)
EXTENDS Integers, FiniteSets, FiniteSetsExt

CONSTANT DELAY      \* statusReportingDelay in iterations (3)

ASSUME DelayAssumption == DELAY \in Nat \ {0}

Domains == {"link", "path", "sync", "stream"}

(* Status values: 0 inactive, 1 healthy, 2 partially healthy, 3 unhealthy. *)
NoPending == -1

(* What an iteration of the feed finds: the stream is stopped, waits (for  *)
(* packets or for a ptp lock) or runs; the played or sent counter moves;   *)
(* the source of a sender has audio; the active legs of two at a receiver. *)
Observations(m) ==
    [ stream : {"stopped", "waiting", "running"},
      clock : {"no master", "free running", "locked"},
      moving : BOOLEAN,
      audio : IF m = "sender" THEN BOOLEAN ELSE {TRUE},
      legsUp : IF m = "receiver" THEN 0..2 ELSE {0} ]

VARIABLES
    monitor,   \* the monitor that is followed
    obs,       \* what the current iteration found
    todo,      \* the domains this iteration has yet to update, in order
    status,    \* per domain: nStatus
    pending,   \* per domain: nPendingStatus
    since,     \* per domain: time since pendingSince, up to DELAY
    overall,   \* nOverall
    lasted     \* per domain, for how long its state has been what it is now,
               \* seen from the feed: 0 for a state that has just begun

monitorVars == <<monitor, obs, todo, status, pending, since, overall, lasted>>

(* The status the feed reports for a domain, or NoPending when it leaves   *)
(* the domain alone in this iteration.                                     *)
ReportedSync(o) ==
    CASE o.clock = "no master" -> 0 [] o.clock = "locked" -> 1 [] OTHER -> 3

ReceiverReported(d, o) ==
    CASE o.stream = "stopped" -> IF d = "link" THEN NoPending ELSE 0
      [] o.stream = "waiting" -> IF d = "path" THEN 3 ELSE NoPending
      [] o.stream = "running" ->
            CASE d = "path"   -> 1
              [] d = "stream" -> IF o.moving THEN 1 ELSE 2
              [] d = "link"   -> 3 - o.legsUp

(* The link of the sender is healthy for good: no code updates it.         *)
SenderReported(d, o) ==
    CASE o.stream = "stopped" -> IF d = "link" THEN NoPending ELSE 0
      [] o.stream = "waiting" -> IF d = "path" THEN 3 ELSE NoPending
      [] o.stream = "running" ->
            CASE d = "path"   -> IF o.moving THEN 1 ELSE 3
              [] d = "stream" -> IF o.audio THEN 1 ELSE 2
              [] d = "link"   -> NoPending

Reported(m, d, o) ==
    IF d = "sync" THEN ReportedSync(o)
    ELSE IF m = "receiver" THEN ReceiverReported(d, o) ELSE SenderReported(d, o)

Order == <<"sync", "path", "stream", "link">>

MonitorInit ==
    /\ monitor \in {"receiver", "sender"}
    /\ obs = [stream |-> "stopped", clock |-> "no master", moving |-> FALSE, audio |-> TRUE,
              legsUp |-> 0]
    /\ todo = 5
    /\ status = [d \in Domains |-> IF d = "link" THEN 1 ELSE 0]
    /\ pending = [d \in Domains |-> NoPending]
    /\ since = [d \in Domains |-> 0]
    /\ overall = 0
    /\ lasted = [d \in Domains |-> 0]

----------------------------------------------------------------------------
(* RecomputeOverall: inactive while the path is, else the worst domain.    *)
RecomputeOverall_Best(st) == IF st["path"] = 0 THEN 0 ELSE Min({st[d] : d \in Domains} \ {0})

RecomputeOverall(st) == IF st["path"] = 0 THEN 0 ELSE Max({st[d] : d \in Domains})

Unhealthier(d, s) == s > 1 /\ s > status[d]

(* Whether a less healthy state s is still held back.                      *)
Held_Never(d, s) == FALSE

Held(d, s) ==
    /\ Unhealthier(d, s)
    /\ pending[d] # s \/ since[d] < DELAY

(* Plausible bug: every update of a held back state restarts its delay.    *)
UpdateDomain_RestartsDelay(d, s) ==
    IF Held(d, s)
      THEN /\ pending' = [pending EXCEPT ![d] = s]
           /\ since' = [since EXCEPT ![d] = 0]
           /\ UNCHANGED <<status, overall>>
      ELSE /\ pending' = [pending EXCEPT ![d] = NoPending]
           /\ since' = [since EXCEPT ![d] = 0]
           /\ status' = [status EXCEPT ![d] = s]
           /\ overall' = RecomputeOverall(status')

UpdateDomain(d, s) ==
    IF Held(d, s)
      THEN /\ pending' = [pending EXCEPT ![d] = s]
           /\ since' = [since EXCEPT ![d] = IF pending[d] = s THEN @ ELSE 0]
           /\ UNCHANGED <<status, overall>>
      ELSE /\ pending' = [pending EXCEPT ![d] = NoPending]
           /\ since' = [since EXCEPT ![d] = 0]
           /\ status' = [status EXCEPT ![d] = s]
           /\ overall' = RecomputeOverall(status')

(* A second has passed: the feed looks again.                              *)
Observe(o) ==
    /\ todo = 5
    /\ obs' = o
    /\ todo' = 1
    /\ since' = [d \in Domains |-> IF pending[d] = NoPending THEN 0
                                   ELSE Min({since[d] + 1, DELAY})]
    /\ lasted' = [d \in Domains |-> IF Reported(monitor, d, o) = Reported(monitor, d, obs)
                                      THEN Min({lasted[d] + 1, DELAY}) ELSE 0]
    /\ UNCHANGED <<monitor, status, pending, overall>>

Update ==
    /\ todo \in DOMAIN Order
    /\ todo' = todo + 1
    /\ LET s == Reported(monitor, Order[todo], obs)
       IN  IF s = NoPending THEN UNCHANGED <<status, pending, since, overall>>
                            ELSE UpdateDomain(Order[todo], s)
    /\ UNCHANGED <<monitor, obs, lasted>>

MonitorNext == (\E o \in Observations(monitor) : Observe(o)) \/ Update

MonitorSpec == MonitorInit /\ [][MonitorNext]_monitorVars

(* The feed runs once a second until the daemon stops.                     *)
MonitorFairSpec == MonitorSpec /\ WF_monitorVars(MonitorNext)

----------------------------------------------------------------------------
MonitorTypeOK ==
    /\ monitor \in {"receiver", "sender"}
    /\ obs \in Observations(monitor) /\ todo \in 1..5
    /\ status \in [Domains -> 0..3]
    /\ pending \in [Domains -> {NoPending, 2, 3}]
    /\ since \in [Domains -> 0..DELAY] /\ lasted \in [Domains -> 0..DELAY]
    /\ overall \in 0..3

(* At every moment a client can look, between two updates of an iteration  *)
(* too, the overall status is 0 exactly when the path is inactive and else *)
(* no domain is worse and some domain is as bad: neither a held back       *)
(* state nor a domain that was left alone goes missing.                    *)
OverallIsWorst ==
    /\ (overall = 0) = (status["path"] = 0)
    /\ overall # 0 => /\ \E d \in Domains : status[d] = overall
                      /\ \A d \in Domains : status[d] <= overall

(* is12.cpp:346 "a state less healthy than the current one is only         *)
(* reported once it has persisted for the delay", for the domains that the *)
(* feed updates in every iteration.                                        *)
Persisted(d) == status'[d] > 1 /\ status'[d] > status[d] => lasted[d] >= DELAY

PathAndSyncPersisted == [][Persisted("path") /\ Persisted("sync")]_monitorVars

(* The same for every domain.                                              *)
AllPersisted == [][\A d \in Domains : Persisted(d)]_monitorVars

(* A state that the feed keeps finding is reported in the end.             *)
LastingStateReported ==
    \A d \in Domains : \A s \in 0..3 :
        <>[](Reported(monitor, d, obs) = s) => <>[](status[d] = s)
==============================================================================
