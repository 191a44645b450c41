----------------------------- MODULE Registration -----------------------------
(***************************************************************************)
(* The IS-04 registration thread of the node (NmosNode::RegistrationLoop   *)
(* and RegisterAll, src/src/nmos/node.cpp) against registries that lose    *)
(* requests, answers or their database, while other threads change the     *)
(* resources and call BumpVersion, or change them without that call.       *)
(*                                                                         *)
(* A resource is abstracted to its revision.  The registries are external: *)
(* modelled from the requests the node sends and the answers it expects.   *)
(* What DNS answers may change; so may the registry set in the             *)
(* configuration, which replaces discovery.                                *)
(***************************************************************************)
EXTENDS Discovery

CONSTANTS Regs,         \* the URLs of the registries
          Directories,  \* what DNS may answer
          Resources,    \* the types RegisterAll posts, in order; the node first
          DUE,          \* turns between two discoveries (5)
          MaxChanges,   \* bound: changes of resources
          MaxFaults     \* bound: faults of registries and of the network

ASSUME RegistrationAssumption ==
    /\ NoUrl \notin Regs
    /\ Directories \subseteq Seq([url : Regs \cup {NoUrl}, pri : Int])
    /\ Resources \in Seq(STRING) /\ Len(Resources) > 0
    /\ \A i, j \in DOMAIN Resources : Resources[i] = Resources[j] => i = j
    /\ DUE \in Nat \ {0} /\ MaxChanges \in Nat /\ MaxFaults \in Nat

Types == {Resources[i] : i \in DOMAIN Resources}
Node  == Resources[1]
None  == NoUrl          \* m_sRegistry or registry_override is empty
Absent == -1            \* a resource the registry does not hold

VARIABLES
    rev,         \* the current revision of each resource of the node
    unbumped,    \* resources changed by a thread that is yet to call BumpVersion
    version,     \* m_nVersion
    regVersion,  \* m_nRegisteredVersion
    registered,  \* bRegistered
    current,     \* m_sRegistry
    run,         \* m_bRun
    at,          \* the thread: "turn", "post", "commit", "sleep", "end"
    job,         \* RegisterAll: why it runs, its place in the list, next resource
    list,        \* vRegistries
    since,       \* nSinceDiscovery, up to DUE
    reach,       \* per registry: requests and answers get through
    held,        \* per registry: the revisions it holds
    dns,         \* what DNS answers
    override,    \* nmos.registry_override
    faults,      \* faults and changes of the environment so far
    \* history, read by properties only
    due,         \* the revisions at the last call of BumpVersion
    raced,       \* BumpVersion was called during the last RegisterAll
    stale        \* list is not the one that DNS and the registries now give

changeVars == <<rev, unbumped, version, due>>
listVars   == <<list, since>>
loopVars   == <<regVersion, registered, current, at, job, listVars>>
envVars    == <<reach, dns, override, faults, stale>>
vars == <<changeVars, loopVars, run, envVars, held, raced>>

NoJob == [why |-> "none", try |-> 1, item |-> 1]
Nothing == [t \in Types |-> Absent]

Init ==
    /\ rev = [t \in Types |-> 0]
    /\ unbumped = {}
    /\ due = rev
    /\ version = 0 /\ regVersion = 0
    /\ registered = FALSE
    /\ current = None
    /\ run = TRUE
    /\ at = "turn"
    /\ job = NoJob
    /\ list = <<>> /\ since = DUE
    /\ dns \in Directories
    /\ override = None
    /\ stale = TRUE
    /\ reach = [g \in Regs |-> TRUE]
    /\ held = [g \in Regs |-> Nothing]
    /\ faults = 0
    /\ raced = FALSE

----------------------------------------------------------------------------
(* Another thread changes a resource, then calls BumpVersion: an IS-05     *)
(* activation, a change of the sender's settings, an applied receiver.     *)
InRegisterAll == at \in {"post", "commit"}

Revise(t) == rev[t] < MaxChanges /\ rev' = [rev EXCEPT ![t] = @ + 1]

Change(t) ==
    /\ t \notin unbumped /\ Revise(t)
    /\ unbumped' = unbumped \cup {t}
    /\ UNCHANGED <<version, due, loopVars, run, envVars, held, raced>>

BumpVersion ==
    /\ \E t \in unbumped : unbumped' = unbumped \ {t}
    /\ version' = version + 1
    /\ due' = rev
    /\ raced' = (raced \/ InRegisterAll)
    /\ UNCHANGED <<rev, loopVars, run, envVars, held>>

(* A resource changes and nobody calls BumpVersion: the label of the       *)
(* device, the grandmaster and lock state in "clocks", the host addresses. *)
ChangeQuietly(t) ==
    /\ Revise(t)
    /\ UNCHANGED <<unbumped, version, due, loopVars, run, envVars, held, raced>>

(* Faults of the environment: a registry becomes unreachable or reachable, *)
(* or loses what it holds (a restart, or the expiry of a silent node); DNS *)
(* answers something else.  A user sets or clears the override.            *)
Fault == faults < MaxFaults /\ faults' = faults + 1 /\ stale' = TRUE

Reach(g) ==
    /\ IF reach[g] THEN Fault ELSE stale' = TRUE /\ UNCHANGED faults
    /\ reach' = [reach EXCEPT ![g] = ~@]
    /\ UNCHANGED <<changeVars, loopVars, run, dns, override, held, raced>>

Forget(g) ==
    /\ Fault /\ held[g] # Nothing
    /\ held' = [held EXCEPT ![g] = Nothing]
    /\ UNCHANGED <<changeVars, loopVars, run, reach, dns, override, raced>>

Readvertise ==
    /\ Fault
    /\ dns' \in Directories \ {dns}
    /\ UNCHANGED <<changeVars, loopVars, run, reach, override, held, raced>>

SetOverride ==
    /\ Fault
    /\ override' \in (Regs \cup {None}) \ {override}
    /\ UNCHANGED <<changeVars, loopVars, run, reach, dns, held, raced>>

----------------------------------------------------------------------------
(* The turn of an unregistered node: find the registries, then try them in *)
(* order.  The list of the last discovery serves for DUE turns.            *)
Find ==
    \/ /\ override # None
       /\ list' = <<override>> /\ stale' = TRUE /\ UNCHANGED since
    \/ /\ override = None /\ since + 1 >= DUE
       /\ list' \in DiscoverRegistries(dns) /\ since' = 0 /\ stale' = FALSE
    \/ /\ override = None /\ since + 1 < DUE
       /\ since' = since + 1 /\ UNCHANGED <<list, stale>>

(* RegisterAll begins, with the first entry of the list for a join.        *)
RegisterAll(why) ==
    /\ at' = "post" /\ raced' = FALSE
    /\ job' = [why |-> why, try |-> 1, item |-> 1]

Join ==
    /\ at = "turn" /\ run /\ ~registered
    /\ Find
    /\ IF list' = <<>>
         THEN at' = "sleep" /\ current' = None /\ UNCHANGED <<job, raced>>
         ELSE RegisterAll("join") /\ UNCHANGED current
    /\ UNCHANGED <<changeVars, regVersion, registered, run, reach, dns, override, faults, held>>

(* The turn of a registered node: heartbeat, then push what has changed.   *)
Heartbeat_Ignores404 ==
    /\ at = "turn" /\ run /\ registered
    /\ \/ /\ reach[current] /\ version = regVersion
          /\ at' = "sleep" /\ UNCHANGED <<registered, since, job, raced>>
       \/ /\ reach[current] /\ version # regVersion
          /\ RegisterAll("push") /\ UNCHANGED <<registered, since>>
       \/ /\ ~reach[current]
          /\ registered' = FALSE /\ since' = DUE /\ at' = "sleep" /\ UNCHANGED <<job, raced>>
    /\ UNCHANGED <<changeVars, regVersion, current, list, run, envVars, held>>

Heartbeat_NotesEarly ==
    /\ at = "turn" /\ run /\ registered
    /\ IF ~reach[current]
         THEN registered' = FALSE /\ since' = DUE /\ at' = "sleep" /\ UNCHANGED <<job, raced>>
         ELSE IF version = regVersion /\ held[current][Node] # Absent
         THEN at' = "sleep" /\ UNCHANGED <<registered, job, since, raced>>
         ELSE RegisterAll("push") /\ UNCHANGED <<registered, since>>
    /\ regVersion' = version
    /\ UNCHANGED <<changeVars, current, list, run, envVars, held>>

Heartbeat ==
    /\ at = "turn" /\ run /\ registered
    /\ \/ /\ reach[current] /\ held[current][Node] = Absent          \* 404
          /\ RegisterAll("again") /\ UNCHANGED <<registered, since>>
       \/ /\ ~reach[current]
          /\ registered' = FALSE /\ since' = DUE /\ at' = "sleep" /\ UNCHANGED <<job, raced>>
       \/ /\ reach[current] /\ held[current][Node] # Absent
          /\ version # regVersion
          /\ RegisterAll("push") /\ UNCHANGED <<registered, since>>
       \/ /\ reach[current] /\ held[current][Node] # Absent
          /\ version = regVersion
          /\ at' = "sleep" /\ UNCHANGED <<registered, since, job, raced>>
    /\ UNCHANGED <<changeVars, regVersion, current, list, run, envVars, held>>

(* RegisterAll is given an entry of the list, or the address it has.       *)
Target == IF job.why = "join" THEN list[job.try] ELSE current
Item   == Resources[job.item]

(* A registry takes a resource when it knows the node it belongs to.       *)
Accepts == reach[Target] /\ (Item = Node \/ held[Target][Node] # Absent)

(* The body of the request for a resource is built from the node's state   *)
(* when its turn has come, not when RegisterAll begins.                    *)
Built(t) == rev[t]

PostAccepted ==
    /\ at = "post" /\ Accepts
    /\ held' = [held EXCEPT ![Target][Item] = Built(Item)]
    /\ IF job.item = Len(Resources)
         THEN at' = "commit" /\ UNCHANGED job
         ELSE job' = [job EXCEPT !.item = @ + 1] /\ UNCHANGED at
    /\ UNCHANGED <<changeVars, regVersion, registered, current, listVars, run, envVars, raced>>

(* RegisterAll gives up: what the caller does next.                        *)
Failed ==
    IF job.why = "join" /\ job.try < Len(list)
      THEN /\ job' = [job EXCEPT !.try = @ + 1, !.item = 1] /\ raced' = FALSE
           /\ UNCHANGED <<at, registered, current>>
      ELSE /\ at' = "sleep" /\ job' = NoJob /\ UNCHANGED raced
           /\ registered' = (registered /\ job.why = "push")
           /\ current' = IF job.why = "join" THEN None ELSE current

PostFailed ==
    /\ at = "post" /\ ~Accepts
    /\ Failed
    /\ UNCHANGED <<changeVars, regVersion, listVars, run, envVars, held>>

(* The registry has taken the resource, its answer is lost.                *)
PostAnswerLost ==
    /\ at = "post" /\ Accepts /\ Fault
    /\ held' = [held EXCEPT ![Target][Item] = Built(Item)]
    /\ Failed
    /\ UNCHANGED <<changeVars, regVersion, listVars, run, reach, dns, override>>

(* RegisterAll has succeeded.  Only a join and a push note the version,    *)
(* the one it has by now.                                                  *)
Commit ==
    /\ at = "commit"
    /\ at' = "sleep" /\ job' = NoJob
    /\ registered' = TRUE
    /\ current' = IF job.why = "join" THEN Target ELSE current
    /\ regVersion' = IF job.why = "again" THEN regVersion ELSE version
    /\ UNCHANGED <<changeVars, listVars, run, envVars, held, raced>>

(* The sleep ends after 25 naps, or sooner when the versions differ.       *)
Wake ==
    /\ at = "sleep"
    /\ at' = "turn"
    /\ UNCHANGED <<changeVars, regVersion, registered, current, job, listVars, run, envVars, held, raced>>

Stop ==
    /\ run
    /\ run' = FALSE
    /\ UNCHANGED <<changeVars, loopVars, envVars, held, raced>>

(* The loop ends and the node is deleted from the registry it is known to. *)
Unregister ==
    /\ at = "turn" /\ ~run
    /\ at' = "end"
    /\ held' = IF current # None /\ reach[current] THEN [held EXCEPT ![current] = Nothing]
                                                   ELSE held
    /\ UNCHANGED <<changeVars, regVersion, registered, current, job, listVars, run, envVars, raced>>

Loop == Join \/ Heartbeat \/ PostAccepted \/ PostFailed \/ PostAnswerLost \/ Commit
        \/ Wake \/ Unregister

Next ==
    \/ \E t \in Types : Change(t) \/ ChangeQuietly(t)
    \/ BumpVersion
    \/ \E g \in Regs : Reach(g) \/ Forget(g)
    \/ Readvertise \/ SetOverride
    \/ Loop
    \/ Stop

Spec == Init /\ [][Next]_vars

(* The registration thread keeps running.                                  *)
FairSpec == Spec /\ WF_vars(Loop)

----------------------------------------------------------------------------
TypeOK ==
    /\ rev \in [Types -> 0..MaxChanges] /\ due \in [Types -> 0..MaxChanges]
    /\ unbumped \subseteq Types
    /\ registered \in BOOLEAN /\ run \in BOOLEAN /\ raced \in BOOLEAN
    /\ version \in Nat /\ regVersion \in Nat
    /\ current \in Regs \cup {None}
    /\ at \in {"turn", "post", "commit", "sleep", "end"}
    /\ job \in [why : {"none", "join", "again", "push"}, try : Nat,
                item : DOMAIN Resources]
    /\ job.why = "join" => job.try \in DOMAIN list
    /\ reach \in [Regs -> BOOLEAN]
    /\ held \in [Regs -> [Types -> -1..MaxChanges]]
    /\ list \in Seq(Regs) /\ since \in 0..DUE
    /\ dns \in Directories /\ override \in Regs \cup {None}
    /\ faults \in 0..MaxFaults /\ stale \in BOOLEAN

(* The thread is at rest and sees nothing to push to a registry that has   *)
(* not lost the node.                                                      *)
AtRest ==
    /\ at = "sleep" /\ registered
    /\ version = regVersion
    /\ held[current][Node] # Absent

Current  == \A t \in Types : held[current][t] >= due[t]
Complete == \A t \in Types : held[current][t] = rev[t]

(* If BumpVersion was not called during the last RegisterAll, then at rest *)
(* the registry holds every resource as it was at the last BumpVersion, or *)
(* newer: failed, repeated and half finished pushes, re-registrations and  *)
(* failovers are made good, whatever changes in between.                   *)
RegistryCurrent == ~raced /\ AtRest => Current

(* node.cpp:459 "push is-05/config changes to the registry right away ...  *)
(* controllers see the switch immediately": the same without the proviso.  *)
ChangesPushed == AtRest => Current

(* node.cpp:459 "push is-05/config changes to the registry right away",    *)
(* node.h:58 "resource change -> re-register": when no thread is about to  *)
(* call BumpVersion, or did so during the last RegisterAll, the registry   *)
(* holds the resources as they are.                                        *)
ChangesRegistered == ~raced /\ AtRest /\ unbumped = {} => Complete

(* dnssd.h:15 "best priority first": unless something has changed since    *)
(* the discovery, the registry that is joined is one of the best that DNS  *)
(* advertises and that can be reached, however often the list is reused.   *)
JoinsPreferred ==
    [][at = "commit" /\ job.why = "join" /\ at' # "commit" /\ ~stale =>
          \E i \in Kept(dns) :
              /\ dns[i].url = current' /\ registered'
              /\ \A j \in Kept(dns) :
                    reach[dns[j].url] => Priority(dns[i]) <= Priority(dns[j])]_vars

(* Once every registry stays reachable and one is advertised or set, the   *)
(* node ends up registered with one that holds it.                         *)
EventuallyRegistered ==
    <>[](/\ \A g \in Regs : reach[g]
         /\ Kept(dns) # {} \/ override # None) =>
        <>[](run => registered /\ held[current][Node] # Absent)
===============================================================================
