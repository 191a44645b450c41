-------------------------- MODULE RegistrationProofs --------------------------
(***************************************************************************)
(* Theorems about Registration, for any registries, answers of DNS and     *)
(* resources and any number of changes and faults.                         *)
(***************************************************************************)
EXTENDS Registration, TLAPS, FiniteSetTheorems

InPost == at \in {"post", "commit"}

(* RegisterAll runs exactly while it has a caller, and the callers that    *)
(* keep the address run it for a node that is registered.                  *)
CallerKnown ==
    /\ InPost <=> job.why # "none"
    /\ job.why \in {"again", "push"} => registered

(* What RegisterAll has posted so far.                                     *)
Done == IF at = "commit" THEN Len(Resources) ELSE job.item - 1

(* What was announced is not newer than what there is.                     *)
DueKnown == \A t \in Types : due[t] <= rev[t]

(* If BumpVersion was not called during the last RegisterAll: a registry   *)
(* that holds the node holds all that this RegisterAll has posted, since   *)
(* it takes nothing else without the node and loses everything at once; a  *)
(* push is for a version not yet noted; and a registered node without a    *)
(* push to come is current.                                                *)
PostedKept ==
    ~raced /\ InPost /\ held[Target][Node] # Absent =>
        \A i \in 1..Done : held[Target][Resources[i]] >= due[Resources[i]]

PushIsNew == job.why = "push" => version # regVersion

RestComplete ==
    ~raced /\ registered /\ ~InPost /\ version = regVersion
        /\ held[current][Node] # Absent => Current

(* A list that is not stale is what DNS gives, and the entries that a join *)
(* has passed over cannot be reached.                                      *)
FreshList == ~stale => list \in DiscoverRegistries(dns)

PassedOver ==
    ~stale /\ InPost /\ job.why = "join" =>
        /\ \A k \in 1..(job.try - 1) : ~reach[list[k]]
        /\ at = "post" /\ job.item > 1 => held[Target][Node] # Absent

(* A node that believes itself registered knows where: the heartbeat never *)
(* goes to an empty address, whatever failed before.                       *)
RegisteredSomewhere == registered => current # None

IInv ==
    /\ TypeOK
    /\ regVersion <= version
    /\ DueKnown
    /\ RegisteredSomewhere
    /\ CallerKnown
    /\ PostedKept /\ PushIsNew /\ RestComplete
    /\ FreshList /\ PassedOver

----------------------------------------------------------------------------
LEMMA ResourceFacts ==
    /\ Len(Resources) \in Nat /\ Len(Resources) > 0
    /\ DOMAIN Resources = 1..Len(Resources)
    /\ 1 \in DOMAIN Resources
    /\ Node \in Types /\ \A i \in DOMAIN Resources : Resources[i] \in Types
<1>1. Resources \in Seq(STRING) /\ Len(Resources) > 0
    BY RegistrationAssumption
<1>2. Len(Resources) \in Nat /\ DOMAIN Resources = 1..Len(Resources)
    BY <1>1
<1>3. 1 \in DOMAIN Resources
    BY <1>1, <1>2
<1> QED
    BY <1>1, <1>2, <1>3 DEF Types, Node

LEMMA NothingType == Nothing \in [Types -> -1..MaxChanges] /\ Nothing[Node] = Absent
    BY ResourceFacts, RegistrationAssumption DEF Nothing, Absent

(* A list that DiscoverRegistries returns: it contains the URLs of the     *)
(* kept instances and nothing else, in the order of priority.              *)
LEMMA Discovered ==
    ASSUME NEW answers \in Directories, NEW l \in DiscoverRegistries(answers)
    PROVE  /\ l \in Seq(Regs)
           /\ \E o \in [DOMAIN l -> Kept(answers)] :
                 /\ \A k \in DOMAIN l : l[k] = answers[o[k]].url
                 /\ \A i \in Kept(answers) : \E k \in DOMAIN l : o[k] = i
                 /\ \A j, k \in DOMAIN l :
                       j < k => Priority(answers[o[j]]) <= Priority(answers[o[k]])
<1> DEFINE n == Cardinality(Kept(answers))
<1>1. PICK o \in [1..n -> Kept(answers)] :
          /\ \A i \in Kept(answers) : \E k \in DOMAIN o : o[k] = i
          /\ \A j, k \in DOMAIN o :
                j < k => Priority(answers[o[j]]) <= Priority(answers[o[k]])
          /\ l = [k \in DOMAIN o |-> answers[o[k]].url]
    BY DEF DiscoverRegistries
<1>2. answers \in Seq([url : Regs \cup {NoUrl}, pri : Int])
    BY RegistrationAssumption
<1>3. n \in Nat
  <2>1. Kept(answers) \in SUBSET (1..Len(answers)) /\ Len(answers) \in Nat
      BY <1>2 DEF Kept
  <2>2. IsFiniteSet(1..Len(answers))
      BY <2>1, FS_Interval
  <2>3. IsFiniteSet(Kept(answers))
      BY <2>1, <2>2, FS_Subset
  <2> QED
      BY <2>3, FS_CardinalityType
<1>4. \A i \in Kept(answers) : answers[i].url \in Regs
  <2> TAKE i \in Kept(answers)
  <2>1. i \in DOMAIN answers /\ answers[i].url # NoUrl
      BY DEF Kept
  <2>2. answers[i] \in [url : Regs \cup {NoUrl}, pri : Int]
    <3> DEFINE Inst == [url : Regs \cup {NoUrl}, pri : Int]
    <3>1. answers \in Seq(Inst)
        BY <1>2
    <3> HIDE DEF Inst
    <3>2. answers[i] \in Inst
        BY <2>1, <3>1
    <3> QED
        BY <3>2 DEF Inst
  <2> QED
      BY <2>1, <2>2
<1> HIDE DEF n
<1>5. DOMAIN l = 1..n /\ DOMAIN o = 1..n /\ \A k \in 1..n : l[k] = answers[o[k]].url
    BY <1>1
<1>6. l \in [1..n -> Regs]
    BY <1>1, <1>4, <1>5
<1>7. l \in Seq(Regs)
    BY <1>3, <1>6
<1> QED
    BY <1>1, <1>5, <1>7

(* RegisterAll has a registry to talk to.                                  *)
LEMMA TargetType ==
    ASSUME TypeOK, CallerKnown, RegisteredSomewhere, InPost
    PROVE  Target \in Regs
<1>1. CASE job.why = "join"
  <2>1. job.try \in DOMAIN list /\ list \in Seq(Regs)
      BY <1>1 DEF TypeOK
  <2> QED
      BY <1>1, <2>1 DEF Target
<1>2. CASE job.why # "join"
  <2>1. job.why \in {"again", "push"}
      BY <1>2 DEF TypeOK, CallerKnown
  <2> QED
      BY <1>2, <2>1 DEF Target, TypeOK, CallerKnown, RegisteredSomewhere
<1> QED
    BY <1>1, <1>2

----------------------------------------------------------------------------
LEMMA InitIInv == Init => IInv
<1> SUFFICES ASSUME Init PROVE IInv
    OBVIOUS
<1> USE RegistrationAssumption, ResourceFacts
<1>1. TypeOK
  <2>1. job \in [why : {"none", "join", "again", "push"}, try : Nat, item : DOMAIN Resources]
        /\ job.why = "none"
      BY DEF Init, NoJob
  <2>2. held \in [Regs -> [Types -> -1..MaxChanges]]
      BY NothingType DEF Init
  <2>3. rev \in [Types -> 0..MaxChanges] /\ due \in [Types -> 0..MaxChanges]
      BY DEF Init
  <2>4. list \in Seq(Regs)
      BY DEF Init
  <2>5. /\ unbumped \subseteq Types /\ registered \in BOOLEAN /\ run \in BOOLEAN /\ raced \in BOOLEAN
        /\ stale \in BOOLEAN
      BY DEF Init
  <2>6. /\ version \in Nat /\ regVersion \in Nat /\ current \in Regs \cup {None}
        /\ at \in {"turn", "post", "commit", "sleep", "end"}
        /\ since \in 0..DUE /\ faults \in 0..MaxFaults
      BY DEF Init
  <2>7. reach \in [Regs -> BOOLEAN] /\ dns \in Directories /\ override \in Regs \cup {None}
      BY DEF Init
  <2> QED
      BY <2>1, <2>2, <2>3, <2>4, <2>5, <2>6, <2>7 DEF TypeOK
<1>2. RegisteredSomewhere /\ CallerKnown /\ PostedKept /\ PushIsNew /\ RestComplete
    BY DEF Init, NoJob, RegisteredSomewhere, CallerKnown, InPost, PostedKept, PushIsNew,
           RestComplete
<1>3. FreshList /\ PassedOver
    BY DEF Init, FreshList, PassedOver
<1>4. DueKnown
    BY DEF Init, DueKnown
<1> QED
    BY <1>1, <1>2, <1>3, <1>4 DEF Init, IInv

(* Steps of the environment.                                               *)
LEMMA ChangeStep ==
    ASSUME IInv, \E t \in Types : Change(t) \/ ChangeQuietly(t)
    PROVE  IInv'
<1> USE DEF changeVars, loopVars, listVars, envVars
<1>1. PICK t \in Types :
          /\ Revise(t)
          /\ UNCHANGED <<version, due, loopVars, run, envVars, held, raced>>
          /\ unbumped' = unbumped \/ unbumped' = unbumped \cup {t}
    BY DEF Change, ChangeQuietly
<1>2. rev \in [Types -> 0..MaxChanges] /\ rev[t] < MaxChanges /\ MaxChanges \in Nat
      /\ rev' = [rev EXCEPT ![t] = rev[t] + 1]
    BY <1>1, RegistrationAssumption DEF Revise, IInv, TypeOK
<1>3. rev[t] + 1 \in 0..MaxChanges
    BY <1>2
<1>4. rev' \in [Types -> 0..MaxChanges] /\ \A u \in Types : rev[u] <= rev'[u]
    BY <1>2, <1>3
<1>5. TypeOK'
    BY <1>1, <1>4 DEF IInv, TypeOK
<1>6. DueKnown'
  <2> SUFFICES ASSUME NEW u \in Types PROVE due[u] <= rev'[u]
      BY <1>1 DEF DueKnown
  <2>1. due[u] \in Nat /\ rev[u] \in Nat /\ rev'[u] \in Nat /\ due[u] <= rev[u]
      BY <1>2, <1>4 DEF IInv, TypeOK, DueKnown
  <2> QED
      BY <1>4, <2>1
<1>7. UNCHANGED <<version, due, loopVars, envVars, held, raced>>
    BY <1>1
<1> QED
    BY <1>5, <1>6, <1>7
    DEF IInv, RegisteredSomewhere, CallerKnown, InPost, PostedKept, PushIsNew, RestComplete,
        FreshList, PassedOver, Target, Done, Current

LEMMA BumpStep == ASSUME IInv, BumpVersion PROVE IInv'
<1> USE DEF changeVars, loopVars, listVars, envVars
<1>1. /\ UNCHANGED <<rev, loopVars, run, envVars, held>>
      /\ version' = version + 1 /\ due' = rev /\ unbumped' \subseteq unbumped
    BY DEF BumpVersion
<1>2. raced' = (raced \/ InPost)
    BY DEF BumpVersion, InRegisterAll, InPost
<1>3. raced' \in BOOLEAN /\ (InPost => raced')
    BY <1>2, Zenon
<1>4. version' \in Nat /\ regVersion' <= version' /\ version' # regVersion'
    BY <1>1 DEF IInv, TypeOK
<1>5. TypeOK'
    BY <1>1, <1>3, <1>4 DEF IInv, TypeOK
<1>6. DueKnown'
    BY <1>1 DEF DueKnown, IInv, TypeOK
<1>7. RegisteredSomewhere' /\ CallerKnown' /\ FreshList' /\ PassedOver'
    BY <1>1 DEF IInv, RegisteredSomewhere, CallerKnown, InPost, FreshList, PassedOver, Target
<1>8. InPost' = InPost
    BY <1>1 DEF InPost
<1>9. PostedKept' /\ PushIsNew' /\ RestComplete'
    BY <1>3, <1>4, <1>8 DEF PostedKept, PushIsNew, RestComplete
<1> QED
    BY <1>4, <1>5, <1>6, <1>7, <1>9 DEF IInv

LEMMA EnvStep ==
    ASSUME IInv, (\E g \in Regs : Reach(g) \/ Forget(g)) \/ Readvertise \/ SetOverride
    PROVE  IInv'
<1> USE DEF changeVars, loopVars, listVars, envVars
<1>1. UNCHANGED <<changeVars, loopVars, run, raced>> /\ stale' = TRUE
    BY DEF Reach, Forget, Readvertise, SetOverride, Fault
<1>2. /\ reach' \in [Regs -> BOOLEAN] /\ dns' \in Directories /\ override' \in Regs \cup {None}
      /\ faults' \in 0..MaxFaults
  <2>1. faults' \in 0..MaxFaults
    <3>1. faults \in 0..MaxFaults /\ MaxFaults \in Nat
        BY RegistrationAssumption DEF IInv, TypeOK
    <3>2. faults' = faults \/ (faults < MaxFaults /\ faults' = faults + 1)
        BY DEF Reach, Forget, Readvertise, SetOverride, Fault
    <3> QED
        BY <3>1, <3>2
  <2>2. reach' = reach \/ \E g \in Regs : reach' = [reach EXCEPT ![g] = ~reach[g]]
      BY DEF Reach, Forget, Readvertise, SetOverride
  <2>3. reach' \in [Regs -> BOOLEAN]
      BY <2>2 DEF IInv, TypeOK
  <2>4. dns' \in Directories /\ override' \in Regs \cup {None}
      BY DEF Reach, Forget, Readvertise, SetOverride, IInv, TypeOK
  <2> QED
      BY <2>1, <2>3, <2>4
<1>3. held' = held \/ \E g \in Regs : held' = [held EXCEPT ![g] = Nothing]
    BY DEF Reach, Forget, Readvertise, SetOverride
<1>4. held' \in [Regs -> [Types -> -1..MaxChanges]]
    BY <1>3, NothingType DEF IInv, TypeOK
<1>5. \A g \in Regs : held'[g] = held[g] \/ held'[g][Node] = Absent
    BY <1>3, NothingType DEF IInv, TypeOK
<1>6. TypeOK'
    BY <1>1, <1>2, <1>4 DEF IInv, TypeOK
<1>7. /\ RegisteredSomewhere' /\ CallerKnown' /\ PushIsNew' /\ FreshList' /\ PassedOver'
      /\ DueKnown'
    BY <1>1 DEF IInv, RegisteredSomewhere, CallerKnown, InPost, PushIsNew, FreshList, PassedOver,
                DueKnown
<1>8. PostedKept'
  <2>1. InPost' = InPost /\ Target' = Target /\ Done' = Done
      BY <1>1 DEF InPost, Target, Done
  <2> QED
      BY <1>1, <1>5, <2>1, TargetType DEF IInv, PostedKept
<1>9. RestComplete'
  <2>1. registered => current \in Regs
      BY DEF IInv, TypeOK, RegisteredSomewhere
  <2> QED
      BY <1>1, <1>5, <2>1 DEF IInv, RestComplete, InPost, Current
<1> QED
    BY <1>1, <1>6, <1>7, <1>8, <1>9 DEF IInv

----------------------------------------------------------------------------
(* Steps of the registration thread.                                       *)
LEMMA JoinStep == ASSUME IInv, Join PROVE IInv'
<1> USE DEF changeVars, loopVars, listVars, envVars
<1>1. /\ UNCHANGED <<changeVars, regVersion, registered, run, reach, dns, override, faults,
                     held>>
      /\ at = "turn" /\ ~registered /\ Find
    BY DEF Join
<1>2. list' \in Seq(Regs) /\ since' \in 0..DUE /\ stale' \in BOOLEAN
  <2>1. list \in Seq(Regs) /\ since \in 0..DUE /\ stale \in BOOLEAN /\ DUE \in Nat
        /\ override \in Regs \cup {None} /\ dns \in Directories
      BY RegistrationAssumption DEF IInv, TypeOK
  <2>2. CASE /\ override # None
             /\ list' = <<override>> /\ stale' = TRUE /\ UNCHANGED since
    <3>1. <<override>> \in Seq(Regs)
        BY <2>1, <2>2
    <3> QED
        BY <2>1, <2>2, <3>1
  <2>3. CASE list' \in DiscoverRegistries(dns) /\ since' = 0 /\ stale' = FALSE
    <3>1. list' \in Seq(Regs)
        BY <2>1, <2>3, Discovered
    <3>2. since' \in 0..DUE
        BY <2>1, <2>3
    <3>3. stale' \in BOOLEAN
        BY <2>3, Zenon
    <3> QED
        BY <3>1, <3>2, <3>3, Zenon
  <2>4. CASE since + 1 < DUE /\ since' = since + 1 /\ UNCHANGED <<list, stale>>
      BY <2>1, <2>4
  <2> QED
      BY <1>1, <2>2, <2>3, <2>4 DEF Find
<1>3. FreshList'
    BY <1>1 DEF Find, FreshList, IInv
<1>4. \/ at' = "sleep" /\ current' = None /\ job' = job
      \/ /\ at' = "post" /\ job' = [why |-> "join", try |-> 1, item |-> 1] /\ current' = current
         /\ list' # <<>>
    BY DEF Join, RegisterAll
<1>8. raced' \in BOOLEAN
  <2>1. raced' = raced \/ raced' = FALSE
      BY DEF Join, RegisterAll
  <2> QED
      BY <2>1, Zenon DEF IInv, TypeOK
<1>5. TypeOK' /\ CallerKnown'
  <2>1. job.why = "none"
      BY <1>1 DEF IInv, CallerKnown, InPost
  <2>2. list' # <<>> => 1 \in DOMAIN list'
      BY <1>2
  <2>3. CASE at' = "sleep" /\ current' = None /\ job' = job
      BY <1>1, <1>2, <1>8, <2>1, <2>3 DEF IInv, TypeOK, CallerKnown, InPost
  <2>4. CASE at' = "post" /\ job' = [why |-> "join", try |-> 1, item |-> 1] /\ current' = current
             /\ list' # <<>>
    <3>1. job' \in [why : {"none", "join", "again", "push"}, try : Nat, item : DOMAIN Resources]
          /\ job'.why = "join" /\ job'.try = 1
        BY <2>4, ResourceFacts
    <3> QED
        BY <1>1, <1>2, <1>8, <2>2, <2>4, <3>1 DEF IInv, TypeOK, CallerKnown, InPost
  <2> QED
      BY <1>4, <2>3, <2>4
<1>6. RegisteredSomewhere' /\ RestComplete' /\ regVersion' <= version' /\ DueKnown'
    BY <1>1 DEF RegisteredSomewhere, RestComplete, IInv, DueKnown
<1>7. PostedKept' /\ PushIsNew' /\ PassedOver'
  <2>1. CASE at' = "sleep" /\ current' = None /\ job' = job
      BY <1>1, <2>1 DEF PostedKept, PushIsNew, PassedOver, IInv, InPost, CallerKnown
  <2>2. CASE at' = "post" /\ job' = [why |-> "join", try |-> 1, item |-> 1]
    <3>1. job'.why = "join" /\ job'.try = 1 /\ job'.item = 1 /\ Done' = 0
        BY <2>2 DEF Done
    <3> QED
        BY <2>2, <3>1 DEF PostedKept, PushIsNew, PassedOver
  <2> QED
      BY <1>4, <2>1, <2>2
<1> QED
    BY <1>3, <1>5, <1>6, <1>7 DEF IInv

LEMMA HeartbeatStep == ASSUME IInv, Heartbeat PROVE IInv'
<1> USE DEF changeVars, loopVars, listVars, envVars
<1>1. /\ UNCHANGED <<changeVars, regVersion, current, list, run, envVars, held>>
      /\ at = "turn" /\ registered
    BY DEF Heartbeat
<1> DEFINE Again(why) == [why |-> why, try |-> 1, item |-> 1]
<1>2. job.why = "none" /\ ~InPost
    BY <1>1 DEF IInv, CallerKnown, InPost
<1>3. \/ /\ job' = Again("again") /\ at' = "post" /\ registered' = registered /\ since' = since
      \/ /\ job' = Again("push") /\ at' = "post" /\ registered' = registered /\ since' = since
         /\ version # regVersion
      \/ /\ job' = job /\ at' = "sleep" /\ registered' = FALSE /\ since' = DUE
         /\ raced' = raced
      \/ /\ job' = job /\ at' = "sleep" /\ registered' = registered /\ since' = since
         /\ raced' = raced
    BY Zenon DEF Heartbeat, RegisterAll
<1>7. raced' \in BOOLEAN
  <2>1. raced' = raced \/ raced' = FALSE
      BY Zenon DEF Heartbeat, RegisterAll
  <2> QED
      BY <2>1, Zenon DEF IInv, TypeOK
<1>4. FreshList' /\ regVersion' <= version' /\ DueKnown'
    BY <1>1 DEF IInv, FreshList, DueKnown
<1>5. CASE \E why \in {"again", "push"} :
              /\ job' = Again(why) /\ at' = "post" /\ registered' = registered /\ since' = since
              /\ why = "push" => version # regVersion
  <2>1. PICK why \in {"again", "push"} : job' = Again(why) /\ (why = "push" => version # regVersion)
      BY <1>5
  <2>2. /\ job' \in [why : {"none", "join", "again", "push"}, try : Nat, item : DOMAIN Resources]
        /\ job'.why = why /\ job'.item = 1
      BY <2>1, ResourceFacts
  <2>3. TypeOK' /\ CallerKnown' /\ RegisteredSomewhere'
      BY <1>1, <1>5, <1>7, <2>2 DEF IInv, TypeOK, CallerKnown, RegisteredSomewhere, InPost
  <2>4. Done' = 0 /\ InPost'
      BY <1>5, <2>2 DEF Done, InPost
  <2>5. PostedKept' /\ PushIsNew' /\ RestComplete' /\ PassedOver'
      BY <1>1, <2>1, <2>2, <2>4 DEF PostedKept, PushIsNew, RestComplete, PassedOver
  <2> QED
      BY <1>4, <2>3, <2>5 DEF IInv
<1>6. CASE /\ job' = job /\ at' = "sleep" /\ raced' = raced
           /\ \/ registered' = FALSE /\ since' = DUE
              \/ registered' = registered /\ since' = since
  <2>0. since' \in 0..DUE /\ registered' \in BOOLEAN /\ (registered' => registered)
    <3>1. DUE \in 0..DUE /\ since \in 0..DUE /\ registered \in BOOLEAN
        BY RegistrationAssumption DEF IInv, TypeOK
    <3>2. since' \in 0..DUE
        BY <1>6, <3>1
    <3> QED
      <4>1. CASE registered' = FALSE
          BY <3>2, <4>1, Zenon
      <4>2. CASE registered' = registered
          BY <3>1, <3>2, <4>2, Zenon
      <4> QED
          BY <1>6, <4>1, <4>2, Zenon
  <2>1. TypeOK' /\ CallerKnown' /\ RegisteredSomewhere'
      BY <1>1, <1>2, <1>6, <1>7, <2>0
      DEF IInv, TypeOK, CallerKnown, RegisteredSomewhere, InPost
  <2>2. ~InPost'
      BY <1>6 DEF InPost
  <2>3. PostedKept' /\ PushIsNew' /\ PassedOver'
      BY <1>2, <1>6, <2>2 DEF PostedKept, PushIsNew, PassedOver
  <2>4. RestComplete'
      BY <1>1, <1>2, <1>6, <2>0 DEF IInv, RestComplete, Current
  <2> QED
      BY <1>4, <2>1, <2>3, <2>4 DEF IInv
<1> QED
    BY <1>3, <1>5, <1>6

LEMMA AcceptedStep == ASSUME IInv, PostAccepted PROVE IInv'
<1> USE DEF changeVars, loopVars, listVars, envVars
<1>1. /\ UNCHANGED <<changeVars, regVersion, registered, current, list, since, run, envVars, raced>>
      /\ at = "post" /\ InPost /\ Accepts
      /\ held' = [held EXCEPT ![Target][Item] = rev[Item]]
    BY DEF PostAccepted, Built, InPost
<1>2. Target \in Regs /\ job.item \in 1..Len(Resources) /\ Item \in Types /\ Node \in Types
    BY <1>1, TargetType, ResourceFacts DEF IInv, TypeOK, Item
<1>3. \/ job.item = Len(Resources) /\ at' = "commit" /\ job' = job
      \/ /\ job.item # Len(Resources) /\ at' = "post"
         /\ job' = [job EXCEPT !.item = job.item + 1]
    BY <1>1 DEF PostAccepted
<1>4. /\ job' \in [why : {"none", "join", "again", "push"}, try : Nat, item : DOMAIN Resources]
      /\ job'.why = job.why /\ job'.try = job.try
      /\ InPost' /\ Done' = job.item
  <2>1. job \in [why : {"none", "join", "again", "push"}, try : Nat, item : DOMAIN Resources]
      BY DEF IInv, TypeOK
  <2>2. CASE job.item = Len(Resources) /\ at' = "commit" /\ job' = job
      BY <2>1, <2>2 DEF InPost, Done
  <2>3. CASE /\ job.item # Len(Resources) /\ at' = "post"
             /\ job' = [job EXCEPT !.item = job.item + 1]
    <3>1. job.item + 1 \in DOMAIN Resources
        BY <1>2, <2>3, ResourceFacts
    <3>2. job' \in [why : {"none", "join", "again", "push"}, try : Nat, item : DOMAIN Resources]
          /\ job'.why = job.why /\ job'.try = job.try /\ job'.item = job.item + 1
        BY <2>1, <2>3, <3>1
    <3> QED
        BY <1>2, <2>3, <3>2 DEF InPost, Done
  <2> QED
      BY <1>3, <2>2, <2>3
<1>5. Target' = Target
    BY <1>1, <1>4 DEF Target
<1>6. /\ held \in [Regs -> [Types -> -1..MaxChanges]] /\ rev \in [Types -> 0..MaxChanges]
      /\ MaxChanges \in Nat
    BY RegistrationAssumption DEF IInv, TypeOK
<1>7. /\ held' \in [Regs -> [Types -> -1..MaxChanges]]
      /\ held'[Target][Item] = rev[Item]
      /\ \A t \in Types \ {Item} : held'[Target][t] = held[Target][t]
    BY <1>1, <1>2, <1>6
<1>8. held'[Target][Node] # Absent
  <2>1. rev[Item] # Absent
      BY <1>2, <1>6 DEF Absent
  <2>2. Item = Node \/ held[Target][Node] # Absent
      BY <1>1 DEF Accepts
  <2> QED
      BY <1>2, <1>7, <2>1, <2>2
<1>9. TypeOK'
  <2>1. at' \in {"turn", "post", "commit", "sleep", "end"}
      BY <1>3
  <2> QED
      BY <1>1, <1>4, <1>7, <2>1 DEF IInv, TypeOK
<1>10. RegisteredSomewhere' /\ CallerKnown' /\ PushIsNew' /\ RestComplete' /\ FreshList'
       /\ regVersion' <= version' /\ DueKnown'
    BY <1>1, <1>4
    DEF IInv, RegisteredSomewhere, CallerKnown, InPost, PushIsNew, RestComplete, FreshList, DueKnown
<1>11. PassedOver'
    BY <1>1, <1>4, <1>5, <1>8 DEF IInv, PassedOver
<1>12. PostedKept'
  <2> SUFFICES ASSUME ~raced, NEW i \in 1..job.item
               PROVE  held'[Target][Resources[i]] >= due[Resources[i]]
      BY <1>1, <1>4, <1>5 DEF PostedKept
  <2>1. Resources[i] \in Types
      BY <1>2, ResourceFacts
  <2>2. CASE Resources[i] = Item
    <3>1. /\ due[Item] \in Nat /\ rev[Item] \in Nat /\ due[Item] <= rev[Item]
        BY <1>2 DEF IInv, TypeOK, DueKnown
    <3> QED
        BY <1>7, <2>2, <3>1
  <2>3. CASE Resources[i] # Item
    <3>1. i \in 1..(job.item - 1) /\ 1 \in DOMAIN Resources /\ job.item \in DOMAIN Resources
        BY <1>2, <2>3, ResourceFacts DEF Item
    <3>2. Done = job.item - 1
        BY <1>1 DEF Done
    <3>3. Item # Node
      <4>1. job.item # 1
          BY <1>2, <3>1
      <4> QED
          BY <3>1, <4>1, RegistrationAssumption DEF Item, Node
    <3>4. held[Target][Node] # Absent
        BY <1>1, <3>3 DEF Accepts
    <3>5. held[Target][Resources[i]] >= due[Resources[i]]
        BY <1>1, <3>1, <3>2, <3>4 DEF IInv, PostedKept
    <3> QED
        BY <1>7, <2>1, <2>3, <3>5
  <2> QED
      BY <2>2, <2>3
<1> QED
    BY <1>9, <1>10, <1>11, <1>12 DEF IInv

(* RegisterAll gives up, whatever the registry has taken before.           *)
LEMMA FailedStep == ASSUME IInv, PostFailed \/ PostAnswerLost PROVE IInv'
<1> USE DEF changeVars, loopVars, listVars, envVars
<1>1. /\ UNCHANGED <<changeVars, regVersion, list, since, run, reach, dns, override>>
      /\ at = "post" /\ InPost /\ Failed
      /\ \/ stale' = stale /\ ~Accepts
         \/ stale' = TRUE
    BY DEF PostFailed, PostAnswerLost, Fault, InPost
<1>2. held' \in [Regs -> [Types -> -1..MaxChanges]] /\ faults' \in 0..MaxFaults
      /\ stale' \in BOOLEAN
  <2>1. /\ held \in [Regs -> [Types -> -1..MaxChanges]] /\ rev \in [Types -> 0..MaxChanges]
        /\ MaxChanges \in Nat /\ faults \in 0..MaxFaults /\ MaxFaults \in Nat
        /\ stale \in BOOLEAN
      BY RegistrationAssumption DEF IInv, TypeOK
  <2>2. Target \in Regs /\ Item \in Types
      BY <1>1, TargetType, ResourceFacts DEF IInv, TypeOK, Item
  <2>3. held' = held \/ held' = [held EXCEPT ![Target][Item] = rev[Item]]
      BY DEF PostFailed, PostAnswerLost, Built
  <2>4. faults' = faults \/ (faults < MaxFaults /\ faults' = faults + 1)
      BY DEF PostFailed, PostAnswerLost, Fault
  <2>5. held' \in [Regs -> [Types -> -1..MaxChanges]]
      BY <2>1, <2>2, <2>3
  <2>6. faults' \in 0..MaxFaults
      BY <2>1, <2>4
  <2>7. stale' \in BOOLEAN
      BY <1>1, <2>1, Zenon
  <2> QED
      BY <2>5, <2>6, <2>7
<1>3. FreshList' /\ regVersion' <= version' /\ DueKnown'
    BY <1>1 DEF IInv, FreshList, DueKnown
<1>6. raced' \in BOOLEAN
  <2>1. raced' = raced \/ raced' = FALSE
      BY <1>1 DEF Failed
  <2> QED
      BY <2>1, Zenon DEF IInv, TypeOK
<1>4. CASE job.why = "join" /\ job.try < Len(list)
  <2>1. /\ job \in [why : {"none", "join", "again", "push"}, try : Nat, item : DOMAIN Resources]
        /\ list \in Seq(Regs) /\ job.try \in 1..Len(list) /\ Len(list) \in Nat
      BY <1>4 DEF IInv, TypeOK
  <2>2. /\ job' = [job EXCEPT !.try = job.try + 1, !.item = 1]
        /\ UNCHANGED <<at, registered, current>>
      BY <1>1, <1>4 DEF Failed
  <2>3. /\ job' \in [why : {"none", "join", "again", "push"}, try : Nat, item : DOMAIN Resources]
        /\ job'.why = "join" /\ job'.try = job.try + 1 /\ job'.item = 1
    <3>1. job' = [why |-> job.why, try |-> job.try + 1, item |-> 1]
        BY <2>1, <2>2
    <3>2. 1 \in DOMAIN Resources /\ job.try + 1 \in Nat /\ job.why \in {"none", "join", "again", "push"}
        BY <2>1, ResourceFacts
    <3> QED
        BY <1>4, <3>1, <3>2
  <2>4. job'.try \in DOMAIN list'
      BY <1>1, <1>4, <2>1, <2>3
  <2>5. TypeOK'
      BY <1>1, <1>2, <1>6, <2>2, <2>3, <2>4 DEF IInv, TypeOK
  <2>6. RegisteredSomewhere' /\ CallerKnown' /\ PushIsNew' /\ RestComplete' /\ InPost'
      BY <1>1, <1>4, <2>2, <2>3
      DEF IInv, RegisteredSomewhere, CallerKnown, InPost, PushIsNew, RestComplete
  <2>7. PostedKept'
    <3>1. Done' = 0
        BY <1>1, <2>2, <2>3 DEF Done
    <3> QED
        BY <3>1 DEF PostedKept
  <2>8. PassedOver'
    <3> SUFFICES ASSUME ~stale', NEW k \in 1..job.try
                 PROVE  ~reach[list[k]]
        BY <1>1, <2>1, <2>3 DEF PassedOver
    <3>1. ~stale /\ ~Accepts /\ Target = list[job.try]
        BY <1>1, <1>4 DEF Target
    <3>2. CASE k \in 1..(job.try - 1)
        BY <1>1, <1>4, <3>1, <3>2 DEF IInv, PassedOver
    <3>3. CASE k = job.try
      <4>1. job.item = 1 \/ job.item > 1
          BY <2>1, ResourceFacts
      <4>2. Item = Node \/ held[Target][Node] # Absent
          BY <1>1, <1>4, <3>1, <4>1 DEF IInv, PassedOver, Item, Node
      <4> QED
          BY <3>1, <3>3, <4>2 DEF Accepts
    <3> QED
        BY <2>1, <3>2, <3>3
  <2> QED
      BY <1>3, <2>5, <2>6, <2>7, <2>8 DEF IInv
<1>5. CASE ~(job.why = "join" /\ job.try < Len(list))
  <2>1. /\ at' = "sleep" /\ job' = NoJob
        /\ current' = IF job.why = "join" THEN None ELSE current
      BY <1>1, <1>5, Zenon DEF Failed
  <2>2. registered' = (registered /\ job.why = "push")
      BY <1>1, <1>5, Zenon DEF Failed
  <2>3. registered' \in BOOLEAN /\ (registered' => registered /\ job.why = "push")
      BY <2>2, Zenon
  <2>4. /\ job' \in [why : {"none", "join", "again", "push"}, try : Nat, item : DOMAIN Resources]
        /\ job'.why = "none" /\ ~InPost'
      BY <2>1, ResourceFacts DEF NoJob, InPost
  <2>5. current' \in Regs \cup {None} /\ RegisteredSomewhere'
      BY <2>1, <2>3 DEF IInv, TypeOK, RegisteredSomewhere
  <2>6. TypeOK'
      BY <1>1, <1>2, <1>6, <2>1, <2>3, <2>4, <2>5 DEF IInv, TypeOK
  <2>7. CallerKnown' /\ PushIsNew' /\ PostedKept' /\ PassedOver'
      BY <2>4 DEF CallerKnown, PushIsNew, PostedKept, PassedOver
  <2>8. RestComplete'
      BY <1>1, <2>3 DEF IInv, PushIsNew, RestComplete
  <2> QED
      BY <1>3, <2>5, <2>6, <2>7, <2>8 DEF IInv
<1> QED
    BY <1>4, <1>5

LEMMA CommitStep == ASSUME IInv, Commit PROVE IInv'
<1> USE DEF changeVars, loopVars, listVars, envVars
<1>1. /\ UNCHANGED <<changeVars, list, since, run, envVars, held, raced>>
      /\ at = "commit" /\ InPost
      /\ at' = "sleep" /\ job' = NoJob /\ registered' = TRUE
      /\ current' = IF job.why = "join" THEN Target ELSE current
      /\ regVersion' = IF job.why = "again" THEN regVersion ELSE version
    BY DEF Commit, InPost
<1>2. Target \in Regs /\ current' = Target
    BY <1>1, TargetType DEF IInv, Target
<1>3. Target # None
    BY <1>2, RegistrationAssumption DEF None
<1>4. /\ job' \in [why : {"none", "join", "again", "push"}, try : Nat, item : DOMAIN Resources]
      /\ job'.why = "none" /\ ~InPost'
    BY <1>1, ResourceFacts DEF NoJob, InPost
<1>5. regVersion' \in Nat /\ regVersion' <= version'
    BY <1>1 DEF IInv, TypeOK
<1>6. TypeOK'
    BY <1>1, <1>2, <1>4, <1>5 DEF IInv, TypeOK
<1>7. RegisteredSomewhere' /\ CallerKnown' /\ PushIsNew' /\ PostedKept' /\ PassedOver' /\ FreshList'
      /\ DueKnown'
    BY <1>1, <1>2, <1>3, <1>4
    DEF IInv, RegisteredSomewhere, CallerKnown, PushIsNew, PostedKept, PassedOver, FreshList, DueKnown
<1>8. RestComplete'
  <2> SUFFICES ASSUME ~raced, held[Target][Node] # Absent, NEW t \in Types
               PROVE  held[Target][t] >= due[t]
      BY <1>1, <1>2 DEF RestComplete, Current
  <2>1. PICK i \in DOMAIN Resources : t = Resources[i]
      BY DEF Types
  <2>2. i \in 1..Done
      BY <1>1, <2>1, ResourceFacts DEF Done
  <2> QED
      BY <1>1, <2>1, <2>2 DEF IInv, PostedKept
<1> QED
    BY <1>5, <1>6, <1>7, <1>8 DEF IInv

LEMMA IdleStep == ASSUME IInv, Wake \/ Unregister \/ Stop \/ UNCHANGED vars PROVE IInv'
<1> USE DEF changeVars, loopVars, listVars, envVars
<1>1. /\ UNCHANGED <<changeVars, regVersion, registered, current, job, list, since, envVars, raced>>
      /\ InPost' = InPost
      /\ at' = at \/ (at' \in {"turn", "end"} /\ ~InPost)
      /\ run' = run \/ run' = FALSE
    BY DEF Wake, Unregister, Stop, vars, InPost
<1>2. held' = held \/ (current \in Regs /\ held' = [held EXCEPT ![current] = Nothing] /\ ~InPost)
    BY DEF Wake, Unregister, Stop, vars, InPost, IInv, TypeOK
<1>3. /\ held' \in [Regs -> [Types -> -1..MaxChanges]]
      /\ held'[current] = held[current] \/ held'[current][Node] = Absent
    BY <1>2, NothingType DEF IInv, TypeOK
<1>4. run' \in BOOLEAN
    BY <1>1, Zenon DEF IInv, TypeOK
<1>5. TypeOK'
    BY <1>1, <1>3, <1>4 DEF IInv, TypeOK
<1>6. RegisteredSomewhere' /\ CallerKnown' /\ PushIsNew' /\ FreshList' /\ regVersion' <= version'
      /\ DueKnown'
    BY <1>1 DEF IInv, RegisteredSomewhere, CallerKnown, PushIsNew, FreshList, DueKnown
<1>7. PostedKept' /\ PassedOver'
  <2>1. CASE InPost
    <3>1. at' = at /\ held' = held
        BY <1>1, <1>2, <2>1
    <3> QED
        BY <1>1, <3>1 DEF IInv, PostedKept, PassedOver, Done, Target
  <2>2. CASE ~InPost
      BY <1>1, <2>2 DEF PostedKept, PassedOver
  <2> QED
      BY <2>1, <2>2
<1>8. RestComplete'
    BY <1>1, <1>3 DEF IInv, RestComplete, Current
<1> QED
    BY <1>5, <1>6, <1>7, <1>8 DEF IInv

LEMMA Inductive == Spec => []IInv
<1>1. IInv /\ [Next]_vars => IInv'
    BY ChangeStep, BumpStep, EnvStep, JoinStep, HeartbeatStep, AcceptedStep, FailedStep, CommitStep,
       IdleStep DEF Next, Loop
<1> QED
    BY InitIInv, <1>1, PTL DEF Spec

----------------------------------------------------------------------------
(* Every variable keeps its type; a join stays within its list.            *)
THEOREM TypeCorrect == Spec => []TypeOK
<1>1. IInv => TypeOK
    BY DEF IInv
<1> QED
    BY <1>1, Inductive, PTL

(* A registered node has an address to send its heartbeat to, whatever has *)
(* failed before.                                                          *)
THEOREM HeartbeatHasAddress == Spec => []RegisteredSomewhere
<1>1. IInv => RegisteredSomewhere
    BY DEF IInv
<1> QED
    BY <1>1, Inductive, PTL

(* If BumpVersion was not called during the last RegisterAll, a registry   *)
(* that knows the node of a thread at rest holds every resource as it was  *)
(* at the last BumpVersion, or newer.                                      *)
THEOREM RegistryStaysCurrent == Spec => []RegistryCurrent
<1>1. IInv => RegistryCurrent
    BY DEF IInv, RestComplete, RegistryCurrent, AtRest, InPost
<1> QED
    BY <1>1, Inductive, PTL

(* The registry that a node joins is one of the best that DNS advertises   *)
(* and that can be reached.                                                *)
THEOREM PreferredJoined == Spec => JoinsPreferred
<1> DEFINE A == at = "commit" /\ job.why = "join" /\ at' # "commit" /\ ~stale =>
                  \E i \in Kept(dns) :
                      /\ dns[i].url = current' /\ registered'
                      /\ \A j \in Kept(dns) :
                            reach[dns[j].url] => Priority(dns[i]) <= Priority(dns[j])
<1>1. ASSUME IInv, [Next]_vars, at = "commit", job.why = "join", at' # "commit", ~stale
      PROVE  \E i \in Kept(dns) :
                 /\ dns[i].url = current' /\ registered'
                 /\ \A j \in Kept(dns) :
                       reach[dns[j].url] => Priority(dns[i]) <= Priority(dns[j])
  <2>1. Commit
      BY <1>1 DEF Next, Loop, vars, Change, BumpVersion, Reach, Forget, Readvertise, SetOverride,
                  ChangeQuietly, Join, Heartbeat, PostAccepted, PostFailed, PostAnswerLost, Wake, Stop, Unregister,
                  loopVars
  <2>2. registered' = TRUE /\ current' = list[job.try]
      BY <1>1, <2>1 DEF Commit, Target
  <2>3. list \in DiscoverRegistries(dns) /\ dns \in Directories /\ job.try \in DOMAIN list
        /\ list \in Seq(Regs)
      BY <1>1 DEF IInv, TypeOK, FreshList
  <2>4. PICK o \in [DOMAIN list -> Kept(dns)] :
            /\ \A k \in DOMAIN list : list[k] = dns[o[k]].url
            /\ \A i \in Kept(dns) : \E k \in DOMAIN list : o[k] = i
            /\ \A j, k \in DOMAIN list :
                  j < k => Priority(dns[o[j]]) <= Priority(dns[o[k]])
      BY <2>3, Discovered
  <2>5. o[job.try] \in Kept(dns) /\ dns[o[job.try]].url = current'
      BY <2>2, <2>3, <2>4
  <2>6. ASSUME NEW j \in Kept(dns), reach[dns[j].url]
        PROVE  Priority(dns[o[job.try]]) <= Priority(dns[j])
    <3>1. PICK k \in DOMAIN list : o[k] = j
        BY <2>4
    <3>2. list[k] = dns[j].url /\ k \in 1..Len(list) /\ job.try \in 1..Len(list)
          /\ Len(list) \in Nat
        BY <2>3, <2>4, <3>1
    <3>3. ~(k \in 1..(job.try - 1))
        BY <1>1, <2>6, <3>2 DEF IInv, PassedOver, InPost
    <3>4. CASE k = job.try
      <4>1. Priority(dns[j]) \in Int
        <5> DEFINE Inst == [url : Regs \cup {NoUrl}, pri : Int]
        <5>1. dns \in Seq(Inst) /\ j \in DOMAIN dns
            BY <2>3, RegistrationAssumption DEF Kept
        <5> HIDE DEF Inst
        <5>2. dns[j] \in Inst
            BY <5>1
        <5> QED
            BY <5>2 DEF Inst, Priority
      <4> QED
          BY <3>1, <3>4, <4>1
    <3>5. CASE job.try < k
        BY <2>4, <3>1, <3>2, <3>5
    <3> QED
        BY <3>2, <3>3, <3>4, <3>5
  <2> QED
      BY <2>2, <2>5, <2>6
<1>2. IInv /\ [Next]_vars => [A]_vars
    BY <1>1
<1> HIDE DEF A
<1>3. Spec => [][A]_vars
    BY <1>2, Inductive, PTL DEF Spec
<1> QED
    BY <1>3 DEF A, JoinsPreferred
===============================================================================
