----------------------- MODULE ReceiverConnectionProofs -----------------------
(***************************************************************************)
(* Proofs about ReceiverConnection, for any set of senders, documents and  *)
(* addresses.  What a document parses to (Parsed) is left unexpanded: the  *)
(* argument is about the order of the steps of a request.                  *)
(***************************************************************************)
EXTENDS ReceiverConnection, TLAPS

(* The receiver is where the active parameters want it, or stopped by a    *)
(* failure of its sockets.                                                 *)
Settled == stream = Session(active) \/ (failed /\ stream = Null)

(* Settled holds from the callback on; the version is bumped after it, and *)
(* a request that is refused never gets that far.                          *)
RequestInv ==
    /\ at = "bump" => Settled
    /\ at = "idle" /\ ~refused => Settled /\ ~dirty

(* A PATCH that does not activate changes nothing a property reads, and    *)
(* one that does leaves the idle state.                                    *)
LEMMA PatchKeeps ==
    ASSUME RequestInv, NEW new, NEW activate \in BOOLEAN, PatchReceiver(new, activate)
    PROVE  RequestInv'
<1>1. at = "idle" /\ UNCHANGED <<active, stream, failed, refused, dirty>>
  BY DEF PatchReceiver
<1>2. at' # "bump" /\ Settled' = Settled
  BY <1>1 DEF PatchReceiver, Settled, Session
<1> QED
  BY <1>1, <1>2 DEF RequestInv

(* Every action keeps RequestInv.                                          *)
LEMMA RequestStep == RequestInv /\ [Next]_vars => RequestInv'
<1> SUFFICES ASSUME RequestInv, [Next]_vars
             PROVE  RequestInv'
  OBVIOUS
<1>1. CASE ControllerPatch
  BY <1>1, PatchKeeps DEF ControllerPatch
<1>2. CASE ReceiverConnect
  BY <1>2, PatchKeeps DEF ReceiverConnect
<1>3. CASE ReceiverDisconnect
  BY <1>3, PatchKeeps DEF ReceiverDisconnect
<1>4. CASE NmosFetch
  <2>1. Settled' = Settled
    BY <1>4 DEF NmosFetch, Settled, Session
  <2> QED
    BY <1>4, <2>1 DEF NmosFetch, RequestInv
<1>5. CASE NmosConnect
  BY <1>5, PatchKeeps DEF NmosConnect
<1>6. CASE ActivateReceiver
  BY <1>6 DEF ActivateReceiver, RequestInv
<1>7. CASE OnReceiver
  <2>1. Session(active)' = Session(active)
    BY <1>7 DEF OnReceiver, Session
  <2>2. Settled'
    BY <1>7, <2>1 DEF OnReceiver, Settled
  <2> QED
    BY <1>7, <2>2 DEF OnReceiver, RequestInv
<1>8. CASE BumpVersion
  <2>1. Settled' = Settled
    BY <1>8 DEF BumpVersion, Settled, Session
  <2> QED
    BY <1>8, <2>1 DEF BumpVersion, RequestInv
<1>9. CASE UNCHANGED vars
  <2>1. Settled' = Settled
    BY <1>9 DEF vars, Settled, Session
  <2> QED
    BY <1>9, <2>1 DEF vars, RequestInv
<1> QED
  BY <1>1, <1>2, <1>3, <1>4, <1>5, <1>6, <1>7, <1>8, <1>9 DEF Next

LEMMA RequestInvariant == Spec => []RequestInv
<1>1. Init => RequestInv
  BY DEF Init, RequestInv, Settled, Session, Disconnected
<1> QED
  BY <1>1, RequestStep, PTL DEF Spec

(* Between requests the receiver is configured for what /active shows,     *)
(* after any sequence of partial patches of controllers and the web page.  *)
THEOREM ReceiverFollows == Spec => []ReceiverFollowsActive
<1>1. RequestInv => ReceiverFollowsActive
  BY DEF RequestInv, Settled, ReceiverFollowsActive
<1> QED
  BY <1>1, RequestInvariant, PTL

(* Every change of the subscription has been announced to the registration *)
(* thread when its request ends.                                           *)
THEOREM SubscriptionAnnounced == Spec => []SubscriptionBumped
<1>1. RequestInv => SubscriptionBumped
  BY DEF RequestInv, SubscriptionBumped
<1> QED
  BY <1>1, RequestInvariant, PTL

----------------------------------------------------------------------------
(* The parameters name files that there are.                               *)
RequestTypes ==
    staged \in Connection /\ active \in Connection /\ fetched \in Senders \cup {Null}

LEMMA RequestTypesStep == RequestTypes /\ [Next]_vars => RequestTypes'
<1> SUFFICES ASSUME RequestTypes, [Next]_vars
             PROVE  RequestTypes'
  OBVIOUS
<1> USE DEF RequestTypes, Connection, PatchReceiver, Files
<1>1. CASE ControllerPatch
  <2>1. fetched' = fetched
    BY <1>1 DEF ControllerPatch
  <2>2. ASSUME NEW new \in Connection, NEW activate \in BOOLEAN, PatchReceiver(new, activate)
        PROVE  RequestTypes'
    BY <2>1, <2>2
  <2>3. ASSUME NEW i \in 1..2, NEW g \in Groups \cup {Null}
        PROVE  [staged EXCEPT !.sender = Null, !.file = Null, !.group[i] = g] \in Connection
    <3>1. [staged.group EXCEPT ![i] = g] \in [1..2 -> Groups \cup {Null}]
      OBVIOUS
    <3>2. QED
      BY <3>1
  <2>4. ASSUME NEW s \in Senders
        PROVE  [staged EXCEPT !.sender = s, !.file = s] \in Connection
    OBVIOUS
  <2>5. ASSUME NEW b \in BOOLEAN
        PROVE  [staged EXCEPT !.enable = b] \in Connection
    OBVIOUS
  <2>6. ASSUME NEW p \in OddParams \cup {Null}
        PROVE  [staged EXCEPT !.odd = p] \in Connection
    OBVIOUS
  <2> HIDE DEF RequestTypes, Connection, PatchReceiver
  <2>7. QED
    BY <1>1, <2>2, <2>3, <2>4, <2>5, <2>6, Zenon DEF ControllerPatch
<1>2. CASE ReceiverConnect \/ ReceiverDisconnect
  BY <1>2 DEF ReceiverConnect, ReceiverDisconnect
<1>3. CASE NmosFetch \/ NmosConnect
  BY <1>3 DEF NmosFetch, NmosConnect
<1>4. CASE ActivateReceiver \/ OnReceiver \/ BumpVersion
  BY <1>4 DEF ActivateReceiver, OnReceiver, BumpVersion
<1>5. CASE UNCHANGED vars
  BY <1>5 DEF vars
<1>6. QED
  BY <1>1, <1>2, <1>3, <1>4, <1>5 DEF Next

(* If ParseSdp reads each file as the file describes it, the receiver is   *)
(* on what its active transport file describes, after any sequence of      *)
(* partial patches, failures and refusals.                                 *)
THEOREM DescribedIsReceived ==
    ASSUME \A f \in Files : Parsed[f] # Null => Described(f, Parsed[f])
    PROVE  Spec => []ReceivesDescribed
<1>1. Init => RequestTypes
  BY DEF Init, RequestTypes, Connection, Disconnected
<1>2. RequestInv /\ RequestTypes => ReceivesDescribed
  <2> SUFFICES ASSUME RequestInv, RequestTypes, stream # Null, at = "idle", ~refused,
                      active.file # Null
               PROVE  Described(active.file, stream)
    BY DEF ReceivesDescribed
  <2>1. stream = Session(active)
    BY DEF RequestInv, Settled
  <2>2. active.file \in Files
    BY DEF RequestTypes, Connection
  <2>3. stream = Parsed[active.file]
    BY <2>1 DEF Session
  <2>4. QED
    BY <2>2, <2>3
<1>3. QED
  BY <1>1, <1>2, RequestTypesStep, RequestInvariant, PTL DEF Spec
===============================================================================
