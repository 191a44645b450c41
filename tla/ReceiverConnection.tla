-------------------------- MODULE ReceiverConnection --------------------------
(***************************************************************************)
(* The receiver side of the IS-05 connection API (ConnectionApi of         *)
(* src/src/nmos/connection.cpp) with its two kinds of client: IS-05        *)
(* controllers and the actions of the web server, which PATCH the same     *)
(* resource (Action in src/src/main.cpp).  m_mutex is held for a whole     *)
(* PATCH, the callback that configures the receiver included, so requests  *)
(* are served one after the other; the answer to a client and the fetch of *)
(* an SDP happen outside of it.                                            *)
(*                                                                         *)
(* A transport file is named by the sender whose SDP it is, or it is a     *)
(* document of other equipment; Sdp models what each says and how it is    *)
(* read.  The receiver is configured for the session that comes out.       *)
(***************************************************************************)
EXTENDS Integers, Sequences, SequencesExt

CONSTANTS Senders,   \* senders known to the registry
          LegsOn,    \* [Senders -> SUBSET (1..2)], the legs each has enabled
          Pasted,    \* names of documents of other equipment
          Text,      \* [Pasted -> documents], the lines of each
          Groups,    \* multicast addresses given in transport parameters
          Null       \* json null, no session, a receiver that is stopped

INSTANCE Sdp WITH None <- Null

ASSUME ConnectionAssumption ==
    /\ Null \notin Senders \cup Pasted \cup Groups
    /\ Senders \cap Pasted = {}
    /\ \A s \in Senders : LegsOn[s] \in SUBSET (1..2) /\ LegsOn[s] # {}

Files == Senders \cup Pasted

VARIABLES
    staged,    \* m_jsReceiverStaged
    active,    \* m_jsReceiverActive
    stream,    \* the session the receiver is configured for, or Null
    at,        \* the request: "idle", "activate", "callback", "bump"
    fetched,   \* nmos-connect: the sender whose SDP has been fetched, or Null
    \* history, read by properties only
    failed,    \* the last Configure of the receiver could not open a socket
    refused,   \* the last activation was answered with an error
    dirty      \* the subscription has changed since the last BumpVersion

vars == <<staged, active, stream, at, fetched, failed, refused, dirty>>

(* group is the multicast_ip of each leg of the transport parameters, Null *)
(* where it is none or the leg is disabled; odd is the parameter that has  *)
(* a value of another type (a destination_port "auto", say), or Null.      *)
(* Bound: one at a time.                                                   *)
OddParams == {"interface_ip", "rtp_enabled", "destination_port"}

Connection == [enable : BOOLEAN, sender : Senders \cup {Null},
               file : Files \cup {Null}, group : [1..2 -> Groups \cup {Null}],
               odd : OddParams \cup {Null}]

Disconnected ==
    [enable |-> FALSE, sender |-> Null, file |-> Null, group |-> <<Null, Null>>, odd |-> Null]

Init ==
    /\ staged = Disconnected /\ active = Disconnected
    /\ stream = Null
    /\ at = "idle"
    /\ fetched = Null
    /\ failed = FALSE /\ refused = FALSE /\ dirty = FALSE

----------------------------------------------------------------------------
(* PatchReceiver: the members a PATCH carries replace the staged ones, all *)
(* others stay as they are.                                                *)
PatchReceiver(new, activate) ==
    /\ at = "idle"
    /\ staged' = new
    /\ at' = IF activate THEN "activate" ELSE "idle"
    /\ UNCHANGED <<active, stream, failed, refused, dirty>>

(* A controller stages a member or two, or connects to a sender.           *)
ControllerPatch ==
    /\ \E activate \in BOOLEAN :
          \/ \E b \in BOOLEAN : PatchReceiver([staged EXCEPT !.enable = b], activate)
          \/ \E s \in Senders : PatchReceiver([staged EXCEPT !.sender = s, !.file = s], activate)
          \/ \E i \in 1..2, g \in Groups \cup {Null} :
                PatchReceiver([staged EXCEPT !.sender = Null, !.file = Null, !.group[i] = g],
                              activate)
          \/ \E p \in OddParams \cup {Null} : PatchReceiver([staged EXCEPT !.odd = p], activate)
    /\ UNCHANGED fetched

(* receiver-connect: an SDP that was pasted in the web page.               *)
ReceiverConnect ==
    /\ \E f \in Files :
          PatchReceiver([staged EXCEPT !.enable = TRUE, !.file = f], TRUE)
    /\ UNCHANGED fetched

(* receiver-disconnect *)
ReceiverDisconnect ==
    /\ PatchReceiver([staged EXCEPT !.enable = FALSE, !.sender = Null], TRUE)
    /\ UNCHANGED fetched

(* nmos-connect fetches the SDP of a sender, then patches.                 *)
NmosFetch ==
    /\ fetched = Null
    /\ \E s \in Senders : fetched' = s
    /\ UNCHANGED <<staged, active, stream, at, failed, refused, dirty>>

NmosConnect ==
    /\ fetched # Null
    /\ PatchReceiver([staged EXCEPT !.enable = TRUE, !.sender = fetched, !.file = fetched], TRUE)
    /\ fetched' = Null

----------------------------------------------------------------------------
(* A parameter of another type throws where it is read: an interface_ip    *)
(* always, the others when the session is built from the parameters, the   *)
(* port only of a leg that has an address.                                 *)
Refuses(a) ==
    \/ a.odd = "interface_ip"
    \/ /\ a.enable /\ a.file = Null
       /\ \/ a.odd = "rtp_enabled"
          \/ a.odd = "destination_port" /\ \E i \in 1..2 : a.group[i] # Null

(* ActivateReceiver: active is replaced first; what throws does after that.*)
ActivateReceiver ==
    /\ at = "activate"
    /\ active' = staged
    /\ refused' = Refuses(staged)
    /\ dirty' = (dirty \/ active' # active)
    /\ at' = IF Refuses(staged) THEN "idle" ELSE "callback"
    /\ UNCHANGED <<staged, stream, fetched, failed>>

(* What RtpSender describes: the enabled legs, with names when there are   *)
(* two; a leg without a source address is left to GenerateSdp.             *)
DescribeSession(s) ==
    LET on == SelectSeq(<<1, 2>>, LAMBDA i : i \in LegsOn[s])
        mid(i) == IF Len(on) = 1 THEN Null ELSE IF i = 1 THEN "PRI" ELSE "SEC"
    IN  [NewSession EXCEPT
            !.name = s, !.pt = 98, !.ptime = 125, !.gm = "gm",
            !.legs = [k \in 1..Len(on) |->
                         Leg(mid(on[k]), <<s, on[k]>>, <<s, "source", on[k]>>, 5004)]]

(* The lines of each file, and what ParseSdp makes of them.                *)
Document == [f \in Files |->
    IF f \in Senders THEN GenerateSdp(DescribeSession(f), f, <<>>) ELSE Text[f]]

Parsed == [f \in Files |-> ParseSdp(Document[f])]

(* The session to receive: of the file, else of the parameters.            *)
ManualSession(group) ==
    LET set == SelectSeq(group, LAMBDA g : g # Null)
    IN  IF set = <<>> THEN Null
        ELSE [NewSession EXCEPT !.name = "is-05 parameters",
                 !.legs = [i \in 1..Len(set) |-> Leg(Null, set[i], Null, 5004)]]

Session(a) ==
    IF ~a.enable THEN Null
    ELSE IF a.file # Null THEN Parsed[a.file] ELSE ManualSession(a.group)

(* The callback onReceiver stops the receiver or configures it, which can  *)
(* fail and leaves it stopped then.  One step, since m_mutex is held: the  *)
(* joins of the two threads in Stop are not shown (both test m_bRun), nor  *)
(* is the interface of a leg, which goes by the number of the leg.         *)
OnReceiver_NeverStops ==
    /\ at = "callback"
    /\ stream' = IF Session(active) = Null THEN stream ELSE Session(active)
    /\ failed' = FALSE
    /\ dirty' = (dirty \/ stream' # stream)
    /\ at' = "bump"
    /\ UNCHANGED <<staged, active, fetched, refused>>

OnReceiver_NoBump ==
    /\ at = "callback"
    /\ \/ stream' = Session(active) /\ failed' = FALSE /\ at' = "bump"
       \/ Session(active) # Null /\ stream' = Null /\ failed' = TRUE /\ at' = "idle"
    /\ dirty' = (dirty \/ stream' # stream)
    /\ UNCHANGED <<staged, active, fetched, refused>>

OnReceiver ==
    /\ at = "callback"
    /\ \/ stream' = Session(active) /\ failed' = FALSE
       \/ Session(active) # Null /\ stream' = Null /\ failed' = TRUE
    /\ dirty' = (dirty \/ stream' # stream)
    /\ at' = "bump"
    /\ UNCHANGED <<staged, active, fetched, refused>>

BumpVersion ==
    /\ at = "bump"
    /\ dirty' = FALSE
    /\ at' = "idle"
    /\ UNCHANGED <<staged, active, stream, fetched, failed, refused>>

(* What BuildReceiver reports to the registry.                             *)
ReceiverSenderId == IF active.enable THEN active.sender ELSE Null

Next ==
    \/ ControllerPatch \/ ReceiverConnect \/ ReceiverDisconnect \/ NmosFetch \/ NmosConnect
    \/ ActivateReceiver \/ OnReceiver \/ BumpVersion

Spec == Init /\ [][Next]_vars

----------------------------------------------------------------------------
TypeOK ==
    /\ staged \in Connection /\ active \in Connection
    /\ stream \in {Session([file |-> f, group |-> g, enable |-> TRUE]) :
                     f \in Files \cup {Null}, g \in [1..2 -> Groups \cup {Null}]} \cup {Null}
    /\ at \in {"idle", "activate", "callback", "bump"}
    /\ fetched \in Senders \cup {Null}
    /\ {failed, refused, dirty} \subseteq BOOLEAN

(* Between requests the receiver is configured for what /active shows, or  *)
(* its sockets could not be opened, or the last activation was refused     *)
(* half way: no sequence of partial patches, of both kinds of clients,     *)
(* leaves it on a stream that is no longer active.                         *)
ReceiverFollowsActive ==
    at = "idle" /\ ~refused => stream = Session(active) \/ (failed /\ stream = Null)

(* Every change of the subscription is announced to the registration       *)
(* thread by the end of the request, unless it was refused.                *)
SubscriptionBumped == at = "idle" /\ ~refused => ~dirty

(* connection.h:28 "active subscription for IS-04": the sender that is     *)
(* reported is the one that is received.                                   *)
SubscriptionIsReceived ==
    at = "idle" /\ stream # Null /\ ReceiverSenderId # Null => stream.name = ReceiverSenderId

(* The lines of d that describe its k-th stream, and those before any.     *)
MediaAt(d) == {n \in 1..Len(d) : d[n].kind = "m"}
Section(d, n) ==
    {d[k] : k \in {k \in n..Len(d) : \A m \in MediaAt(d) : m <= n \/ k < m}}
Preamble(d) == {d[k] : k \in {k \in 1..Len(d) : \A m \in MediaAt(d) : k < m}}

(* leg is what the section of d that begins at line n describes: its own   *)
(* address or else the one of the whole session, its port, name and source.*)
Describes(d, n, leg) ==
    LET own(kind) == {l \in Section(d, n) : l.kind = kind}
        shared == {l \in Preamble(d) : l.kind = "c"}
        says(lines, v) == IF lines = {} THEN v = Null ELSE \E l \in lines : v = l.v
    IN  /\ leg.port = d[n].v.port
        /\ says(IF own("c") # {} THEN own("c") ELSE shared, leg.addr)
        /\ says(own("mid"), leg.mid)
        /\ says(own("source-filter"), leg.source)

(* The session ses is what the file f describes: every leg is one stream   *)
(* of the file, with its address; the legs of a DUP group, in the order in *)
(* which the group names them, and no stream outside of it; what a sender  *)
(* of this program emits comes back unchanged from its SDP.                *)
Described(f, ses) ==
    LET d == Document[f]
        group == {l.v : l \in {l \in Preamble(d) : l.kind = "group"}}
    IN  /\ \A i \in 1..Len(ses.legs) : \E n \in MediaAt(d) : Describes(d, n, ses.legs[i])
        /\ \A g \in group : [i \in 1..Len(ses.legs) |-> ses.legs[i].mid] = g
        /\ f \in Senders => ses = DescribeSession(f)

(* The receiver joins what the active transport file describes.            *)
ReceivesDescribed ==
    (stream # Null /\ at = "idle" /\ ~refused /\ active.file # Null) =>
        Described(active.file, stream)
===============================================================================
