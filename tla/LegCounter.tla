------------------------------ MODULE LegCounter ------------------------------
(***************************************************************************)
(* The loss counter of one leg, from the sequence numbers of its packets   *)
(* (RtpReceiver::HandlePacket, src/src/rtp/rtpreceiver.cpp) through the    *)
(* status feed of main (src/src/main.cpp) to the counter an IS-12 client   *)
(* reads (Is12Server::AddReceiverLost, src/src/nmos/is12.cpp).  The        *)
(* receive thread counts, a control thread stops and configures the        *)
(* receiver and the feed polls, with no lock between the three.            *)
(*                                                                         *)
(* The network may lose packets, deliver them more than once and out of    *)
(* order as long as two packets that arrive one after the other are less   *)
(* than half the range of sequence numbers apart.                          *)
(***************************************************************************)
EXTENDS RtpSequence, FiniteSets, FiniteSetsExt

CONSTANTS MaxSessions,   \* bound: sessions of the receiver
          MaxLost        \* bound: losses counted in a session

ASSUME LegAssumption ==
    /\ SeqMod % 2 = 0
    /\ MaxSessions \in Nat \ {0} /\ MaxLost \in Nat

Half == SeqMod \div 2
Packets == 0..(MaxPackets - 1)

VARIABLES
    run,       \* m_bRun
    session,   \* the number of the session
    haveSeq,   \* bHaveSeq
    lastSeq,   \* nLastSeq
    lost,      \* nLost
    active,    \* m_bReceiving
    feed,      \* the feed: "idle", or "read" once it has seen a running stream
    lastLost,  \* nLastLost
    counter,   \* mCounters1 of the receiver monitor
    \* history, read by properties only
    got,       \* the packets of this session that arrived on the leg
    first,     \* the packet of this session that arrived first
    last,      \* the packet that arrived last
    ordered,   \* the packets of this session arrived in order
    total      \* losses counted in all sessions since counter was reset

legVars  == <<haveSeq, lastSeq, lost, active>>
feedVars == <<feed, lastLost, counter>>
histVars == <<got, first, last, ordered>>
counterVars == <<run, session, legVars, feedVars, histVars, total>>

LegInit ==
    /\ run = FALSE /\ session = 0
    /\ haveSeq = FALSE /\ lastSeq = 0 /\ lost = 0 /\ active = FALSE
    /\ feed = "idle" /\ lastLost = 0 /\ counter = 0
    /\ got = {} /\ first = 0 /\ last = 0 /\ ordered = TRUE
    /\ total = 0

----------------------------------------------------------------------------
(* static_cast<int16_t>(nSeq - nLastSeq)                                   *)
Diff(a, b) ==
    LET d == (a - b) % SeqMod IN IF d >= Half THEN d - SeqMod ELSE d

(* The packets a jump of the sequence number skips.                        *)
Skipped_CountsArrival(d) == IF d > 1 THEN d ELSE 0

Skipped_ToleratesOne(d) == IF d > 2 THEN d - 1 ELSE 0

Skipped(d) == IF d > 1 THEN d - 1 ELSE 0

(* HandlePacket: the leg's counters.                                       *)
Arrive(n) ==
    LET more == IF haveSeq THEN Skipped(Diff(SeqOf(n), lastSeq)) ELSE 0
    IN  /\ run
        /\ haveSeq => n - last < Half /\ last - n <= Half
        /\ lost + more <= MaxLost
        /\ lost' = lost + more
        /\ total' = total + more
        /\ lastSeq' = SeqOf(n)
        /\ haveSeq' = TRUE
        /\ active' = TRUE
        /\ got' = got \cup {n}
        /\ first' = IF got = {} THEN n ELSE first
        /\ last' = n
        /\ ordered' = (ordered /\ (haveSeq => n >= last))
        /\ UNCHANGED <<run, session, feedVars>>

(* RxLoop: 500 ms without a packet.                                        *)
Silence ==
    /\ run /\ active
    /\ active' = FALSE
    /\ UNCHANGED <<run, session, haveSeq, lastSeq, lost, feedVars, histVars, total>>

(* Stop keeps the count, Configure starts a new one.                       *)
Stop ==
    /\ run
    /\ run' = FALSE
    /\ haveSeq' = FALSE
    /\ active' = FALSE
    /\ UNCHANGED <<session, lastSeq, lost, feedVars, histVars, total>>

(* A socket cannot be opened: the count is reset all the same.             *)
ConfigureFails ==
    /\ ~run
    /\ lost' = 0
    /\ got' = {} /\ first' = 0 /\ last' = 0 /\ ordered' = TRUE
    /\ UNCHANGED <<run, session, haveSeq, lastSeq, active, feedVars, total>>

Configure ==
    /\ ~run /\ session < MaxSessions
    /\ run' = TRUE
    /\ session' = session + 1
    /\ lost' = 0
    /\ got' = {} /\ first' = 0 /\ last' = 0 /\ ordered' = TRUE
    /\ UNCHANGED <<haveSeq, lastSeq, active, feedVars, total>>

----------------------------------------------------------------------------
(* The feed looks at IsRunning and IsReceiving first ...                   *)
FeedLook ==
    /\ feed = "idle"
    /\ run /\ active
    /\ feed' = "read"
    /\ UNCHANGED <<run, session, legVars, lastLost, counter, histVars, total>>

(* ... and then reads the count, which may be that of another session: a   *)
(* smaller count than last time is one that was started again.             *)
FeedRead_KeepsBase ==
    /\ feed = "read"
    /\ feed' = "idle"
    /\ counter' = IF lost < lastLost THEN counter + lost ELSE counter + (lost - lastLost)
    /\ lastLost' = IF lost < lastLost THEN 0 ELSE lost
    /\ UNCHANGED <<run, session, legVars, histVars, total>>

FeedRead ==
    LET base == IF lost < lastLost THEN 0 ELSE lastLost
    IN  /\ feed = "read"
        /\ feed' = "idle"
        /\ counter' = counter + (lost - base)
        /\ lastLost' = lost
        /\ UNCHANGED <<run, session, legVars, histVars, total>>

(* Is12Server::InvokeMethod: a client resets the counters.  What the feed  *)
(* has not yet passed on is counted after the reset.                       *)
ResetCounters ==
    /\ counter > 0
    /\ counter' = 0
    /\ total' = total - counter
    /\ UNCHANGED <<run, session, legVars, feed, lastLost, histVars>>

LegNext ==
    \/ \E n \in Packets : Arrive(n)
    \/ Silence \/ Stop \/ Configure \/ ConfigureFails
    \/ FeedLook \/ FeedRead \/ ResetCounters

LegSpec == LegInit /\ [][LegNext]_counterVars

----------------------------------------------------------------------------
LegTypeOK ==
    /\ run \in BOOLEAN /\ haveSeq \in BOOLEAN /\ active \in BOOLEAN /\ ordered \in BOOLEAN
    /\ session \in 0..MaxSessions
    /\ lastSeq \in 0..(SeqMod - 1)
    /\ lost \in Nat /\ lastLost \in Nat /\ counter \in Nat /\ total \in Nat
    /\ feed \in {"idle", "read"}
    /\ got \in SUBSET Packets /\ {first, last} \subseteq Packets

(* The packets that did not arrive between the first that did and the      *)
(* newest.                                                                 *)
Missing == IF got = {} THEN 0 ELSE Cardinality((first..Max(got)) \ got)

(* In order, the count is the number of missing packets, over any number   *)
(* of turns of the sequence number and with packets that arrive twice.     *)
LossExact == ordered => lost = Missing

(* Out of order the count may only be too high: no missing packet goes     *)
(* uncounted, although a late packet sets nLastSeq back.                   *)
LossNotMissed == lost >= Missing

(* However the polls of the feed fall between packets, stops, restarts and *)
(* resets, no loss is passed on to the client twice.                       *)
NoLossReportedTwice == counter <= total
==============================================================================
