----------------------------- MODULE RtpReceiver -----------------------------
(***************************************************************************)
(* RtpReceiver of src/src/rtp/rtpreceiver.cpp: the receive thread (RxLoop, *)
(* HandlePacket) merges the two legs of an ST 2022-7 stream into a jitter  *)
(* buffer indexed by sequence number; the playout thread (PlayoutLoop)     *)
(* takes the packets out in order.  The threads share the slots and a few  *)
(* atomics and no lock, so each atomic access that the other thread can    *)
(* tell apart is a step of its own.                                        *)
(*                                                                         *)
(* Both legs carry a copy of each packet, in order, with losses.           *)
(* The level of the ALSA buffer is counted in packets.                     *)
(***************************************************************************)
EXTENDS RtpSequence

CONSTANTS Slots,       \* JITTER_SLOTS (1024)
          DRY,         \* level up to which a missing packet is concealed (2)
          TARGET,      \* the playout delay in packets
          AHEAD,       \* level above TARGET at which a packet is dropped (4)
          PROBE,       \* how far a missing packet looks for newer ones (16)
          MaxLead,     \* bound: packets sent and not yet handled
          MaxRun       \* bound: packets playout conceals ahead of the sender

ASSUME ReceiverAssumption ==
    /\ Slots \in Nat \ {0} /\ SeqMod % Slots = 0
    /\ {DRY, TARGET, AHEAD, PROBE, MaxLead, MaxRun} \subseteq Nat
    /\ MaxLead <= Slots /\ MaxLead + MaxRun < SeqMod

Legs == {0, 1}
Seqs == 0..(SeqMod - 1)
Empty == 0                      \* nGeneration of an empty slot
NoPacket == -1

VARIABLES
    sent,       \* packets sent so far
    todo,       \* per leg, the next packet the network delivers or loses
    gen, data,  \* per slot: nGeneration and the packet its samples belong to
    receiving,  \* m_bReceiving
    haveFirst,  \* m_bHaveFirst
    firstSeq,   \* m_nFirstSeq
    rx,         \* receive thread: where it is and the packet it handles
    play,       \* playout thread: where it is
    next,       \* nNextSeq
    level,      \* packets queued in ALSA
    \* history, read by properties only
    stored,     \* packets published in a slot
    firstPkt,   \* the packet that set haveFirst
    pos,        \* the packet playout expects: next without the modulus
    strayed,    \* playout has taken over a first packet that is not firstPkt
    played      \* the packet whose samples were played last

rxVars   == <<receiving, rx>>
netVars  == <<sent, todo>>
slotVars == <<gen, data, stored>>
headVars == <<haveFirst, firstSeq, firstPkt>>
playVars == <<play, next, level, pos, strayed, played>>
vars == <<rxVars, netVars, slotVars, headVars, playVars>>

SlotOf(s) == s % Slots

Init ==
    /\ sent = 0
    /\ todo = [l \in Legs |-> 0]
    /\ gen = [i \in 0..(Slots - 1) |-> Empty]
    /\ data = [i \in 0..(Slots - 1) |-> NoPacket]
    /\ receiving = FALSE
    /\ haveFirst = FALSE
    /\ firstSeq = 0
    /\ rx = [at |-> "select", n |-> NoPacket]
    /\ play = "wait"
    /\ next = 0
    /\ level = 0
    /\ stored = {}
    /\ firstPkt = NoPacket
    /\ pos = 0
    /\ strayed = FALSE
    /\ played = NoPacket

----------------------------------------------------------------------------
(* The packets still to be taken: from the legs, by the receive thread and *)
(* by playout.  The sender is at most MaxLead ahead of each of them: the   *)
(* legs are not too far apart and the playout delay fits the buffer.       *)
Pending ==
    {todo[l] : l \in Legs}
    \cup (IF rx.at = "select" THEN {} ELSE {rx.n})
    \cup (IF play \notin {"wait", "anchor", "parked"} THEN {pos}
          ELSE IF haveFirst THEN {firstPkt} ELSE {})

(* A packet with the number g of a slot was stored less than a turn of the *)
(* sequence numbers before packet n.                                       *)
WithinTurn(g, n) == \E m \in stored : g = SeqOf(m) + 1 /\ n < m + SeqMod

(* The network.  Before the sequence numbers come round, a packet that     *)
(* stays in its slot is overwritten: nGeneration could not tell it from    *)
(* the packet of the next turn.                                            *)
Send ==
    /\ sent < MaxPackets
    /\ \A n \in Pending : sent < n + MaxLead
    /\ \A i \in 0..(Slots - 1) : gen[i] # Empty => WithinTurn(gen[i], sent + 1 + MaxRun)
    /\ sent' = sent + 1
    /\ UNCHANGED <<todo, rxVars, slotVars, headVars, playVars>>

(* A leg loses a packet.                                                   *)
Lose(l) ==
    /\ todo[l] < sent
    /\ todo' = [todo EXCEPT ![l] = @ + 1]
    /\ UNCHANGED <<sent, rxVars, slotVars, headVars, playVars>>

(* The sound card plays.                                                   *)
Consume ==
    /\ level > 0
    /\ level' = level - 1
    /\ UNCHANGED <<rxVars, netVars, slotVars, headVars, play, next, pos, strayed, played>>

----------------------------------------------------------------------------
(* RxLoop: no leg has had a packet for 500 ms, so none is under way.       *)
RxAge_OneLeg ==
    /\ rx.at = "select"
    /\ \E l \in Legs : todo[l] = sent
    /\ receiving' = FALSE
    /\ UNCHANGED <<rx, netVars, slotVars, headVars, playVars>>

RxAge ==
    /\ rx.at = "select"
    /\ \A l \in Legs : todo[l] = sent
    /\ receiving' = FALSE
    /\ UNCHANGED <<rx, netVars, slotVars, headVars, playVars>>

(* HandlePacket up to the test of the slot; the counters of the leg are in *)
(* module LegCounter.                                                      *)
RxPacket(l) ==
    /\ rx.at = "select" /\ todo[l] < sent
    /\ todo' = [todo EXCEPT ![l] = @ + 1]
    /\ receiving' = TRUE
    /\ rx' = [at |-> "check", n |-> todo[l]]
    /\ UNCHANGED <<sent, slotVars, headVars, playVars>>

(* A packet without a whole frame: the leg is active and nothing is stored. *)
RxEmpty(l) ==
    /\ rx.at = "select" /\ todo[l] < sent
    /\ todo' = [todo EXCEPT ![l] = @ + 1]
    /\ receiving' = TRUE
    /\ UNCHANGED <<sent, rx, slotVars, headVars, playVars>>

(* A copy that is still in its slot is dropped.                            *)
RxCheck_NoMerge ==
    /\ rx.at = "check"
    /\ rx' = [rx EXCEPT !.at = "store"]
    /\ UNCHANGED <<receiving, netVars, slotVars, headVars, playVars>>

RxCheck ==
    /\ rx.at = "check"
    /\ rx' = [rx EXCEPT !.at =
                 IF gen[SlotOf(SeqOf(rx.n))] = SeqOf(rx.n) + 1 THEN "select" ELSE "store"]
    /\ UNCHANGED <<receiving, netVars, slotVars, headVars, playVars>>

(* The samples are written while rx.at is "store".                         *)
RxStore ==
    /\ rx.at = "store"
    /\ data' = [data EXCEPT ![SlotOf(SeqOf(rx.n))] = rx.n]
    /\ rx' = [rx EXCEPT !.at = "publish"]
    /\ UNCHANGED <<receiving, netVars, gen, stored, headVars, playVars>>

RxPublish ==
    /\ rx.at = "publish"
    /\ gen' = [gen EXCEPT ![SlotOf(SeqOf(rx.n))] = SeqOf(rx.n) + 1]
    /\ stored' = stored \cup {rx.n}
    /\ rx' = [rx EXCEPT !.at = "first"]
    /\ UNCHANGED <<receiving, netVars, data, headVars, playVars>>

(* m_bHaveFirst.exchange(true); the first packet also stores its number.   *)
RxFirst ==
    /\ rx.at = "first"
    /\ haveFirst' = TRUE
    /\ firstPkt' = IF haveFirst THEN firstPkt ELSE rx.n
    /\ rx' = [rx EXCEPT !.at = IF haveFirst THEN "select" ELSE "number"]
    /\ UNCHANGED <<receiving, firstSeq, netVars, slotVars, playVars>>

RxFirstSeq ==
    /\ rx.at = "number"
    /\ firstSeq' = SeqOf(rx.n)
    /\ rx' = [rx EXCEPT !.at = "select"]
    /\ UNCHANGED <<receiving, haveFirst, firstPkt, netVars, slotVars, playVars>>

----------------------------------------------------------------------------
(* PlayoutLoop waits for the first packet, then for the playout delay.     *)
PlayWait ==
    /\ play = "wait" /\ haveFirst
    /\ play' = "anchor"
    /\ UNCHANGED <<rxVars, netVars, slotVars, headVars, next, level, pos, strayed, played>>

(* nNextSeq = m_nFirstSeq, after the first wait and after parking.         *)
PlayAnchor ==
    /\ \/ play = "anchor" /\ play' = "check"
       \/ play = "parked" /\ haveFirst /\ play' = "steer"
    /\ next' = firstSeq
    /\ pos' = firstPkt
    /\ strayed' = (strayed \/ firstSeq # SeqOf(firstPkt))
    /\ UNCHANGED <<rxVars, netVars, slotVars, headVars, level, played>>

Ready(s) == gen[SlotOf(s)] = s + 1

PlayCheck_Slot(to) ==
    /\ play = "check"
    /\ to = IF gen[SlotOf(next)] # Empty THEN "read" ELSE IF receiving THEN "late" ELSE "silent"
    /\ play' = to
    /\ UNCHANGED <<rxVars, netVars, slotVars, headVars, next, level, pos, strayed, played>>

PlayCheck(to) ==
    /\ play = "check"
    /\ to = IF Ready(next) THEN "read" ELSE IF receiving THEN "late" ELSE "silent"
    /\ play' = to
    /\ UNCHANGED <<rxVars, netVars, slotVars, headVars, next, level, pos, strayed, played>>

Advance == next' = (next + 1) % SeqMod /\ pos' = pos + 1

(* The samples are read, metered and written to ALSA while play is "read". *)
PlayRead ==
    /\ play = "read"
    /\ level' = level + 1
    /\ played' = data[SlotOf(next)]
    /\ play' = "clear"
    /\ UNCHANGED <<rxVars, netVars, slotVars, headVars, next, pos, strayed>>

PlayClear ==
    /\ play = "clear"
    /\ gen' = [gen EXCEPT ![SlotOf(next)] = Empty]
    /\ Advance
    /\ play' = "steer"
    /\ UNCHANGED <<rxVars, netVars, data, stored, headVars, level, strayed, played>>

Newer == \E k \in 1..PROBE : Ready((next + k) % SeqMod)

(* The expected packet is missing: wait while ALSA has audio, conceal when *)
(* it runs dry or when newer packets show that this one was lost.          *)
PlayConceal ==
    /\ play = "late"
    /\ level <= DRY \/ (Newer /\ 2 * level < TARGET)
    /\ pos < sent + MaxRun
    /\ level' = level + 1
    /\ Advance
    /\ play' = "steer"
    /\ UNCHANGED <<rxVars, netVars, slotVars, headVars, strayed, played>>

PlayLate ==
    /\ play = "late"
    /\ level > DRY /\ ~(Newer /\ 2 * level < TARGET)
    /\ play' = "steer"
    /\ UNCHANGED <<rxVars, netVars, slotVars, headVars, next, level, pos, strayed, played>>

(* The stream has stopped: park until the next packet sets haveFirst.      *)
PlayPark ==
    /\ play = "silent"
    /\ haveFirst' = FALSE
    /\ play' = "parked"
    /\ UNCHANGED <<rxVars, netVars, slotVars, firstSeq, firstPkt, next, level, pos, strayed, played>>

(* Drift steering at the end of each turn.                                 *)
PlaySteer ==
    /\ play = "steer"
    /\ play' = "check"
    /\ IF level > TARGET + AHEAD /\ Ready(next)
         THEN gen' = [gen EXCEPT ![SlotOf(next)] = Empty] /\ Advance
         ELSE UNCHANGED <<gen, next, pos>>
    /\ UNCHANGED <<rxVars, netVars, data, stored, headVars, level, strayed, played>>

----------------------------------------------------------------------------
Next ==
    \/ Send \/ Consume
    \/ \E l \in Legs : Lose(l) \/ RxPacket(l) \/ RxEmpty(l)
    \/ RxAge \/ RxCheck \/ RxStore \/ RxPublish \/ RxFirst \/ RxFirstSeq
    \/ PlayWait \/ PlayAnchor \/ \E to \in {"read", "late", "silent"} : PlayCheck(to)
    \/ PlayRead \/ PlayClear \/ PlayConceal \/ PlayLate \/ PlayPark \/ PlaySteer

Spec == Init /\ [][Next]_vars

----------------------------------------------------------------------------
TypeOK ==
    /\ sent \in 0..MaxPackets /\ todo \in [Legs -> 0..MaxPackets]
    /\ gen \in [0..(Slots - 1) -> 0..SeqMod]
    /\ data \in [0..(Slots - 1) -> -1..(MaxPackets - 1)]
    /\ receiving \in BOOLEAN /\ haveFirst \in BOOLEAN /\ strayed \in BOOLEAN
    /\ firstSeq \in Seqs /\ next \in Seqs
    /\ rx \in [at : {"select", "check", "store", "publish", "first", "number"},
               n : -1..(MaxPackets - 1)]
    /\ play \in {"wait", "anchor", "check", "read", "clear", "late", "silent", "parked", "steer"}
    /\ level \in Nat /\ pos \in Nat /\ {firstPkt, played} \subseteq -1..(MaxPackets - 1)
    /\ stored \in SUBSET (0..(MaxPackets - 1))

(* The samples of a slot have no lock: the receive thread never writes the *)
(* slot that playout is reading, although both legs, late copies, parking  *)
(* and concealment all move the two threads over the same buffer.  Needs a *)
(* playout that has not strayed (ReanchorsOnNextPacket) and the bound MaxLead, *)
(* i.e. a playout delay that fits the buffer.                              *)
NoSlotRace ==
    ~strayed /\ play \in {"read", "clear"} /\ rx.at \in {"store", "publish"}
        => SlotOf(SeqOf(rx.n)) # SlotOf(next)

(* What is played is the packet that is due: never a packet of an earlier  *)
(* turn of the buffer, one that a late copy put back, or one from before   *)
(* the stream was parked.                                                  *)
PlaysPacketDue ==
    ~strayed /\ play = "read" => data[SlotOf(next)] = pos

(* No packet is played twice and none after a newer one, although a late   *)
(* copy is stored again once its slot was cleared, and parking begins with *)
(* whatever packet arrives next.                                           *)
PlaysInOrder == [][play = "read" /\ play' # "read" /\ ~strayed => played' > played]_vars

(* rtpreceiver.cpp:348 "park and re-anchor on the next packet": playout    *)
(* leaves the parking loop with the number of the packet that ended it.    *)
ReanchorsOnNextPacket ==
    [][play = "parked" /\ play' # "parked" => next' = SeqOf(firstPkt)]_vars

(* rtpreceiver.h:23 "first arrival wins, the copy is dropped": a packet is *)
(* stored once.                                                            *)
CopyDropped ==
    rx.at = "store" => rx.n \notin stored
==============================================================================
