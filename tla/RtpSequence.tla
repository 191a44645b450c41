----------------------------- MODULE RtpSequence -----------------------------
(***************************************************************************)
(* The sequence numbers of RTP packets, 16 bits wide.  Packets are         *)
(* numbered by the sender from 0; the number a packet carries starts at a  *)
(* random value (nSeq of RtpSender::SendLoop) and wraps around.            *)
(***************************************************************************)
EXTENDS Integers

CONSTANTS SeqMod,      \* 2^16
          StartSeq,    \* the sequence number of the sender's first packet
          MaxPackets   \* bound: packets sent

ASSUME SequenceAssumption ==
    /\ SeqMod \in Nat \ {0}
    /\ StartSeq \in 0..(SeqMod - 1)
    /\ MaxPackets \in Nat \ {0}

SeqOf(n) == (StartSeq + n) % SeqMod
==============================================================================
