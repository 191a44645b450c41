\* Sequence numbers wrap in a session, packets arrive again and out of order; two sessions.
CONSTANTS
    SeqMod = 6
    StartSeq = 4
    MaxPackets = 7
    MaxSessions = 2
    MaxLost = 4
SPECIFICATION LegSpec
CHECK_DEADLOCK FALSE
INVARIANTS
    LossExact
    LossNotMissed
    NoLossReportedTwice
