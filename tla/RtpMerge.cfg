\* Two legs, two slots, sequence numbers that come round, a stream that stops and resumes.
CONSTANTS
    Slots = 2
    SeqMod = 4
    StartSeq = 2
    DRY = 1
    TARGET = 2
    AHEAD = 0
    PROBE = 1
    MaxPackets = 6
    MaxLead = 2
    MaxRun = 1
SPECIFICATION Spec
CHECK_DEADLOCK FALSE
INVARIANTS
    NoSlotRace
    PlaysPacketDue
PROPERTY PlaysInOrder
