\* Two legs, a jitter buffer of two slots and a stream that stops and resumes.
CONSTANTS
    Slots = 2
    SeqMod = 8
    StartSeq = 6
    DRY = 1
    TARGET = 2
    AHEAD = 0
    PROBE = 1
    MaxPackets = 4
    MaxLead = 2
    MaxRun = 1
SPECIFICATION Spec
CHECK_DEADLOCK FALSE
PROPERTY ReanchorsOnNextPacket
