\* Four units to a packet; stalls of up to a packet; three changes of the clock.
CONSTANTS
    PTIME = 4
    AHEAD = 5
    LIMIT = 8
    Steps = {1, 3, 10}
    MaxJumps = 3
    MaxStall = 4
SPECIFICATION FairSpec
CHECK_DEADLOCK FALSE
PROPERTIES
    TimestampsIncrease
    StopReturns
    KeepsSending
