\* Sync is lost once, between two reads of the PTP state.
CONSTANTS
    PTIME = 4
    AHEAD = 5
    LIMIT = 8
    Steps = {}
    MaxJumps = 1
    MaxStall = 0
SPECIFICATION FairSpec
CHECK_DEADLOCK FALSE
PROPERTY SendsWhenSynced
