\* A domain change racing the receive thread and the timer: the selection, and what
\* the window and the mapping are computed from.
CONSTANTS
    N = 2
    ClockOf <- TwoClocks
    Domains = {dA, dB}
    Announces <- FixedGrandmasters
    Nets = {0}
    MsgTypes = {"announce", "sync", "followUp", "delayResp"}
    SeqMod = 1
    MIN_SAMPLES = 1
    SETTLED = 1
    WINDOW = 1
    ANNOUNCE_TIMEOUT = 0
    SYNC_TIMEOUT = 0
    DELAY_EVERY = 1
SYMMETRY DomainSymmetry
SPECIFICATION Spec
INVARIANTS
    SelectionCurrent
    SelectedFromDomain
    WindowFromSelected
    MappingFromDomain
PROPERTY ImplementsMediaClock
