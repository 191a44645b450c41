\* A delay response of the old domain that is in flight during SetDomain.
CONSTANTS
    N = 2
    ClockOf <- TwoClocks
    Domains = {dA, dB}
    Announces <- FixedGrandmasters
    Nets = {0}
    MsgTypes = {"announce", "sync", "followUp", "delayResp"}
    SeqMod = 1
    MIN_SAMPLES = 2
    SETTLED = 2
    WINDOW = 2
    ANNOUNCE_TIMEOUT = 0
    SYNC_TIMEOUT = 0
    DELAY_EVERY = 1
SYMMETRY DomainSymmetry
SPECIFICATION Spec
INVARIANT SessionRestarted
