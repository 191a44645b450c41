\* Two paths to one grandmaster, on two nets; masters
\* and syncs that fall silent.
CONSTANTS
    N = 2
    ClockOf <- TwoClocks
    Domains = {dA}
    Announces <- Relays
    Nets = {0, 1}
    MsgTypes = {"announce", "sync"}
    SeqMod = 1
    MIN_SAMPLES = 2
    SETTLED = 2
    WINDOW = 2
    ANNOUNCE_TIMEOUT = 0
    SYNC_TIMEOUT = 0
    DELAY_EVERY = 1
SPECIFICATION FairSpec
INVARIANT SelectedIsBest
PROPERTIES
    ImplementsMediaClock
    SilentMasterForgotten
    SilenceDropsSync
