\* Delay shortened to two iterations.
CONSTANT DELAY = 2
SPECIFICATION MonitorFairSpec
INVARIANT OverallIsWorst
PROPERTIES
    PathAndSyncPersisted
    LastingStateReported
