\* One IS-12 client and one of two browsers do not read.
CONSTANTS
    Clients = {c1}
    SlowClients = {c1}
    MaxChanges = 2
    Slots = {w1, w2}
    SlowSlots = {w2}
    FullEvery = 2
SPECIFICATION WebSpec
INVARIANTS
    ClosedNotWritten
    SubscriberCurrent
    StaleForOneRound
PROPERTIES
    StatusShown
    StopEnds
