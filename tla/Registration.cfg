\* Two registries, two resources, two faults of any kind.
CONSTANTS
    Regs = {"r1", "r2"}
    Directories <- MCDirectories
    DUE = 2
    Resources <- NodeAndReceiver
    MaxChanges = 1
    MaxFaults = 2
SPECIFICATION FairSpec
CHECK_DEADLOCK FALSE
INVARIANTS
    RegistryCurrent
PROPERTIES
    JoinsPreferred
    EventuallyRegistered
