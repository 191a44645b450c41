\* Changes that no BumpVersion follows: two registries, two resources, no fault.
CONSTANTS
    Regs = {"r1", "r2"}
    Directories <- MCDirectories
    DUE = 2
    Resources <- NodeAndReceiver
    MaxChanges = 1
    MaxFaults = 0
SPECIFICATION Spec
CHECK_DEADLOCK FALSE
INVARIANT ChangesRegistered
