\* Two requests at a time, in a process that may end at any step; updates may throw,
\* Saves may fail and the sending thread may sleep for good.
CONSTANTS
    a1 = a1
    p1 = p1
    p2 = p2
    c1 = c1
    c2 = c2
    Controllers <- Pair
    Addrs = {a1}
    Ports = {p1, p2}
    Bad = Bad
    Null = Null
    Faults = {"throw", "save", "stick"}
    Posts <- AllPosts
    Patches <- AllPatches
SPECIFICATION Spec
SYMMETRY ControllerSymmetry
INVARIANTS
    SenderFollowsConfig
    ChangesBumped
    WaitsEnd
PROPERTY RestartKeepsSettings
