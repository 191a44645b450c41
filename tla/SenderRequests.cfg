\* Two requests at a time.
CONSTANTS
    a1 = a1
    p1 = p1
    p2 = p2
    c1 = c1
    c2 = c2
    Controllers <- Pair
    Addrs = {a1}
    Ports = {p1, p2}
    Bad = Bad
    Null = Null
    Faults = {}
    Posts <- StartStop
    Patches <- NoPatch
SPECIFICATION Spec
PROPERTY SocketsStable
