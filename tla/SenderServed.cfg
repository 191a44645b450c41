\* Two requests at a time; the sending thread may sleep for good.
CONSTANTS
    a1 = a1
    p1 = p1
    p2 = p2
    c1 = c1
    c2 = c2
    Controllers <- Pair
    Addrs = {a1}
    Ports = {p1, p2}
    Bad = Bad
    Null = Null
    Faults = {"stick"}
    Posts <- StartStop
    Patches <- OnlyEnable
SPECIFICATION FairSpec
PROPERTY RequestsServed
