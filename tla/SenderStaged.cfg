\* Updates from the page, and an IS-05 controller that only stages master_enable.
CONSTANTS
    a1 = a1
    p1 = p1
    p2 = p2
    c1 = c1
    c2 = c2
    Controllers = {c1}
    Addrs = {a1}
    Ports = {p1, p2}
    Bad = Bad
    Null = Null
    Faults = {}
    Posts <- StartStop
    Patches <- OnlyEnable
SPECIFICATION Spec
PROPERTY OnlyStagedOverrides
