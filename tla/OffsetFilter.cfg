\* The window sizes are scaled down; two offsets are more than a jump apart.
CONSTANTS
    Offsets = {0, 60, 200}
    JUMP = 50
    MIN_SAMPLES = 2
    SETTLED = 3
    WINDOW = 5
SPECIFICATION FairSpec
INVARIANT MappingInRange
PROPERTIES
    OutliersIgnored
    MappingRecovers
