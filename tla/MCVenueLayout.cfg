SPECIFICATION Spec
CONSTANTS
    Halls = {h1, h2}
    Blocks = {1, 2}
    SlotCount = 3
    Requests = {r1, r2}
    MaxOpen = 1
    MaxDisabled = 1
    NULL = NULL
SYMMETRY Interchangeable
INVARIANTS
    HallsAreWhole
PROPERTY ImplementsAllocation
CHECK_DEADLOCK FALSE
