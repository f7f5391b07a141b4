SPECIFICATION Spec
CONSTANTS
    InitCap = 16
    Chunk = 4
    MaxRequest = 123
    MaxInt = 255
INVARIANTS
    WritesInBounds
    CapacityBounded
