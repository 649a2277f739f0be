\* Two operations on two vectors, by three ranks in a line.
SPECIFICATION Spec
CONSTANTS
    x = x
    y = y
    Ranks = {0, 1, 2}
    Vectors = {x, y}
    Neighbors <- MCNeighbors
    Tag <- MCTag
    BigRanks = {1}
    MaxOps = 2
INVARIANTS
    ReadsCurrent
    DirtyBitsTrue
    SendBufferKept
    NothingLeftBehind
    NobodyWaitsForever
PROPERTIES
    ImplementsNeighborSync
