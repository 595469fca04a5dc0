SPECIFICATION OwnershipSpec
CONSTANTS
    b1 = b1  b2 = b2  b3 = b3  m1 = m1
    Bundle <- MCBundle
    Message <- MCMessage
    MaxLen = 2
    MaxRefs = 3
    Paths <- MCPaths
    Types <- MCTypes
    Pattern <- MCPattern
    MaxHandlers = 3
    Null = Null
SYMMETRY MCSymmetry
INVARIANTS TypeOK CountsMatch NoDangling Acyclic WalkFindsCircle NothingLeaks CallbacksKept
CHECK_DEADLOCK FALSE
