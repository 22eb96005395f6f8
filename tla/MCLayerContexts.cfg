SPECIFICATION Spec

CONSTANTS
    h1 = h1
    h2 = h2
    h3 = h3
    h4 = h4
    h5 = h5
    h6 = h6
    t1 = t1
    t2 = t2
    None = None
    Null = Null
    Handles <- MCHandles
    Threads <- MCThreads
    MaxChildren = 2
    MaxLives = 2
    EnumeratesAll = TRUE

SYMMETRY Symmetry

CHECK_DEADLOCK FALSE

INVARIANTS
    TypeOK
    LookupFindsObject
    NoStaleContext
    KeyIsFree
    OwnersKnowTheirChildren
