SPECIFICATION FairSpec

CONSTANTS
    t1 = t1
    t2 = t2
    h1 = h1
    h2 = h2
    Threads <- MCThreads
    Handles <- MCHandles
    None = None

INVARIANTS
    TypeOK
    PartsInUseAreAlive

PROPERTIES
    CallsReturn
