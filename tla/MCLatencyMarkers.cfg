SPECIFICATION Spec
CONSTANTS
    t1 = t1
    t2 = t2
    Threads <- MCThreads
    PresentIds <- MCPresentIds
    RingSize = 2
    MaxTime = 3
CHECK_DEADLOCK FALSE
INVARIANTS
    ReportsMarkers
