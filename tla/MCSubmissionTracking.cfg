SPECIFICATION Spec
CONSTANTS
    q1 = q1
    q2 = q2
    t1 = t1
    t2 = t2
    p1 = p1
    p2 = p2
    p3 = p3
    NoSpan = nospan
    MaxTracked = 2
    MaxSubmits = 3
    MaxPresents = 2
    SubmitsBeforePresent = TRUE
    Queues <- MCQueues
    Threads <- MCThreads
    PresentIds <- MCPresentIds
SYMMETRY Symmetry
INVARIANTS
    TypeOK
    TrackingIsBounded
    TrackedIsInRing
    Accounted
    PresentMissesNothing
PROPERTIES
    EvictsOldest
