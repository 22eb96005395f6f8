SPECIFICATION FairSpec
CONSTANTS
    c1 = c1
    c2 = c2
    h1 = h1
    h2 = h2
    h3 = h3
    monitor = monitor
    App = app
    NoSlot = noslot
    NoHandle = nohandle
    MaxBatch = 2
    Chunks <- MCChunks
    Indices <- MCIndices
    Handles <- MCHandles
    Trackers <- MCTrackers
INVARIANTS
    TypeOK
    SlotOwnership
    FreeSlotIsIdle
    OnePlace
    CleanShutdown
PROPERTIES
    VulkanContract
    ReapedEventually
    DestroyTerminates
