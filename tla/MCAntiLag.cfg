SPECIFICATION FairSpec
CONSTANTS
    t1 = t1
    gfx1 = gfx1
    gfx2 = gfx2
    compute = compute
    w1 = w1
    w2 = w2
    s1 = s1
    s2 = s2
    Monitor = monitor
    None = none
    Threads <- OneThread
    Queues <- MCQueues
    Graphics <- MCGraphics
    Work <- MCWork
    Swapchains <- OneSwapchain
INVARIANTS
    TypeOK
    BackPressure
    NoLostWakeup
PROPERTIES
    InputReturns
    StopTerminates
    FrameSpec
