SPECIFICATION FairSpec
CONSTANTS
    t1 = t1
    t2 = t2
    s1 = s1
    s2 = s2
    m1 = m1
    w1 = w1
    w2 = w2
    Direct = direct
    NoWork = nowork
    AwaitsBeforeSwitch = TRUE
    Threads <- MCThreads
    Swapchains <- MCSwapchains
    Sems <- MCSems
    Values <- MCValues
    Work <- MCWork
    Loads <- MCLoads
INVARIANTS
    TypeOK
    NoSignalDropped
    FreshSignal
    MonitorsLiveSwapchain
PROPERTIES
    SignalFollowsFrame
    SleepContract
    DestroyTerminates
