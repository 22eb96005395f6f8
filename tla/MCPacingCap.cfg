SPECIFICATION Spec

CONSTANTS
    Tiers <- MCTiers
    Delays <- MCDelays
    LayerCaps <- MCLayerCaps
    MaxDelay = 4
    Refresh = 3
    Window = 2
    Late = 1
    Skew = 1
    Start = 7
    MaxIdle = 1
    RenderTimes <- MCRenderTimes
    MaxLag = 1
    MaxTime = 12
    None = None

CHECK_DEADLOCK FALSE

PROPERTY FrameRateCap
