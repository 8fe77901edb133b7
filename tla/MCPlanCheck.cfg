SPECIFICATION SetupSpec
CONSTANTS
    Zones <- MCZones
    Forbidden <- MCForbidden
    Boundary <- MCBoundary
    LoadTypes <- MCLoads
    Capacity <- MCCapacity
    TrolleyMin = 2
    TrolleyMax = 26
    FallbackPickup = 1
    FallbackDropoff <- MCFallback
    SafeTransport = 15
    Unit = 3
    Mast <- MCMast
    CableMin = 3
    CableMax = 28
    MinDistance = 8
    Margin = 5
    Spacing = 4
    Ring <- MCRing
    OverlapShare <- MCShare
    SmallestSpan = 20
    Step = 3
    Apart = 6
    Level = 3
    Sites <- MCSites
    MaxAttempts = 3
    MaxRequests = 3
INVARIANT PlansPassTheCheck
