SPECIFICATION PlannedDataSpec
CHECK_DEADLOCK FALSE
ACTION_CONSTRAINT OneOrder
CONSTRAINT Few
CONSTANTS
    Zones <- MCZones
    Forbidden <- MCForbidden
    Boundary <- MCBoundary
    LoadTypes <- MCLoads
    Capacity <- MCCapacity
    TrolleyMin = 2
    TrolleyMax = 26
    FallbackPickup = 1
    FallbackDropoff <- MCFallback
    SafeTransport = 15
    Unit = 3
    Mast <- MCMast
    CableMin = 3
    CableMax = 28
    MinDistance = 8
    Margin = 5
    Spacing = 4
    Ring <- MCRing
    OverlapShare <- MCShare
    SmallestSpan = 20
    Step = 3
    Apart = 6
    Level = 3
    Sites <- MCSites
    MaxAttempts = 2
    MaxRequests = 3
    Plan <- MCPlan
    Served <- MCServed
    Order <- MCOrder
    CraneCount <- MCCraneCount
    Layout <- MCLayout
    MayBeRisky = {"e2"}
    MaxFrame = 1
    MaxTakes = 2
    MaxMishaps = 1
    Refusable = {"pair_risks", "events"}
    Breakable = {"pair_risks", "frames", "summary"}
    TrainPercent = 70
    ValPercent = 15
    HoldLayout = TRUE
    HoldCranes = FALSE
    InputSteps = 1
    PredSteps = 1
    Stride = 1
    NegativesPerPositive <- MCSampling
    RequireReplay = FALSE
    MaxBuilds = 2
    MaxConversions = 1
INVARIANTS
    PlannedIsFeasible
    CheckedConfigStarts
    SummaryIsLast
    ReportTrue
    SamplesSound
    SplitsAgree
