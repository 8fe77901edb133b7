SPECIFICATION Spec
CHECK_DEADLOCK FALSE
ACTION_CONSTRAINT OneOrder
CONSTRAINT Few
CONSTANTS
    Plan <- MCPlan
    Served <- MCServed
    Order <- MCOrder
    CraneCount <- MCCraneCount
    Layout <- MCLayout
    MayBeRisky = {"e2"}
    MaxFrame = 1
    MaxTakes = 2
    MaxMishaps = 0
    Refusable = {"pair_risks", "events"}
    Breakable = {"pair_risks", "frames", "summary"}
    TrainPercent = 70
    ValPercent = 15
    HoldLayout = TRUE
    HoldCranes = FALSE
    InputSteps = 1
    PredSteps = 1
    Stride = 1
    NegativesPerPositive <- MCSampling
    RequireReplay = FALSE
    MaxBuilds = 2
    MaxConversions = 1
INVARIANTS
    SplitFilesAgree
