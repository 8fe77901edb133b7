SPECIFICATION WorkbenchSpec
CONSTANTS
    Activations = {"first", "second"}
    MaxPolls = 2
    NoWindow = NoWindow
    Last = 3
    MaxAttempts = 2
    FrameLimit = 2
    MaxFaults = 3
    Ordinary = 2
    PlannedStart <- MCPlannedStart
    Deadline <- MCDeadline
    Unrecoverable <- MCUnrecoverable
    InterTaskDelay = 2
    AttachDelay = 1
    ReleaseDelay = 1
    AttachTimeout = 6
    ReleaseTimeout = 4
    NoProgressTimeout = 2
    RecoveryTimeout = 3
    Duration = 24
CHECK_DEADLOCK FALSE
INVARIANTS
    NothingLeftBehind
    OneLifeline
    BufferInOrder
    NewestOnItsWay
    TypeOK
    Custody
    SlotNamesActiveTask
    BlockedOnlyByRecovery
    OrdinaryInOrder
    StagesBounded
PROPERTIES
    LaunchAnswered
    CatchesUp
    FinishedStaysFinished
    ImplementsContract
