SPECIFICATION Spec
CONSTANTS
    Ordinary = 2
    PlannedStart <- MCPlannedStart
    Deadline <- MCDeadline
    Unrecoverable <- MCUnrecoverable
    InterTaskDelay = 2
    AttachDelay = 1
    ReleaseDelay = 1
    AttachTimeout = 6
    ReleaseTimeout = 4
    NoProgressTimeout = 2
    RecoveryTimeout = 3
    Duration = 18
CHECK_DEADLOCK FALSE
INVARIANT RecoveryBounded
