SPECIFICATION LiveFairSpec
CONSTANTS
    Last = 3
    MaxAttempts = 2
    FrameLimit = 2
    MaxFaults = 3
CHECK_DEADLOCK FALSE
PROPERTY DroppedIsDisconnected
