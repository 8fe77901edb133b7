SPECIFICATION FairSpec
CONSTANTS
    c1 = c1
    c2 = c2
    Cranes <- MCCranes
    Dt = 2
    Duration = 9
    MinDuration = 8
    Cooldown = 4
    Interval = 3
    StopWhenDone = TRUE
    NeutralDuration = 2
    Durations <- MCDurations
CHECK_DEADLOCK FALSE
INVARIANTS
    LogInOrder
    CommandsCurrent
    CompletionEarned
    LoopLeavesDecided
PROPERTIES
    EpisodeEnds
    ImplementsContract
    ImplementsCalls
