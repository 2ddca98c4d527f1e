CONSTANTS
    QueueCapacity = 2
    RingCapacity = 2
    FirstNumber = 1
    EarlyLoss = FALSE
    MaxCycle = 5
    MaxLost = 1
    MaxHeld = 1
    MaxSessions = 2
SPECIFICATION FairSpec
INVARIANTS TrueLabels ImagesIntact FramesAccounted RefusalEnds
PROPERTY StopReturns
CHECK_DEADLOCK FALSE
