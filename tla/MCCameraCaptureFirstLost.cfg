CONSTANTS
    QueueCapacity = 2
    RingCapacity = 2
    FirstNumber = 1
    EarlyLoss = TRUE
    MaxCycle = 5
    MaxLost = 1
    MaxHeld = 1
    MaxSessions = 1
SPECIFICATION Spec
INVARIANT TrueLabels
CHECK_DEADLOCK FALSE
