CONSTANTS
    FrontCam = FrontCam
    RearCam = RearCam
    Cameras <- TwoCameras
    Capacity = 2
    QueueDepth = 2
    Spacing = 3
    Period = 4
    MaxTime = 15
    MaxInputs = 5
    MaxCycle = 5
    MaxLossy = 1
    LastLoss = 5
    MaxWaiting = 2
SPECIFICATION Spec
INVARIANTS TypeOK PassedOverIsGone IspInOrder
PROPERTY PoolSuffices
