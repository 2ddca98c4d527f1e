CONSTANTS
    FrontCam = FrontCam
    RearCam = RearCam
    Cameras <- TwoCameras
    Capacity = 4
    QueueDepth = 2
    Spacing = 3
    Period = 4
    MaxTime = 42
    MaxInputs = 14
    MaxCycle = 14
    MaxLossy = 2
    LastLoss = 6
    MaxWaiting = 1
SPECIFICATION PromptSpec
PROPERTY RingFollowsCamera
CHECK_DEADLOCK FALSE
