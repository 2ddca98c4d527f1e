CONSTANTS
    FrontCam = FrontCam
    RearCam = RearCam
    Streams <- TwoStreams
    MayFail <- FrontOnly
    OutputBuffers = 2
    QueueDepth = 1
    PendingCapacity = 2
    HardwareDelay = 0
    MaxGroup = 4
SPECIFICATION FairSpec
PROPERTY StreamsIndependent
CHECK_DEADLOCK FALSE
