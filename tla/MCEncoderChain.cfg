CONSTANTS
    FrontCam = FrontCam
    RearCam = RearCam
    Streams <- OneStream
    MayFail <- FrontOnly
    OutputBuffers = 4
    QueueDepth = 2
    PendingCapacity = 16
    HardwareDelay = 1
    MaxGroup = 7
SPECIFICATION FairSpec
INVARIANTS PicturesIntact DropsCounted
PROPERTIES OwnLabels PoolRecovers
CHECK_DEADLOCK FALSE
