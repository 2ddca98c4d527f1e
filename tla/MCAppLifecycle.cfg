CONSTANTS
    CameraCount = 2
    StreamCount = 2
    QueueDepth = 1
    MaxGroups = 1
SPECIFICATION FairSpec
INVARIANTS PartsOutliveTheirUsers NothingRefused
PROPERTY StopReleases
CHECK_DEADLOCK FALSE
