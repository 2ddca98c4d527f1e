CONSTANTS
    Capacity = 2
    MaxSubmits = 5
    MaxReports = 2
SPECIFICATION StreamerFairSpec
INVARIANTS NoLostWakeup EachOnce StatisticsAdd
PROPERTIES StopReturns ValuesLeave
CHECK_DEADLOCK FALSE
