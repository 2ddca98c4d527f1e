CONSTANTS
    Capacity = 2
    MaxCycle = 6
    MaxLostAcks = 2
SPECIFICATION FairSpec
INVARIANTS NoSlotRace LabelsMatchExposures LabelsIncrease
PROPERTIES ImplementsFifo EveryExposureLabelled
CHECK_DEADLOCK FALSE
