CONSTANTS
    Period = 3
    MaxTime = 10
    MaxInputs = 10
SPECIFICATION SelectorSpec
INVARIANTS
    EveryGroupAccounted
    RateBounded
PROPERTIES
    NearestChosen
    ServedOnTime
