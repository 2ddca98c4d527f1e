SPECIFICATION ToolsSpec
CONSTANTS
    Initial <- FewChanges
    Period = 2
    Duration = 4
    Nodes = 2
    MaxFrames = 2
    MaxTime = 6
INVARIANTS
    NoBursts
    NoDrift
    PartsAgree
    LateRefusals
PROPERTIES
    ObeysSdk
    ProgramEnds
\* Both programs end.
CHECK_DEADLOCK FALSE
