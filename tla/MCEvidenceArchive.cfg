CONSTANTS
    Tools <- AllTools
    Paths <- MCPaths
    Stages = 2
    MaxEdits = 2
    MaxCrashes = 2
SPECIFICATION Spec
INVARIANTS RemovedIsArchived AcceptedIsExact
CHECK_DEADLOCK FALSE
