CONSTANTS
    None = None
    Procs = {p, q}
    Platforms <- MCPlatforms
    MaxVersion = 3
SPECIFICATION Spec
INVARIANT BinaryKept
PROPERTIES UpdateReachesEveryName RestartNeverStale
CHECK_DEADLOCK FALSE
