CONSTANTS
    None = None
    Procs = {p}
    Platforms <- MCLinux
    MaxVersion = 3
SPECIFICATION Spec
INVARIANT RestartRunsUpdated
CHECK_DEADLOCK FALSE
