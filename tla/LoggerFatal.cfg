SPECIFICATION Spec
CONSTANTS
    Threads = {p1, p2}
    NoThread = NoThread
    LastHour = 0
    MaxLines = 1
    LogLevel <- LogLevel15
    OpenMayFail = FALSE
INVARIANTS
    EnabledFatalWritten
CHECK_DEADLOCK FALSE
