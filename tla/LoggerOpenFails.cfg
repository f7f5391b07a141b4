SPECIFICATION Spec
CONSTANTS
    Threads = {p1, p2}
    NoThread = NoThread
    LastHour = 1
    MaxLines = 1
    LogLevel <- LogLevel15
    OpenMayFail = TRUE
PROPERTIES
    EveryLogCallReturns
CHECK_DEADLOCK FALSE
