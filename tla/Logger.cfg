SPECIFICATION Spec
CONSTANTS
    Threads = {p1, p2}
    NoThread = NoThread
    LastHour = 2
    MaxLines = 2
    LogLevel <- LogLevel15
    OpenMayFail = TRUE
INVARIANTS
    TypeOK
    FileUsedUnderMutex
    LineInFileOfItsHour
    LineWritten
PROPERTIES
    LogCallReturns
\* The threads stop after MaxLines lines, and a failed fopen leaves the mutex
\* locked for ever.
CHECK_DEADLOCK FALSE
