SPECIFICATION Spec
CONSTANTS
    Main = Main
    MaxThreads = 2
    Tasks = {t1, t2}
    NoTask = NoTask
    NoThread = NoThread
    MaxSpurious = 1
    MaxSignals = 2
    MaxCreateFail = 1
INVARIANTS
    TypeOK
    FaultOnlyInStartUp
    StopReachesAll
    ExitsClean
PROPERTIES
    TaskRunsUnlessStopped
    BusyWorkerExits
\* Without tasks, or after a stop, every thread may be blocked for ever.
CHECK_DEADLOCK FALSE
