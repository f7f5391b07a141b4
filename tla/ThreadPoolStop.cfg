SPECIFICATION Spec
CONSTANTS
    Main = Main
    MaxThreads = 2
    Tasks = {t1}
    NoTask = NoTask
    NoThread = NoThread
    MaxSpurious = 0
    MaxSignals = 1
    MaxCreateFail = 0
PROPERTIES
    StopEndsWorkers
CHECK_DEADLOCK FALSE
