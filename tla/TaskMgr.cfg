SPECIFICATION Spec
CONSTANTS
    Producers = {p1, p2}
    Workers = {w1, w2}
    Tasks = {t1, t2, t3}
    NoTask = NoTask
    NoThread = NoThread
    MaxSpurious = 1
INVARIANTS
    QueueGuarded
    PopFindsFront
    TasksConserved
    NoLostWakeup
PROPERTIES
    ImplementsTaskQueue
    EveryTaskHandled
\* When all tasks are done the workers wait for ever.
CHECK_DEADLOCK FALSE
