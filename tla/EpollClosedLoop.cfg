SPECIFICATION Spec
CONSTANTS
    Conns = {c1, c2, c3}
    Fds = {5, 6}
    Workers = {w1, w2}
    MaxSegments = 2
    ClientMay <- ClosedLoop
    NoConn = NoConn
    NoTask = NoTask
    NoEnv = NoEnv
INVARIANTS
    SegmentsConserved
    ResponseReachesItsClient
    BacklogIsReported
PROPERTIES
    EverySegmentAnswered
\* The server waits for ever once the clients are gone.
CHECK_DEADLOCK FALSE
