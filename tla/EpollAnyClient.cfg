SPECIFICATION Spec
CONSTANTS
    Conns = {c1, c2}
    Fds = {5, 6}
    Workers = {w1, w2}
    MaxSegments = 2
    ClientMay <- AnyClient
    NoConn = NoConn
    NoTask = NoTask
    NoEnv = NoEnv
INVARIANTS
    BatchIsCurrent
    EnvAliveWhenUsed
    InputIsReported

    
\* The server waits for ever once the clients are gone.
CHECK_DEADLOCK FALSE
