SPECIFICATION Spec
CONSTANTS
    Conns = {c1, c2}
    Fds = {5, 6}
    Workers = {w1}
    MaxSegments = 1
    ClientMay <- Impatient
    NoConn = NoConn
    NoTask = NoTask
    NoEnv = NoEnv
INVARIANTS
    ResponseReachesItsClient
CHECK_DEADLOCK FALSE
