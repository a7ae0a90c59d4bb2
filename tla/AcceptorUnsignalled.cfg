SPECIFICATION FairSpec

CONSTANTS
    NumServices = 2
    Loopback = {1, 2}
    Clients = {c1}
    Stoppers = {k1}
    StopKinds = {"shutdown"}
    NumThreads = 1
    FDs = {f1, f2}
    MaxConns = 1
    SoTimeout = FALSE
    IdleTime = FALSE
    Faults = {}
    EarlyStop = FALSE
    None = None

PROPERTIES
    StopEndsAccepting

\* listen() returns and the process is done.
CHECK_DEADLOCK FALSE
