SPECIFICATION FairSpec

CONSTANTS
    NumServices = 1
    Loopback = {1}
    Clients = {c1}
    Stoppers = {k1, k2}
    StopKinds = {"shutdown", "dispose"}
    NumThreads = 1
    FDs = {f1, f2}
    MaxConns = 1
    SoTimeout = FALSE
    IdleTime = FALSE
    Faults = {"bind", "accept", "session"}
    EarlyStop = FALSE
    None = None

PROPERTIES
    StopEndsAccepting
    ListenReturnsAfterDispose

\* listen() returns and the process is done.
CHECK_DEADLOCK FALSE
