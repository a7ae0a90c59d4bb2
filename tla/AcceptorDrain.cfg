SPECIFICATION FairSpec

CONSTANTS
    NumServices = 1
    Loopback = {1}
    Clients = {c1}
    Stoppers = {k1}
    StopKinds = {"shutdown"}
    NumThreads = 2
    FDs = {f1, f2}
    MaxConns = 1
    SoTimeout = TRUE
    IdleTime = TRUE
    Faults = {}
    EarlyStop = FALSE
    None = None

PROPERTIES
    IdleReaped
    ListenReturnsAfterStop

\* listen() returns and the process is done.
CHECK_DEADLOCK FALSE
