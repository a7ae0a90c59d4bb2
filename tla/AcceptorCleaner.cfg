SPECIFICATION Spec

CONSTANTS
    NumServices = 1
    Loopback = {1}
    Clients = {c1, c2}
    Stoppers = {k1}
    StopKinds = {"shutdown"}
    NumThreads = 1
    FDs = {f1, f2}
    MaxConns = 1
    SoTimeout = FALSE
    IdleTime = TRUE
    Faults = {}
    EarlyStop = FALSE
    None = None

INVARIANTS
    CleanerCovers

\* listen() returns and the process is done.
CHECK_DEADLOCK FALSE
