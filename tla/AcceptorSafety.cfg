SPECIFICATION Spec

CONSTANTS
    NumServices = 2
    Loopback = {1, 2}
    Clients = {c1, c2}
    Stoppers = {k1}
    StopKinds = {"dispose"}
    NumThreads = 2
    FDs = {f1, f2}
    MaxConns = 1
    SoTimeout = FALSE
    IdleTime = FALSE
    Faults = {"bind", "accept", "session"}
    EarlyStop = FALSE
    None = None

SYMMETRY SafetySymmetry

INVARIANTS
    LimitRespected
    CounterExact
    RegistryExact
    NothingLeftBehind
    SafetyInv

PROPERTIES
    ImplementsService

\* listen() returns and the process is done.
CHECK_DEADLOCK FALSE
