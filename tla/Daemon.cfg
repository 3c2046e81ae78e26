SPECIFICATION Spec
CONSTANTS
    c1 = c1
    c2 = c2
    c3 = c3
    p1 = p1
    p2 = p2
    p3 = p3
    Commands = {c1, c2, c3}
    Pids = {p1, p2, p3}
    Ops = {"start", "stop", "restart", "status"}
    Disturbances = {"kill", "crash", "reuse"}
    MaxDisturbances = 2
    None = None
SYMMETRY Symmetry
INVARIANTS
    TypeOK
    OneDaemon
    RecordedAtRest
PROPERTIES
    StartedServes
    FailedLeavesNothing
    StopStops
    OthersAreSpared
CHECK_DEADLOCK FALSE
