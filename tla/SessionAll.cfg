CONSTANTS
    Sockets = {s1, s2}
    Bridges = {b1, b2}
    None = None
    Secrets = {k1, k2, k3}
    PairingIds = {p1, p2, p3}
    WrongCode = WrongCode
    CompatibleBridges = {b1, b2}
    PersistFailures = {"pairing"}
    MaxTimers = 2
    MaxUnsent = 2
    Disturbances = {"break", "reset", "restart", "reload", "expire", "slow", "reconnect", "hasty", "late proof", "shutdown"}
    MaxDisturbances = 2
SPECIFICATION Spec
SYMMETRY Symmetry
INVARIANTS
    TypeOK
    AcceptedIsPaired
PROPERTY
    PairingIsNotStolen
CHECK_DEADLOCK FALSE
