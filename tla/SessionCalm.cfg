CONSTANTS
    Sockets = {s1, s2}
    Bridges = {b1}
    None = None
    Secrets = {k1, k2, k3}
    PairingIds = {p1, p2, p3}
    WrongCode = WrongCode
    CompatibleBridges = {b1}
    PersistFailures = {}
    MaxTimers = 2
    MaxUnsent = 1
    Disturbances = {"break", "reset", "restart", "reload", "expire", "slow", "shutdown"}
    MaxDisturbances = 3
SPECIFICATION FairSpec
INVARIANTS
    ConnectedAgreement
PROPERTIES
    SecretDroppedOnlyWhenRevoked
    ShutdownStaysDown
    PairedReconnects
CHECK_DEADLOCK FALSE
