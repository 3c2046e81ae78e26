CONSTANTS
    Sockets = {s1, s2, s3}
    Bridges = {b1}
    None = None
    Secrets = {k1, k2}
    PairingIds = {p1, p2}
    WrongCode = WrongCode
    CompatibleBridges = {b1}
    PersistFailures = {}
    MaxTimers = 2
    MaxUnsent = 1
    Disturbances = {"reconnect", "late proof"}
    MaxDisturbances = 3
SPECIFICATION FairSpec
PROPERTY
    SecretDroppedOnlyWhenRevoked
CHECK_DEADLOCK FALSE
