CONSTANTS
    Reqs = {r1, r2, r3}
    Denied = {r3}
    Unsendable = {r2}
    Sockets = {s1, s2}
    None = None
    AuditMayFail = TRUE
SPECIFICATION FairSpec
INVARIANTS
    TypeOK
    AuditedOnce
PROPERTIES
    AnsweredOnOwnConnection
    ImplementsService
    EverySentIsSettled
CHECK_DEADLOCK FALSE
