\* Settings changed in the sidebar, servers that stop, codes and reconnects.
SPECIFICATION FairSpec
CONSTANTS
    u1 = u1
    u2 = u2
    malformed = malformed
    Urls <- MCUrls
    BadUrls = {malformed}
    Settings <- MCSettings
    FirstSettings <- MCFirst
    MaxAttempts = 1
    MaxClients = 2
    Changes = 1
    Mounts = 1
    Troubles = 1
    None = None
INVARIANTS
    TypeOK
    OldClientsAreDone
    StoredIsCurrent
    SettingsObeyed
PROPERTIES
    ActivityReconnects
CHECK_DEADLOCK FALSE
