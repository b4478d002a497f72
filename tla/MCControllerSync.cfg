\* A panel whose replies are lost or garbled; nothing else fails.
SPECIFICATION Spec
CONSTANTS
    Users = {u1, u2}
    Plans <- SpeedsAndDevices
    NoPlan = NoPlan
    NoList = NoList
    c1 = c1
    c2 = c2
    Configs = {c1, c2}
    NoConfig = NoConfig
    Garbage = Garbage
    Tls = {c2}
    BadRules = {}
    PullInterval <- SameInterval
    Named = FALSE
    ManagedCert = FALSE
    NodeFetchFails = TRUE
    UserFetchFails = TRUE
    Garbles = TRUE
    CertFails = FALSE
    CoreFails = FALSE
    Closes = FALSE
    MaxPanelChanges = 2
    Loops = {g1}
    NoLoop = NoLoop
INVARIANTS
    CoreTracksUserList
    NoPanic
PROPERTIES
    UnchangedUsersStayConnected
    NodeConverges
    UsersConverge
CHECK_DEADLOCK FALSE
