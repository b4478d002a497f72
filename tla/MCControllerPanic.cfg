\* A failed certificate request leaves the node removed.
SPECIFICATION Spec
CONSTANTS
    Users = {u1, u2}
    Plans <- SpeedsAndDevices
    NoPlan = NoPlan
    NoList = NoList
    c1 = c1
    c2 = c2
    Configs = {c1, c2}
    NoConfig = NoConfig
    Garbage = Garbage
    Tls = {c2}
    BadRules = {}
    PullInterval <- SameInterval
    Named = FALSE
    ManagedCert = FALSE
    NodeFetchFails = FALSE
    UserFetchFails = FALSE
    Garbles = FALSE
    CertFails = TRUE
    CoreFails = FALSE
    Closes = FALSE
    MaxPanelChanges = 3
    Loops = {g1}
    NoLoop = NoLoop
INVARIANT
    NoPanic
CHECK_DEADLOCK FALSE
