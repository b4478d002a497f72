\* Certificates, the core and Close fail or race; one monitor loop.
SPECIFICATION Spec
CONSTANTS
    Users = {u1, u2}
    Plans <- TwoSpeeds
    NoPlan = NoPlan
    NoList = NoList
    c1 = c1
    c2 = c2
    Configs = {c1, c2}
    NoConfig = NoConfig
    Garbage = Garbage
    Tls = {c2}
    BadRules = {}
    PullInterval <- SameInterval
    Named = FALSE
    ManagedCert = TRUE
    NodeFetchFails = FALSE
    UserFetchFails = FALSE
    Garbles = FALSE
    CertFails = TRUE
    CoreFails = TRUE
    Closes = TRUE
    MaxPanelChanges = 2
    Loops = {g1}
    NoLoop = NoLoop
INVARIANTS
    NodeMatchesInfo
    LimiterTracksUserList
PROPERTY
    ClosedControllerStops
CHECK_DEADLOCK FALSE
