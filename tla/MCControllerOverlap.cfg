\* An interval change leaves two monitor loops that overlap.
SPECIFICATION Spec
CONSTANTS
    Users = {u1}
    Plans <- TwoSpeeds
    NoPlan = NoPlan
    NoList = NoList
    c1 = c1
    c2 = c2
    Configs = {c1, c2, c3}
    NoConfig = NoConfig
    Garbage = Garbage
    Tls = {c2}
    BadRules = {c3}
    PullInterval <- OtherInterval
    Named = FALSE
    ManagedCert = TRUE
    NodeFetchFails = TRUE
    UserFetchFails = TRUE
    Garbles = FALSE
    CertFails = TRUE
    CoreFails = TRUE
    Closes = TRUE
    MaxPanelChanges = 3
    Loops = {g1, g2}
    NoLoop = NoLoop
INVARIANT
    ReloadsExclude
CHECK_DEADLOCK FALSE
