\* Two users on two addresses, who are added, dropped and re-rated.
SPECIFICATION Spec
CONSTANTS
    Limited = u1
    Users = {u1, u2}
    IPs = {i1, i2}
    Calls = {c1, c2}
    Objs = {o1, o2, o3, o4, o5, o6}
    None = None
    NodeSpeed = 2
    Speeds = {1, 3}
    DeviceLimit <- Limits
    MaxCalls = 2
    MaxReports = 1
    MaxUpdates = 1
    MaxAliveChanges = 1
SYMMETRY Symmetry
INVARIANTS
    RejectedLeave
    OverLimitExplained
    BucketMatches
CHECK_DEADLOCK FALSE
