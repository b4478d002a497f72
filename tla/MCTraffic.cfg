\* Collection, pushes and user changes against moving connections.
SPECIFICATION Spec
CONSTANTS
    Users = {u1}
    Conns = {c1}
    Loops = {l1, l2}
    None = None
    Min = 1
    Retries = 1
    MaxUnits = 3
    MaxChanges = 2
INVARIANTS
    NoOvercount
    OvercountBounded
    LossesExplained
PROPERTY
    TrafficDrains
