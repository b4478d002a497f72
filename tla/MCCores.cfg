\* Two nodes, each on a core that the selector picks.
SPECIFICATION Spec
CONSTANTS
    n1 = n1
    u1 = u1
    Nodes = {n1, n2}
    Users = {u1, u2}
    Conns = {c1, c2}
    None = None
    Configs <- ThreeCores
    Setups <- Setups3
    Lists <- ListsOf1
    MaxEvents = 4
SYMMETRY Symmetry
INVARIANTS
    ListedIsServed
    ServedIsListed
    RejectedIsMarked
    LimitedUnlessClosing
CHECK_DEADLOCK FALSE
