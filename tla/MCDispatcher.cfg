\* Two connections and a user that is deleted and comes back.
SPECIFICATION Spec
CONSTANTS
    Users = {u1}
    Conns = {c1, c2}
    None = None
    MaxChanges = 1
INVARIANTS
    LinksAreOpen
    DeletedUserCut
    OpenIsCounted
PROPERTY
    DelUsersReturns
CHECK_DEADLOCK FALSE
